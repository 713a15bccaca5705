-------------------------------- MODULE Caigen --------------------------------
(***************************************************************************)
(* The CAI generator, caigen/caigen.go: genStmt walks the statements of a   *)
(* function and writes CAI text.  Of the text, what is kept is the control  *)
(* flow (labels placed, labels jumped to) and the variables that the last   *)
(* statement accesses, with the widths; names of temporaries are left out.  *)
(*                                                                         *)
(* Top-level statements other than functions, functions within functions,   *)
(* Error and GPU blocks have no case in genStmt or emitFunctions: nothing   *)
(* is written for them, nor for what they contain.  Risk and Async blocks   *)
(* are written in place, without a trace in the state of the generator.     *)
(* The parser gives a loop no Init and no Step.                             *)
(***************************************************************************)
EXTENDS Syntax

CONSTANT MaxLabels   \* bound: labels of one program

ASSUME LabelsAssumption == MaxLabels \in Nat

VARIABLES
  varTypes,       \* CAIGen.varTypes, NoType for a name that is not in it
  labelIdx,       \* CAIGen.labelIdx
  breakLabel,     \* CAIGen.breakLabel, NoLabel for ""
  continueLabel,  \* CAIGen.continueLabel
  pending,        \* the activations of genFunc, genIf and genLoop, outermost first
  placed,         \* the label lines of the function, counted
  jumped,         \* the labels that the function's jmp and jnz name
  access          \* the statement just written, and the variables whose slots it
                  \* writes or reads, each with the width

genVars == <<varTypes, labelIdx, breakLabel, continueLabel, pending, placed, jumped, access>>

NoType == "no type"
NoLabel == 0
NoAccess == [by |-> "none", uses |-> {}]

Labels == 1 .. MaxLabels

\* Names that begin with Array_.
ArrayTypes == {"Array_int", "Array_float", "Array_bool"}

\* isPtr64, which selects storep and loadp2 instead of store and load.
Width(t) == IF t \in {"String", "ptr", "int64"} THEN 64 ELSE 32

Place(l) == placed' = [placed EXCEPT ![l] = @ + 1]

JumpTo(labels) == jumped' = jumped \union labels

\* The three calls of label() in genIf and genLoop.
NewLabels(n) == labelIdx + n <= MaxLabels /\ labelIdx' = labelIdx + n

Silent == access' = NoAccess

(***************************************************************************)
(* What a statement does with the slot of a variable: it gives it its first *)
(* value, stores to it or loads it, or it reads the address in it to load   *)
(* from there, in a value or in an argument of a call.                      *)
(***************************************************************************)
Sized == {"init", "store", "load"}
Pointed == {"deref", "argument"}
Uses == [op : Sized \union Pointed, name : Names]

Use(op, n) == [op |-> op, name |-> n]

\* genExpr, genExprLoad and genArgs, and loadStrVal for the operand of a condition.
\* Neither an array whose address is taken nor addr{x} reads a slot.
Reads[e \in Exprs] ==
  CASE e.op = "ident" -> {Use("load", e.name)}
    [] e.op = "deref" -> {Use("deref", e.name)}
    [] e.op = "index" -> Reads[e.index]
    [] e.op = "cast"  -> Reads[e.value]
    [] e.op = "arith" -> Reads[e.left] \union Reads[e.right]
    [] e.op = "call"  -> {[u EXCEPT !.op = IF @ = "deref" THEN "argument" ELSE @] :
                            u \in UNION {Reads[a] : a \in e.args}}
    [] OTHER -> {}

\* emitStore and emitLoad choose the width by the type that is noted for the
\* name; the address that a deref follows is read with loadp2, whatever the type.
Access(by, types, uses) ==
  access' = IF uses \intersect Uses = {} THEN NoAccess
            ELSE [by |-> by,
                  uses |-> {[op |-> u.op, name |-> u.name,
                             width |-> IF u.op \in Sized THEN Width(types[u.name]) ELSE 64] :
                              u \in uses \intersect Uses}]

Enter(activation) == pending' = Append(pending, activation)
Top == pending[Len(pending)]
Leave == pending' = SubSeq(pending, 1, Len(pending) - 1)

InitGen ==
  /\ varTypes = [n \in Names |-> NoType]
  /\ labelIdx = 0
  /\ breakLabel = NoLabel
  /\ continueLabel = NoLabel
  /\ pending = <<>>
  /\ placed = [l \in Labels |-> 0]
  /\ jumped = {}
  /\ access = NoAccess

\* genFunc up to the body, which stores the parameters.  The text of a function
\* is complete before the next one, whose labels are looked up on their own
\* (cai_converter.c:811).
GenFunc(params) ==
  /\ pending = <<>>
  /\ Enter([node |-> "Func", saved |-> varTypes])
  /\ varTypes' = [n \in Names |-> IF n \in DOMAIN params THEN params[n] ELSE varTypes[n]]
  /\ placed' = [l \in Labels |-> 0]
  /\ jumped' = {}
  /\ Access("Func", varTypes', {Use("init", n) : n \in DOMAIN params})
  /\ UNCHANGED <<labelIdx, breakLabel, continueLabel>>

\* The parser reads every return as a statement, so that Returns is not set.
GenFuncEnd ==
  /\ pending # <<>> /\ Top.node = "Func"
  /\ Leave
  /\ varTypes' = Top.saved
  /\ Silent
  /\ UNCHANGED <<labelIdx, breakLabel, continueLabel, placed, jumped>>

\* mutant: the type of the first declaration of a name stays.
GenVariableOnce(n, t, e) ==
  /\ varTypes' = [varTypes EXCEPT ![n] = IF @ = NoType THEN t ELSE @]
  /\ IF t \in ArrayTypes THEN Silent
     ELSE Access("Variable", [varTypes' EXCEPT ![n] = t], Reads[e] \union {Use("init", n)})
  /\ UNCHANGED <<labelIdx, breakLabel, continueLabel, pending, placed, jumped>>

\* The VariableNode case: the type is noted, and the value is stored, except
\* for an array, whose value is its size.  A string literal is stored with 64
\* bits whatever the type, but the checker has it in a String only.
\* Definitions of structs, which are variables of the tree too, are left out.
GenVariable(n, t, e) ==
  /\ varTypes' = [varTypes EXCEPT ![n] = t]
  /\ IF t \in ArrayTypes THEN Silent
     ELSE Access("Variable", varTypes', Reads[e] \union {Use("init", n)})
  /\ UNCHANGED <<labelIdx, breakLabel, continueLabel, pending, placed, jumped>>

\* The cases of MutationNode, IncrNode, ArrayStoreNode, ReturnNode and CallNode.
GenAccess(by, uses) ==
  /\ Access(by, varTypes, uses)
  /\ UNCHANGED <<varTypes, labelIdx, breakLabel, continueLabel, pending, placed, jumped>>

\* genIf up to the True body, between the bodies, and after the False body.
GenIf(left, right) ==
  /\ NewLabels(3)
  /\ LET true == labelIdx + 1  false == labelIdx + 2  end == labelIdx + 3
     IN /\ Enter([node |-> "IfTrue", false |-> false, end |-> end])
        /\ JumpTo({true, false})
        /\ Place(true)
  /\ Access("If", varTypes, Reads[left] \union Reads[right])
  /\ UNCHANGED <<varTypes, breakLabel, continueLabel>>

GenElse ==
  /\ pending # <<>> /\ Top.node = "IfTrue"
  /\ JumpTo({Top.end})
  /\ Place(Top.false)
  /\ pending' = [pending EXCEPT ![Len(pending)].node = "IfFalse"]
  /\ Silent
  /\ UNCHANGED <<varTypes, labelIdx, breakLabel, continueLabel>>

GenIfEnd ==
  /\ pending # <<>> /\ Top.node = "IfFalse"
  /\ Place(Top.end)
  /\ Leave
  /\ Silent
  /\ UNCHANGED <<varTypes, labelIdx, breakLabel, continueLabel, jumped>>

\* genLoop up to the body: the loop starts at its first label, where the condition
\* is computed, and its body has a label too; and after the body.
GenLoop(left, right) ==
  /\ NewLabels(3)
  /\ LET start == labelIdx + 1  body == labelIdx + 2  end == labelIdx + 3
     IN /\ Enter([node |-> "Loop", start |-> start, end |-> end,
                  savedBreak |-> breakLabel, savedContinue |-> continueLabel])
        /\ breakLabel' = end
        /\ continueLabel' = start
        /\ placed' = [placed EXCEPT ![start] = @ + 1, ![body] = @ + 1]
        /\ JumpTo({body, end})
  /\ Access("Loop", varTypes, Reads[left] \union Reads[right])
  /\ UNCHANGED varTypes

\* mutant: the label for continue is not put back.
GenLoopEndStale ==
  /\ pending # <<>> /\ Top.node = "Loop"
  /\ JumpTo({Top.start})
  /\ Place(Top.end)
  /\ breakLabel' = Top.savedBreak
  /\ Leave
  /\ Silent
  /\ UNCHANGED <<varTypes, labelIdx, continueLabel>>

GenLoopEnd ==
  /\ pending # <<>> /\ Top.node = "Loop"
  /\ JumpTo({Top.start})
  /\ Place(Top.end)
  /\ breakLabel' = Top.savedBreak
  /\ continueLabel' = Top.savedContinue
  /\ Leave
  /\ Silent
  /\ UNCHANGED <<varTypes, labelIdx>>

\* The cases of BreakNode and ContinueNode; outside of loops nothing is written.
GenBreak ==
  /\ JumpTo({breakLabel} \ {NoLabel})
  /\ Silent
  /\ UNCHANGED <<varTypes, labelIdx, breakLabel, continueLabel, pending, placed>>

GenContinue ==
  /\ JumpTo({continueLabel} \ {NoLabel})
  /\ Silent
  /\ UNCHANGED <<varTypes, labelIdx, breakLabel, continueLabel, pending, placed>>

\* A statement that leaves the state kept here as it is.
GenOther ==
  /\ Silent
  /\ UNCHANGED <<varTypes, labelIdx, breakLabel, continueLabel, pending, placed, jumped>>

Accessing == {"Mutation", "Incr", "ArrayStore", "Return", "Call"}

NextGen ==
  \/ \E params \in Parameters : GenFunc(params)
  \/ /\ pending # <<>>
     /\ \/ \E n \in Names, t \in Types, e \in Exprs : GenVariable(n, t, e)
        \/ \E by \in Accessing, uses \in SUBSET Uses : GenAccess(by, uses)
        \/ \E left, right \in Operands : GenIf(left, right) \/ GenLoop(left, right)
        \/ GenFuncEnd \/ GenElse \/ GenIfEnd \/ GenLoopEnd
        \/ GenBreak \/ GenContinue \/ GenOther

SpecGen == InitGen /\ [][NextGen]_genVars

(***************************************************************************)
(* Properties.                                                             *)
(***************************************************************************)

\* The assembler gets a text it can resolve: no label line is written twice,
\* and once a function is complete, every label that one of its jumps names
\* has a line in it.
JumpsLand ==
  /\ \A l \in Labels : placed[l] <= 1
  /\ pending = <<>> => \A l \in jumped : placed[l] = 1

Loops == {i \in 1 .. Len(pending) : pending[i].node = "Loop"}

\* break and continue go to the innermost loop that is open, and nowhere
\* outside of one: the labels are put back whenever a loop ends, however deep.
InnermostLoop ==
  IF Loops = {} THEN breakLabel = NoLabel /\ continueLabel = NoLabel
  ELSE \E i \in Loops : /\ \A j \in Loops : j <= i
                        /\ breakLabel = pending[i].end
                        /\ continueLabel = pending[i].start

\* The control flow of the text: each jump has one place to go to, and it is the right one.
JumpsAreRight == JumpsLand /\ InnermostLoop

=============================================================================
