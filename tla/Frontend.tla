------------------------------- MODULE Frontend -------------------------------
(***************************************************************************)
(* The type checker and the CAI generator over one program.  In the code    *)
(* the second walk starts after the first has ended without an error        *)
(* (compiler/frontend.go, compiler/pipeline.go); neither changes the tree   *)
(* or looks ahead, so that both can be followed statement by statement.  As *)
(* soon as the checker has rejected the program, the generator is back in   *)
(* its initial state: it is not going to be called.                         *)
(***************************************************************************)
EXTENDS TypeCheck, Caigen

VARIABLE
  dropped     \* history: names that the function declares, last, in a body
              \* that the checker walks and the generator does not

frontVars == <<checkVars, genVars, dropped>>

\* The statements genStmt comes to: it does so from emitFunctions and from the
\* bodies it has a case for.
Generated ==
  /\ open # <<>> /\ open[1].stmt = "Func"
  /\ \A i \in 2 .. Len(open) : open[i].stmt \notin {"Func", "Error"}

\* In a body of an Error, and not in a function of its own there.
InErrorBody ==
  /\ open # <<>> /\ open[1].stmt = "Func"
  /\ \A i \in 2 .. Len(open) : open[i].stmt # "Func"
  /\ \E i \in 2 .. Len(open) : open[i].stmt = "Error"

NotCalled ==
  /\ varTypes' = [n \in Names |-> NoType]
  /\ labelIdx' = 0
  /\ breakLabel' = NoLabel /\ continueLabel' = NoLabel
  /\ pending' = <<>>
  /\ placed' = [l \in Labels |-> 0] /\ jumped' = {}
  /\ access' = NoAccess

Gen(A) ==
  \/ rejected' /\ NotCalled
  \/ ~rejected' /\ Generated /\ A
  \/ ~rejected' /\ ~Generated /\ GenOther

Same == dropped' = IF rejected' THEN {} ELSE dropped

Variable(n, t, e) ==
  /\ CheckVariable(n, t, e)
  /\ Gen(GenVariable(n, t, e))
  /\ dropped' = CASE rejected'  -> {}
                  [] ~rejected' /\ Generated   -> dropped \ {n}
                  [] ~rejected' /\ InErrorBody -> dropped \union {n}
                  [] OTHER -> dropped

Mutation(n, t, e) ==
  /\ CheckMutation(n, t, e)
  /\ Gen(GenAccess("Mutation", Reads[e] \union {Use("store", n)}))
  /\ Same

Incr(n) ==
  /\ CheckNothing
  /\ Gen(GenAccess("Incr", {Use("load", n), Use("store", n)}))
  /\ Same

\* Mutation[array{..}]: the checker looks at neither of the values.
ArrayStore(index, value) ==
  /\ CheckNothing
  /\ Gen(GenAccess("ArrayStore", Reads[index] \union Reads[value]))
  /\ Same

Return(e) == CheckExprStatement(e) /\ Gen(GenAccess("Return", Reads[e])) /\ Same

\* cast, index, addr or deref as a statement: it is checked, and genStmt has no
\* case for it.
ExprStatement(e) ==
  /\ e.op \in {"cast", "index", "addr", "deref"}
  /\ CheckExprStatement(e)
  /\ Gen(GenOther)
  /\ Same

Call(e) ==
  /\ e.op = "call"
  /\ CheckNothing
  /\ Gen(GenAccess("Call", Reads[e]))
  /\ Same

Other == CheckNothing /\ Gen(GenOther) /\ Same

Await(n) == CheckAwait(n) /\ Gen(GenOther) /\ Same
Share(n) == CheckShare(n) /\ Gen(GenOther) /\ Same

\* emitFunctions takes the functions of the top level.
Func(params) ==
  /\ FuncBegin(params)
  /\ \/ rejected /\ NotCalled /\ dropped' = {}
     \/ ~rejected /\ open = <<>> /\ GenFunc(params) /\ dropped' = {}
     \/ ~rejected /\ open # <<>> /\ GenOther /\ UNCHANGED dropped

EndFunc == FuncEnd /\ Gen(GenFuncEnd) /\ Same

If(left, right) == IfBegin(left, right) /\ Gen(GenIf(left, right)) /\ Same
Else == IfElse /\ Gen(GenElse) /\ Same
EndIf == BlockEnd("IfFalse") /\ Gen(GenIfEnd) /\ Same

Loop(left, right) == BlockBegin("Loop") /\ Gen(GenLoop(left, right)) /\ Same
EndLoop == BlockEnd("Loop") /\ Gen(GenLoopEnd) /\ Same
Break == CheckNothing /\ Gen(GenBreak) /\ Same
Continue == CheckNothing /\ Gen(GenContinue) /\ Same

Mem == MemBegin /\ Gen(GenOther) /\ Same
EndMem == MemEnd /\ Gen(GenOther) /\ Same
Async(shares) == AsyncBegin(shares) /\ Gen(GenOther) /\ Same
EndAsync == AsyncEnd /\ Gen(GenOther) /\ Same
Error == BlockBegin("Error") /\ Gen(GenOther) /\ Same
EndError == BlockEnd("Error") /\ Gen(GenOther) /\ Same

InitFront == InitCheck /\ InitGen /\ dropped = {}

NextFront ==
  \/ \E n \in Names, t \in Types, e \in Exprs : Variable(n, t, e) \/ Mutation(n, t, e)
  \/ \E n \in Names : Incr(n) \/ Await(n) \/ Share(n)
  \/ \E e \in Exprs : Return(e) \/ ExprStatement(e) \/ Call(e)
  \/ \E index, value \in Exprs : ArrayStore(index, value)
  \/ \E params \in Parameters : Func(params)
  \/ \E left, right \in Operands : If(left, right) \/ Loop(left, right)
  \/ \E shares \in SUBSET Names : Async(shares)
  \/ EndFunc \/ Else \/ EndIf \/ EndLoop \/ Break \/ Continue
  \/ Mem \/ EndMem \/ EndAsync \/ Error \/ EndError \/ Other

SpecFront == InitFront /\ [][NextFront]_frontVars

(***************************************************************************)
(* Properties.                                                             *)
(***************************************************************************)

WidthOfKind(kind) == IF kind = "String" THEN 64 ELSE 32

\* The two walks keep their own maps of types, in which names come and go by
\* different rules.  Still, the text initialises, stores to and loads a variable, in
\* statements, values, arguments and conditions, with the width of the type the checker
\* compared its uses with, where the text declares it: in the function, and not in an
\* Error body since.  It is not so with the address that deref{x} follows, which is read
\* with 64 bits (caigen.go:669) of a variable that the checker may have as an int.
AccessWidths ==
  \A u \in access.uses :
    /\ u.op \in Sized
    /\ varTypes[u.name] # NoType
    /\ u.name \notin dropped
    /\ Known(vars[u.name])
    => u.width = WidthOfKind(vars[u.name])

InMem == \E i \in 1 .. Len(open) : open[i].stmt = "Mem"

\* A dereference in the value of a declaration or of a return gets into the text only
\* when a risk block is open around the statement (TC3002), however the flag was set and
\* cleared by the blocks and the functions before it.  The checker looks neither into the
\* value of a mutation or of a store to an array nor into an argument (typecheck.go:162,
\* :312, :394): those get into the text anywhere.
CheckedDerefInMem ==
  (\E u \in access.uses : u.op = "deref") /\ access.by \in {"Variable", "Return"} => InMem

=============================================================================
