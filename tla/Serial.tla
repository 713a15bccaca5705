-------------------------------- MODULE Serial --------------------------------
(***************************************************************************)
(* What the Go half of the compiler makes of the annotated tree:            *)
(* backend/serial.go writes it in lines of words for the C backend, and     *)
(* backend/backend_func.go builds what the C backend is to have.            *)
(*                                                                         *)
(* A line is the row of its words, as strtok will find them: a string with  *)
(* a blank in it is written as one and read as two.  Of the operators, the  *)
(* comparisons and the signs of Incr one stands for all.                    *)
(***************************************************************************)
EXTENDS Analyzer

(***************************************************************************)
(* serial.go.                                                              *)
(***************************************************************************)
Number(i) == ToString(i)
Ann(a) == <<Number(a.size), IF a.ptr THEN "1" ELSE "0">>

FuncsOf(p) == pass1CollectFuncs(p)

\* ReturnNode.Ann: the last functions of pass 1 are known by now.
ReturnAnn(p, f, at) ==
  LET v == f.body[at].v
  IN Resolve(v, Vars(f, at, v.n),
       IF \E j \in DOMAIN p : p[j].name = v.n THEN FuncAnn(p, FuncsOf(p), v.n) ELSE Word)

\* CallNode.ReturnAnn: of a function that is not there, 8 bytes.
CallAnn(p, n) ==
  IF \E j \in DOMAIN p : p[j].name = n THEN FuncAnn(p, FuncsOf(p), n) ELSE TypeSize(8, FALSE)

\* serializeExpr and serializeLiteral of a value in the statement at a position
\* of f, in a place for so many bytes.
RECURSIVE serializeExpr(_, _, _, _, _)
serializeExpr(p, f, at, v, hint) ==
  LET W(u, bytes) == serializeExpr(p, f, at, u, bytes)
  IN CASE v.op = "none" -> <<"LIT_INT", "0">>
       [] v.op = "int" -> <<"LIT_INT", "7">>
       [] v.op = "string" -> <<"LIT_STR">> \o v.words
       [] v.op = "ident" -> <<"IDENT", v.n>> \o Ann(Or4(Vars(f, at, v.n)))
       [] v.op = "expr" ->
            LET size == SizeOfType(v.t)
            IN <<"EXPR", "+">> \o Ann(size) \o W(v.a[1], size.size) \o W(v.a[2], size.size)
       [] v.op = "call" ->
            <<"CALL", v.n>> \o Ann(CallAnn(p, v.n)) \o <<Number(Len(v.a))>>
            \o FlattenSeq([i \in DOMAIN v.a |-> W(v.a[i], 4)])
       [] v.op = "cast" ->
            <<"CAST">> \o Ann(SizeOfType(v.t)) \o W(v.a[1], SizeOfType(v.t).size)
       [] v.op = "index" -> <<"ARRLOAD", v.n>> \o Ann(Vars(f, at, v.n)) \o W(v.a[1], 4)
       [] v.op = "addr" -> <<"ADDR", v.n>>
       [] v.op = "deref" -> <<"DEREF", Number(hint), v.n>>

\* An operand of a condition: resolveIdentOrLiteral, and its words.
OperandAnn(f, at, o) == Or4(Vars(f, at, o.n))

serializeCond(f, at) ==
  LET c == f.body[at].c
  IN <<"COND", "less">> \o c.l.words \o Ann(OperandAnn(f, at, c.l))
     \o c.r.words \o Ann(OperandAnn(f, at, c.r))

LoopDepth(f, at) == Cardinality({h \in Heads(f.body, at) : f.body[h].k = "Loop"})

\* The words of a statement before its value.
Header(p, f, at) ==
  LET s == f.body[at]
      ann == Vars(f, at, s.n)
  IN CASE s.k \in {"Variable", "Mutation"} -> <<"STORE", s.n>> \o Ann(ann)
       [] s.k = "Incr" -> <<"INCR", s.n>> \o Ann(ann) \o <<"INC">>
       [] s.k = "Loop" -> <<"LOOP", Number(LoopDepth(f, at))>>
       [] s.k = "If" -> <<"IF">>
       [] s.k = "Return" -> IF s.v.op = "none" THEN <<"RET_VOID">>
                            ELSE <<"RET">> \o Ann(ReturnAnn(p, f, at))
       [] s.k = "ArrayStore" -> <<"ARRSTORE", s.n>> \o Ann(SizeOfType(s.t))
       [] s.k = "Break" -> <<"BREAK">>
       [] s.k = "Continue" -> <<"CONTINUE">>

\* How many bytes the value is for.
Hint(p, f, at) ==
  LET s == f.body[at]
  IN CASE s.k \in {"Variable", "Mutation"} -> Vars(f, at, s.n).size
       [] s.k = "ArrayStore" -> SizeOfType(s.t).size
       [] OTHER -> ReturnAnn(p, f, at).size

HasValue(s) == s.k \in {"Variable", "Mutation", "ArrayStore"} \/ (s.k = "Return" /\ s.v.op # "none")

ValueWords(p, f, at) ==
  LET s == f.body[at]
      W(v, hint) == serializeExpr(p, f, at, v, hint)
  IN IF ~HasValue(s) THEN <<>>
     ELSE (IF s.k = "ArrayStore" THEN W(s.w, 4) ELSE <<>>) \o W(s.v, Hint(p, f, at))

HeadOf(f, at) == f.body[Max(Heads(f.body, at))].k

\* mutant: an If without an else list has no line for it.
MarksTerse(f, at) ==
  IF f.body[at].k = "Else" THEN IF f.body[at + 1].k = "End" THEN <<>> ELSE <<<<"IFFALSE">>>>
  ELSE CASE HeadOf(f, at) = "Mem" -> <<>>
         [] HeadOf(f, at) = "Loop" -> <<<<"ENDLOOP">>>>
         [] OTHER -> <<<<"ENDIF">>>>

\* The line behind a list.
Marks(f, at) ==
  IF f.body[at].k = "Else" THEN <<<<"IFFALSE">>>>
  ELSE CASE HeadOf(f, at) = "Mem" -> <<>>
         [] HeadOf(f, at) = "Loop" -> <<<<"ENDLOOP">>>>
         [] OTHER -> <<<<"ENDIF">>>>

\* serializeStmt, position by position: a Mem is no line, the statements in it
\* are; nothing is written for Async, Error, what is in them, or a Call.
serializeStmt(p, f, at) ==
  LET s == f.body[at]
  IN CASE ~Within(f.body, at, {"Loop", "If", "Else", "Mem"}) -> <<>>
       [] s.k \in {"Mem", "Async", "Error", "Call"} -> <<>>
       [] s.k = "Loop" -> <<Header(p, f, at), serializeCond(f, at), <<"LOOPBODY">>>>
       [] s.k = "If" -> <<Header(p, f, at), serializeCond(f, at), <<"IFTRUE">>>>
       [] s.k \in {"Else", "End"} -> Marks(f, at)
       [] OTHER -> <<Header(p, f, at) \o ValueWords(p, f, at)>>

Local(f, at) == <<f.body[at].n>> \o Ann(Declared(f.body[at]))
FuncLine(p, i) ==
  <<p[i].name, "0">> \o Ann(FuncAnn(p, FuncsOf(p), p[i].name))

serializeFunc(p, i) ==
  LET f == p[i]
      locals == collectLocalVars(f)
  IN <<<<"FUNC">> \o FuncLine(p, i)>>
     \o [j \in DOMAIN f.params |-> <<"PARAM", f.params[j].n>> \o Ann(SizeOfType(f.params[j].t))]
     \o [j \in DOMAIN locals |-> <<"LOCAL">> \o Local(f, locals[j])]
     \o <<<<"BODY">>>> \o FlattenSeq([at \in DOMAIN f.body |-> serializeStmt(p, f, at)])
     \o <<<<"ENDFUNC">>>>

Serialize(p) == <<<<"BIR", "1">>>> \o FlattenSeq([i \in DOMAIN p |-> serializeFunc(p, i)])

(***************************************************************************)
(* backend_func.go: the statements of a function as the C backend is to     *)
(* have them.  The path of a statement is made of the lists it is in.        *)
(***************************************************************************)
ListName(k) ==
  CASE k = "Loop" -> "LOOPBODY" [] k = "If" -> "IFTRUE" [] k = "Else" -> "IFFALSE" [] OTHER -> k
Path(f, at) ==
  LET heads == SetToSortSeq(Heads(f.body, at), <)
  IN [i \in DOMAIN heads |-> ListName(f.body[heads[i]].k)]

\* buildStmts, buildStmt and buildCond; values are kept as text for display, which
\* is left out.
Built(f) ==
  SelectSeq([at \in DOMAIN f.body |-> at],
            LAMBDA at : /\ f.body[at].k \notin {"Async", "Error", "Else", "End"}
                        /\ Within(f.body, at, {"Loop", "If", "Else", "Mem"}))

buildStmt(p, f, at) ==
  [path |-> Path(f, at), at |-> at,
   stmt |-> CASE f.body[at].k = "Mem" -> <<"RAWMEM">>
              [] f.body[at].k = "Call" -> <<"CALL">>
              [] f.body[at].k \in {"Loop", "If"} -> Header(p, f, at) \o serializeCond(f, at)
              [] OTHER -> Header(p, f, at)]

BuildBackendFunc(p, i) ==
  LET f == p[i]
      locals == collectLocalVars(f)
      built == Built(f)
  IN [decl |-> FuncLine(p, i),
      params |-> [j \in DOMAIN f.params |-> <<f.params[j].n>> \o Ann(SizeOfType(f.params[j].t))],
      locals |-> [j \in DOMAIN locals |-> Local(f, locals[j])],
      stmts |-> [j \in DOMAIN built |-> buildStmt(p, f, built[j])]]

=============================================================================
