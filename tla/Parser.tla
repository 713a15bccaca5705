-------------------------------- MODULE Parser --------------------------------
(***************************************************************************)
(* The parser, parser/parser.go: one parse function for each kind of node.  *)
(* A parse function is a row of calls of advance, expect and other parse    *)
(* functions, in conditions and loops on the type of the current token.     *)
(* Here it is that row, as a value, and what a parser has still to do is a  *)
(* row too: the rest of the function it is in, then the rest of its caller, *)
(* and so on.  The recursion of the code is the growth of that row.         *)
(*                                                                         *)
(* Of the tree, what is kept is the list of its nodes and of the tokens     *)
(* taken into their fields, in the order the parser comes to them, each     *)
(* with the nodes that enclose it.  Of an error, the position is kept.      *)
(***************************************************************************)
EXTENDS Integers, Sequences

(***************************************************************************)
(* The rows are made of these.                                             *)
(***************************************************************************)
Expect(type) == [op |-> "expect", type |-> type]
Expects(types) == [i \in DOMAIN types |-> Expect(types[i])]
Skip == [op |-> "skip"]                      \* advance: the type is known here
Name == [op |-> "name"]                      \* cur().Literal and advance, of any type
Leaf == [op |-> "leaf"]                      \* a LiteralNode of any token
Node(kind) == [op |-> "node", kind |-> kind]
End == [op |-> "end"]                        \* the parse function of a node returns
Statement == [op |-> "statement"]            \* parseStatement
AnyType == {"any"}
When2(types, next, then, else) ==
  [op |-> "when", types |-> types, next |-> next, then |-> then, else |-> else]
When(types, then, else) == When2(types, AnyType, then, else)
Until(types, body) == [op |-> "until", types |-> types, body |-> body]

Comma == When({","}, <<Skip>>, <<>>)
Closers == <<Expect(")"), Expect("}"), Expect("]")>>
Close(n) == SubSeq(Closers, 4 - n, 3)
Numbers == {"INT_LIT", "FLOAT_LIT"}

\* parseBlock.
Block == Until({"]", "}", "EOF"}, <<Statement, Comma>>)

\* parseArg takes a token as it is where parseLiteral knows more expressions.
Operand(else) ==
  When2({"-"}, Numbers, <<Skip, Leaf>>, <<When({"+", "-", "*", "/"}, <<Node("Expr")>>, else)>>)
Argument == Operand(<<Leaf>>)

\* mutant: a value is a literal or an operation.
LiteralPlain == Operand(<<Leaf>>)

Literal ==
  Operand(<<When({"call"}, <<Node("Call")>>,
         <<When({"addr"}, <<Node("Address")>>,
         <<When({"deref"}, <<Node("Deref")>>,
         <<When({"cast"}, <<Node("Cast")>>,
         <<When({"index"}, <<Node("Index")>>, <<Leaf>>)>>)>>)>>)>>)>>)

\* word{name}: the tests of Error and Fatal for type{...} and msg{...}.
Detail(word) == When({word}, <<Skip, Expect("{"), Name, Expect("}")>>, <<>>)
Braced(body) == <<Expect("{")>> \o body \o <<Expect("}")>>

(***************************************************************************)
(* The parse functions.                                                    *)
(***************************************************************************)
parseExplanation ==
  <<Skip, Expect("["), Name, Expect("{"),
    Until({"}", "EOF"},
      <<When({"("}, <<Skip, Until({")", "EOF"}, <<Name, Expect(":"), Name, Comma>>), Expect(")")>>,
                    <<Name>>)>>)>> \o Close(2)

parseArrayStore == <<Skip, Expect("{"), Name, Expect("("), Name, Expect(":"),
                     Literal, Expect(":"), Literal>> \o Close(3)

parseMutation ==
  <<Skip, Expect("["),
    When({"array"}, <<Node("ArrayStore")>>,
         <<When({"IDENT", "variable"}, <<Skip>>, <<>>),
           Expect("{"), Name, Expect("("), Name, Expect(":"), Literal>> \o Close(3))>>

parseStructDef ==
  <<Skip, Expect("{"), Name, Expect(":"),
    Until({"}", "EOF"}, <<Name, Expect("("), Name, Expect(")"), Comma>>)>> \o Close(2)

parseStructInstance ==
  <<Name, Expect("("), Until({")", "EOF"}, <<Name, Expect(":"), Literal, Comma>>), Expect(")")>>

\* A declaration of an array has a type that begins with Array_, and a length.
parseVariable ==
  <<Skip, Expect("["),
    When({"struct"}, <<Node("StructDef")>>,
      <<Name, Expect("{"),
        When({"Array_"}, <<Name, Expect("("), Name, Expect(":"), Leaf>>,
          <<Name, Expect("("), Name, Expect(":"),
            When2({"IDENT"}, {"("}, <<Node("StructInstance")>>, <<Literal>>)>>)>> \o Close(3))>>

parseIf ==
  <<Skip, Expect("["), Expect("check"), Expect("{"), Node("Condition"), Expect("}"), Expect(","),
    Expect("True")>> \o Braced(<<Block>>)
  \o <<Comma, When({"False"}, <<Skip>> \o Braced(<<Block>>), <<>>), Expect("]")>>

parseLoop ==
  <<Skip, Expect("["), Expect("check"), Expect("{"), Node("Condition"), Expect("}"), Expect(","),
    Expect("for")>> \o Braced(<<Block>>) \o <<Expect("]")>>

\* The statements of a function go on where a Block would end, at a "]".
parseFunc ==
  <<Skip, Expect("["), Name, Expect("{"),
    When({"receive"},
         <<Skip, Expect("{"), Until({"}", "EOF"}, <<Name, Expect("("), Name, Expect(")"), Comma>>),
           Expect("}"), Comma>>, <<>>),
    Until({"}", "EOF"}, <<Statement, Comma>>),
    When({"return"}, <<Skip, Expect("{"), When({"}"}, <<>>, <<Literal>>), Expect("}")>>, <<>>)>>
  \o Close(2)

parseError ==
  <<Skip, Expect("["),
    When({"def"}, <<Skip, Expect("{"), Name, Expect("}")>>,
      <<Expect("try")>> \o Braced(<<Block>>) \o
      <<Expect(","), Expect("Ok"), Expect("["), Block, Expect("]"), Expect(","),
        Expect("Err"), Expect("["),
        When({"pass"}, <<Skip>>,
          <<When({"type"}, <<Skip, Expect("{"), Name, Expect("}"), Comma>>, <<>>),
            Detail("msg"), Block>>),
        Expect("]")>>),
    Expect("]")>>

parseFatal ==
  <<Skip, Expect("["), When({"type"}, <<Skip, Expect("{"), Name, Expect("}"), Comma>>, <<>>),
    Detail("msg"), Expect("]")>>

parseImport ==
  <<Skip, Expect("["), Name, Expect("{"), Until({"}", "EOF"}, <<Name, Comma>>)>> \o Close(2)

parseExtern ==
  <<Skip, Expect("["), Name, Expect("{"),
    When({"lib"}, <<Skip, Expect("{"), Until({"}", "EOF"}, <<Name, Comma>>), Expect("}"), Comma>>,
         <<>>)>> \o Close(2)

parseCall ==
  <<Skip, Expect("{"), Name, Expect("("), Until({")", "EOF"}, <<Literal, Comma>>),
    Expect(")"), Expect("}")>>

parseReturn == <<Skip, Expect("("), When({")"}, <<>>, <<Literal>>), Expect(")")>>

parseExpr ==
  <<Skip, Expect("{"), Name, Expect("("), Argument, When({","}, <<Skip, Argument>>, <<>>),
    Expect(")"), Expect("}")>>

parseCondition == <<Name, Expect("("), Name, Expect(":"), Name, Expect(")")>>

\* parseAsync and parseGPU.
parseBracketed == <<Skip, Expect("["), Expect("{"), Block>> \o Close(2)

parseAwait == <<Skip, Expect("["), Name, Expect("]")>>
parseMem == <<Skip, Expect("["), Name, Expect("{"), Block>> \o Close(2)
parseShare == <<Skip, Expect("("), Name, Expect(")")>>

\* parseBreak and parseContinue.
parseJump == <<Skip, Expect("{"), Expect("}")>>

\* parseCast and parseIndex.
parseOfLiteral == <<Skip, Expect("{"), Name, Expect("("), Literal, Expect(")"), Expect("}")>>

\* parseIncr, parseAddress and parseDeref.
parseOfName == <<Skip, Expect("{"), Name, Expect("}")>>

Row(kind) ==
  CASE kind = "Variable" -> parseVariable       [] kind = "StructDef" -> parseStructDef
    [] kind = "StructInstance" -> parseStructInstance
    [] kind = "Mutation" -> parseMutation       [] kind = "ArrayStore" -> parseArrayStore
    [] kind = "If" -> parseIf                   [] kind = "Loop" -> parseLoop
    [] kind \in {"Func", "Func_pub"} -> parseFunc
    [] kind = "Error" -> parseError             [] kind = "Fatal" -> parseFatal
    [] kind = "Import" -> parseImport           [] kind = "Extern" -> parseExtern
    [] kind = "Call" -> parseCall               [] kind = "Return" -> parseReturn
    [] kind \in {"Async", "GPU"} -> parseBracketed
    [] kind = "Share" -> parseShare             [] kind = "Await" -> parseAwait
    [] kind = "Mem" -> parseMem
    [] kind \in {"Break", "Continue"} -> parseJump
    [] kind \in {"Cast", "Index"} -> parseOfLiteral
    [] kind \in {"Incr", "Address", "Deref"} -> parseOfName
    [] kind = "Expr" -> parseExpr               [] kind = "Condition" -> parseCondition
    [] kind = "Explanation" -> parseExplanation

\* The cases of parseStatement, by the type of the current token.
StatementOf ==
  [Variable |-> "Variable", Mutation |-> "Mutation", If |-> "If", return |-> "Return",
   Loop |-> "Loop", Function |-> "Func", Function_public |-> "Func_pub", Error |-> "Error",
   Fatal |-> "Fatal", Import |-> "Import", Extern |-> "Extern", call |-> "Call",
   Async |-> "Async", share |-> "Share", Await |-> "Await", GPU |-> "GPU", Mem |-> "Mem",
   break |-> "Break", continue |-> "Continue", cast |-> "Cast", index |-> "Index",
   addr |-> "Address", deref |-> "Deref"]

(***************************************************************************)
(* A parser: its position, what it has to do, the nodes it is in, the nodes *)
(* and fields it has read, its errors, and where it began (which only the   *)
(* properties read).                                                       *)
(***************************************************************************)
NewParser(from, row) ==
  [pos |-> from, todo |-> row, path |-> <<>>, out |-> <<>>, errs |-> <<>>, from |-> from]

\* Types(ts, p): what the tests of the parser see in a token: its type, and of
\* an identifier the word too.
Types(ts, p) == {ts[p].type, ts[p].word}

\* mutant: advance goes on over the end.
AdvanceOver(ts, p) == p + 1

\* advance stays at the EOF, which is the last token.
Advance(ts, p) == IF p < Len(ts) THEN p + 1 ELSE p

Heads(ts, p, when) ==
  /\ Types(ts, p) \intersect when.types # {}
  /\ \/ when.next = AnyType
     \/ p < Len(ts) /\ Types(ts, p + 1) \intersect when.next # {}

Seen(m, kind) == Append(m.out, [path |-> m.path, kind |-> kind, at |-> m.pos])

Enter(m, kind, rest) ==
  [m EXCEPT !.out = Seen(m, kind), !.path = Append(m.path, kind),
            !.todo = Row(kind) \o <<End>> \o rest]

\* Parser m over the tokens ts makes one step of what it has to do.
Step(m, ts) ==
  LET do == Head(m.todo)
      rest == Tail(m.todo)
      type == ts[m.pos].type
      error == Append(m.errs, m.pos)
      next == Advance(ts, m.pos)
  IN CASE do.op = "expect" ->
            IF type = do.type THEN [m EXCEPT !.pos = next, !.todo = rest]
            ELSE [m EXCEPT !.errs = error, !.todo = rest]
       [] do.op = "skip" -> [m EXCEPT !.pos = next, !.todo = rest]
       [] do.op \in {"name", "leaf"} ->
            [m EXCEPT !.pos = next, !.todo = rest, !.out = Seen(m, do.op)]
       [] do.op = "node" -> Enter(m, do.kind, rest)
       [] do.op = "end" ->
            [m EXCEPT !.path = SubSeq(@, 1, Len(@) - 1), !.todo = rest]
       [] do.op = "when" ->
            [m EXCEPT !.todo = (IF Heads(ts, m.pos, do) THEN do.then ELSE do.else) \o rest]
       [] do.op = "until" ->
            [m EXCEPT !.todo = IF type \in do.types THEN rest ELSE do.body \o m.todo]
       [] OTHER ->                           \* statement
            CASE type \in DOMAIN StatementOf -> Enter(m, StatementOf[type], rest)
              [] type \in {"++", "--"} -> Enter(m, "Incr", rest)
              [] OTHER -> [m EXCEPT !.pos = next, !.errs = error, !.todo = rest]

=============================================================================
