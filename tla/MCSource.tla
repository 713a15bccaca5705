------------------------------- MODULE MCSource -------------------------------
(***************************************************************************)
(* Programs for Source: trees, written down in the form that the parser     *)
(* reads, and the same texts with one character replaced or left out, or    *)
(* broken off.                                                             *)
(*                                                                         *)
(* For most constructs this is the form of docs/Language.md.  It is not for *)
(* an instance of a struct and for the members of an Extern, whose          *)
(* documented forms are texts of their own here; comments of parser.go also *)
(* have return{x}, le(hp,0) and True[..] where it reads return(x), le(hp:0) *)
(* and True{..}.                                                           *)
(***************************************************************************)
EXTENDS Source, SequencesExt

CONSTANTS Damage    \* characters that stand in for one of the text

MCDamage == {"(", "}", "\""}

(***************************************************************************)
(* How tokens are spelled.  The word of a keyword is cut down to two        *)
(* letters, the first of which stands for the keyword.                      *)
(***************************************************************************)
KeywordTypes == DOMAIN StatementOf \union
  {"variable", "Explanation", "let", "for", "check", "True", "False", "receive", "try", "Ok",
   "Err", "pass", "def", "lib", "struct", "array"}

MCLetters == KeywordTypes \union {"x", "t", "A", "_"}
MCKeywords == [w \in {<<k, "_">> : k \in KeywordTypes} |-> w[1]]
MCSpecial == <<"t", "_">> :> "type" @@ <<"t", "t">> :> "msg" @@ <<"A", "_">> :> "Array_"

Spell(type) ==
  CASE type \in KeywordTypes -> <<type, "_">>
    [] type = "IDENT" -> <<"x">>              [] type = "type" -> <<"t", "_">>
    [] type = "msg" -> <<"t", "t">>           [] type = "Array_" -> <<"A", "_">>
    [] type = "INT_LIT" -> <<"7">>            [] type = "FLOAT_LIT" -> <<"7", ".">>
    [] type = "STRING_LIT" -> <<"\"", "x", "\"">>
    [] type = "++" -> <<"+", "+">>            [] type = "--" -> <<"-", "-">>
    [] type = "," -> <<",", "\n">>            [] OTHER -> <<type>>

(***************************************************************************)
(* A tree is its kind and its parts in the order they are written: tokens,  *)
(* tokens that are kept in a field, and trees.                              *)
(***************************************************************************)
Tree(kind, parts) == [kind |-> kind, parts |-> parts]
Tok(type) == Tree("token", type)
Toks(types) == [i \in DOMAIN types |-> Tok(types[i])]
Nm(type) == Tree("name", type)
Lf(type) == Tree("leaf", type)
IsToken(t) == t.kind \in {"token", "name", "leaf"}
Id == Nm("IDENT")
X == Lf("IDENT")
Num == Lf("INT_LIT")

RECURSIVE TextOf(_)
TextOf(t) == IF IsToken(t) THEN Spell(t.parts)
             ELSE FlattenSeq([i \in DOMAIN t.parts |-> TextOf(t.parts[i])])

RECURSIVE NodesOf(_, _)
NodesOf(t, path) ==
  IF t.kind = "token" THEN <<>>
  ELSE <<[path |-> path, kind |-> t.kind]>>
       \o (IF IsToken(t) THEN <<>>
           ELSE FlattenSeq([i \in DOMAIN t.parts |-> NodesOf(t.parts[i], Append(path, t.kind))]))

\* Statements, with commas between them.
Stmts(ts) == FlattenSeq([i \in DOMAIN ts |-> IF i = 1 THEN <<ts[i]>> ELSE <<Tok(","), ts[i]>>])

OfName(kind, type) == Tree(kind, <<Tok(type), Tok("{"), Id, Tok("}")>>)
Jump(kind, type) == Tree(kind, Toks(<<type, "{", "}">>))
OfLiteral(kind, type, v) ==
  Tree(kind, <<Tok(type), Tok("{"), Id, Tok("("), v, Tok(")"), Tok("}")>>)
Calling(args) ==
  Tree("Call", <<Tok("call"), Tok("{"), Id, Tok("(")>> \o Stmts(args) \o Toks(<<")", "}">>))
Op(type, l, r) ==
  Tree("Expr", <<Tok(type), Tok("{"), Id, Tok("("), l, Tok(","), r, Tok(")"), Tok("}")>>)
Negative == <<Tok("-"), Num>>
Var(v) ==
  Tree("Variable", <<Tok("Variable"), Tok("["), Nm("let"), Tok("{"), Id, Tok("("), Id, Tok(":")>>
                   \o v \o Toks(<<")", "}", "]">>))
Mut(v) ==
  Tree("Mutation", Toks(<<"Mutation", "[", "variable", "{">>) \o <<Id, Tok("("), Id, Tok(":")>>
                   \o v \o Toks(<<")", "}", "]">>))
Store(i, v) ==
  Tree("Mutation", <<Tok("Mutation"), Tok("["),
    Tree("ArrayStore", Toks(<<"array", "{">>) \o <<Id, Tok("("), Id, Tok(":"), i, Tok(":"), v>>
                       \o Toks(<<")", "}", "]">>))>>)
Array ==
  Tree("Variable", <<Tok("Variable"), Tok("["), Nm("let"), Tok("{"), Nm("Array_"), Tok("("), Id,
                     Tok(":"), Num>> \o Toks(<<")", "}", "]">>))
Struct ==
  Tree("Variable", <<Tok("Variable"), Tok("["),
    Tree("StructDef", Toks(<<"struct", "{">>) \o <<Id, Tok(":"), Id, Tok("("), Id, Tok(")"), Tok(","),
                      Id, Tok("("), Id, Tok(")")>> \o Toks(<<"}", "]">>))>>)
\* As parser.go:319-326 reads it; what the documentation has is DocumentedStruct.
NewStruct ==
  Var(<<Tree("StructInstance", <<Id, Tok("("), Id, Tok(":"), Num, Tok(")")>>)>>)
Check ==
  Toks(<<"check", "{">>)
  \o <<Tree("Condition", <<Id, Tok("("), Id, Tok(":"), Nm("INT_LIT"), Tok(")")>>), Tok("}"), Tok(",")>>
Body(word, ts) == Toks(<<word, "{">>) \o Stmts(ts) \o <<Tok("}")>>
Loop(ts) == Tree("Loop", Toks(<<"Loop", "[">>) \o Check \o Body("for", ts) \o <<Tok("]")>>)
IfElse(ts, us) ==
  Tree("If", Toks(<<"If", "[">>) \o Check \o Body("True", ts)
             \o (IF us = <<>> THEN <<>> ELSE <<Tok(",")>> \o Body("False", us)) \o <<Tok("]")>>)
Func(ts) ==
  Tree("Func", <<Tok("Function"), Tok("["), Id, Tok("{")>> \o Toks(<<"receive", "{">>)
    \o <<Id, Tok("("), Id, Tok(")"), Tok("}"), Tok(",")>> \o Stmts(ts) \o Toks(<<"}", "]">>))
Returns(v) == Tree("Return", Toks(<<"return", "(">>) \o v \o <<Tok(")")>>)
Mem(ts) == Tree("Mem", <<Tok("Mem"), Tok("["), Id, Tok("{")>> \o Stmts(ts) \o Toks(<<"}", "]">>))
Async(ts) == Tree("Async", Toks(<<"Async", "[", "{">>) \o Stmts(ts) \o Toks(<<"}", "]">>))
Share == Tree("Share", <<Tok("share"), Tok("("), Id, Tok(")")>>)
Await == Tree("Await", <<Tok("Await"), Tok("["), Id, Tok("]")>>)
Import == Tree("Import", <<Tok("Import"), Tok("["), Id, Tok("{"), Id, Tok(","), Id>> \o Toks(<<"}", "]">>))
\* Without members, as parser.go:647-665 reads it; with one it is DocumentedExtern.
Extern ==
  Tree("Extern", <<Tok("Extern"), Tok("["), Id, Tok("{")>> \o Toks(<<"lib", "{">>)
                 \o <<Nm("STRING_LIT")>> \o Toks(<<"}", "}", "]">>))
ErrType == Toks(<<"type", "{">>) \o <<Id, Tok("}")>>
Msg == Toks(<<"msg", "{">>) \o <<Nm("STRING_LIT"), Tok("}")>>
Fatal == Tree("Fatal", Toks(<<"Fatal", "[">>) \o ErrType \o <<Tok(",")>> \o Msg \o <<Tok("]")>>)
Errors(ts, us, ws) ==
  Tree("Error", Toks(<<"Error", "[", "try", "{">>) \o Stmts(ts) \o Toks(<<"}", ",", "Ok", "[">>)
    \o Stmts(us) \o Toks(<<"]", ",", "Err", "[">>) \o ws \o Toks(<<"]", "]">>))
Define == Tree("Error", Toks(<<"Error", "[", "def", "{">>) \o <<Id>> \o Toks(<<"}", "]">>))

\* Each program is the list of its items.
Programs ==
  {<<Func(<<Var(<<Op("+", X, Num)>>), Loop(<<OfName("Incr", "++"), Jump("Break", "break")>>),
            Returns(<<X>>)>>)>>,
   <<Define, IfElse(<<Mut(Negative)>>, <<Jump("Continue", "continue")>>), Import>>,
   <<Struct, NewStruct, Array>>,
   <<Mem(<<Var(<<OfName("Deref", "deref")>>)>>), Async(<<Share, Store(X, Num)>>), Await>>,
   <<Errors(<<Calling(<<X, Num>>)>>, <<Returns(<<>>)>>, ErrType \o <<Tok(",")>> \o Msg), Fatal>>,
   <<Extern, Errors(<<>>, <<>>, <<Tok("pass")>>)>>,
   <<Var(<<OfLiteral("Cast", "cast", OfLiteral("Index", "index", OfName("Address", "addr")))>>),
     Mut(<<Op("*", Op("-", X, X), Lf("FLOAT_LIT"))>>)>>,
   <<IfElse(<<IfElse(<<>>, <<>>)>>, <<>>), OfName("Incr", "--")>>}

Preamble ==
  <<"#", "x", "\n">> \o FlattenSeq([i \in 1 .. 3 |-> Spell(<<"Explanation", "[", "IDENT">>[i])])
  \o <<"{", "x", "(", "x", ":", "x", ")", "}", "]", " ", "/", "/", "x", "\n">>

ProgramText(p, preamble) ==
  (IF preamble THEN Preamble ELSE <<>>)
  \o FlattenSeq([i \in DOMAIN p |-> TextOf(p[i]) \o (IF i = 1 THEN <<" ">> ELSE <<"\n">>)])

ProgramNodes(p) == [i \in DOMAIN p |-> NodesOf(p[i], <<>>)]

\* What is written, and what it is to be read as.
Written ==
  [text \in {ProgramText(p, b) : p \in Programs, b \in BOOLEAN} |->
     ProgramNodes(CHOOSE p \in Programs : \E b \in BOOLEAN : text = ProgramText(p, b))]

Damaged(text) ==
  {ReplaceAt(text, i, c) : i \in DOMAIN text, c \in Damage}
  \union {RemoveAt(text, i) : i \in DOMAIN text}
  \union {SubSeq(text, 1, n) : n \in 0 .. Len(text) - 1}

\* Two constructs in the form that the documentation has.  The parser reports three errors
\* in the first (parser.go:319-322) and two in the second (:664-665): they are not among
\* what Written is read as, and the other properties hold for them too.

\* Variable[let{user:User(name:"John", age:25)}]: parser.go:279, docs/Language.md:143
\* and examples/struct.iia:12.
DocumentedStruct ==
  Tree("Variable", <<Tok("Variable"), Tok("["), Nm("let"), Tok("{"), Id, Tok(":"),
    Tree("StructInstance", <<Id, Tok("("), Id, Tok(":"), Lf("STRING_LIT"), Tok(","),
                             Id, Tok(":"), Num, Tok(")")>>)>> \o Toks(<<"}", "]">>))

\* Extern[C{lib{"SDL2"}, draw{receive{int(x)}, return{}}}]: docs/Language.md:179.
DocumentedExtern ==
  Tree("Extern", <<Tok("Extern"), Tok("["), Id, Tok("{")>> \o Toks(<<"lib", "{">>)
    \o <<Nm("STRING_LIT"), Tok("}"), Tok(",")>>
    \o <<Tree("Func", <<Id, Tok("{")>> \o Toks(<<"receive", "{">>)
         \o <<Id, Tok("("), Id, Tok(")"), Tok("}"), Tok(",")>>
         \o Toks(<<"return", "{", "}", "}">>))>> \o Toks(<<"}", "]">>))

MCTexts ==
  DOMAIN Written \union UNION {Damaged(ProgramText(p, FALSE)) : p \in Programs}
  \union {ProgramText(<<t>>, b) : t \in {DocumentedStruct, DocumentedExtern}, b \in BOOLEAN}

Unplaced(nodes) == [k \in DOMAIN nodes |-> [path |-> nodes[k].path, kind |-> nodes[k].kind]]

\* A program in the form that the grammar of the parser has is read without an
\* error, as the tree that it was written from: the lexer, the cut into items, the
\* merge and the parser of every construct agree on every token of it.
WrittenIsRead ==
  Done /\ input \in DOMAIN Written =>
    /\ lexErrors = <<>> /\ errors = <<>>
    /\ [i \in DOMAIN results |-> Unplaced(results[i])] = Written[input]

=============================================================================
