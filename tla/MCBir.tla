--------------------------------- MODULE MCBir ---------------------------------
(***************************************************************************)
(* Programs for Bir: one or two functions, of bodies that go through every  *)
(* kind of statement, of value and of list, and through lists that are      *)
(* longer than there is room for.                                          *)
(***************************************************************************)
EXTENDS Bir

MCElement == "Array_int" :> "int"

(***************************************************************************)
(* Values.                                                                 *)
(***************************************************************************)
V(op, n, t, a) == [op |-> op, n |-> n, t |-> t, length |-> 0, words |-> <<>>, a |-> a]
None == V("none", "", "", <<>>)
Num == V("int", "", "", <<>>)
Length(l) == [V("int", "", "", <<>>) EXCEPT !.length = l]
Str(words) == [V("string", "", "", <<>>) EXCEPT !.words = words]
Text == Str(<<"\"x\"">>)
Blank == Str(<<"\"x", "x\"">>)
Id(n) == V("ident", n, "", <<>>)
Op(t, l, r) == V("expr", "", t, <<l, r>>)
CallOf(n, args) == V("call", n, "", args)
Cast(t, v) == V("cast", "", t, <<v>>)
At(n, v) == V("index", n, "", <<v>>)
Addr(n) == V("addr", n, "", <<>>)
Deref(n) == V("deref", n, "", <<>>)

Simple == {Num, Text, Blank, Id("i"), Id("s"), Addr("i"), Deref("s"), CallOf("g", <<>>)}
Deeper ==
  Simple
    \union {Op("int", v, Id("i")) : v \in Simple} \union {Op("String", Num, v) : v \in Simple}
    \union {CallOf("g", <<v>>) : v \in Simple} \union {Cast("int64", v) : v \in Simple}
    \union {At("a", v) : v \in Simple}
Nested ==
  {Op("int", Op("String", Deref("s"), Num), Id("s")), Op("int", CallOf("g", <<Id("s"), Num>>), Id("i")),
   CallOf("h", <<At("a", Deref("i"))>>), Cast("int", Cast("String", Deref("s"))),
   Op("int64", CallOf("f", <<Op("int", Blank, Num)>>), At("a", Num))}
(***************************************************************************)
(* Bodies.                                                                 *)
(***************************************************************************)
St(k, n, t, v) == <<[k |-> k, n |-> n, t |-> t, v |-> v, w |-> None, c |-> [l |-> None, r |-> None]]>>
Only(k) == St(k, "", "", None)
Var(t, n, v) == St("Variable", n, t, v)
Mut(n, v) == St("Mutation", n, "", v)
Incr(n) == St("Incr", n, "", None)
Ret(v) == St("Return", "", "", v)
Store(n, i, v) == <<[St("ArrayStore", n, "int", v)[1] EXCEPT !.w = i]>>
Operand(n) == [n |-> n, words |-> <<n>>]
Cond(l, r) == [l |-> l, r |-> r]
Small == Cond(Operand("i"), Operand("7"))
Open(k, c) == <<[Only(k)[1] EXCEPT !.c = c]>>
Loop(c, ts) == Open("Loop", c) \o ts \o Only("End")
IfElse(c, ts, us) == Open("If", c) \o ts \o Only("Else") \o us \o Only("End")
Within1(k, ts) == Only(k) \o ts \o Only("End")

IntVar == Var("int", "i", Num)
StringVar == Var("String", "s", Text)
ArrayVar == Var("Array_int", "a", Length(3))
Leaves == {<<>>, IntVar, StringVar, Incr("i"), Ret(Id("s")), Only("Break")}
Pairs == {a \o b : a \in Leaves, b \in {<<>>, Incr("s"), Mut("i", Id("s"))}}

ListsOf(b) ==
  {Loop(Small, b), IfElse(Small, b, <<>>), IfElse(Small, <<>>, b), Within1("Mem", b),
   Within1("Async", b), Within1("Error", b)}
Full == Incr("i") \o Incr("i") \o Incr("i")
Over == Full \o Incr("s")
Lists == UNION {ListsOf(b) : b \in Pairs \union {Full, Over}}
Nests ==
  {IfElse(Small, Loop(Small, b) \o Incr("i"), Within1("Mem", b)) : b \in Pairs}
    \union {Loop(Small, IfElse(Small, b, Only("Continue")) \o Incr("s")) : b \in Pairs}
    \union {Within1("Mem", Loop(Cond(Operand("s"), Operand("s")), b)) \o Only("Call") : b \in Pairs}
    \union {Loop(Small, Loop(Cond([n |-> "x x", words |-> <<"x", "x">>], Operand("i")), b)) : b \in Pairs}
    \union {IfElse(Cond(Operand("i"), [n |-> "x x", words |-> <<"x", "x">>]), b, b) : b \in Pairs}
    \union {Ret(None) \o b \o Ret(Id("i")) : b \in Pairs}

(***************************************************************************)
(* Programs.                                                               *)
(***************************************************************************)
Function(name, params, body) == [name |-> name, params |-> params, body |-> body]
P(t, n) == [t |-> t, n |-> n]
OfI == <<P("int", "i")>>
OfBoth == <<P("String", "s"), P("int", "i")>>
Tiny(name) == Function(name, <<>>, Ret(Num))

\* The shapes of lists, with something in front and behind: there is room for two
\* statements and the end of the list, so that one behind a Loop or an If still
\* is in a list that is read whole, and three or four fill it.
Shapes ==
  {<<Function("f", OfI, front \o b \o back), Tiny("g")>> :
     b \in Lists \union Nests, front \in {<<>>, StringVar}, back \in {<<>>, Ret(Id("i"))}}
  \union {<<Function("f", OfI, a \o b)>> : a, b \in Lists}

\* Every value in every place of a statement.
Valued ==
  {<<Function("f", params, s)>> \o gs :
     params \in {OfI, OfBoth}, gs \in {<<>>, <<Tiny("g")>>, <<Function("g", OfBoth, Ret(Id("s")))>>},
     s \in UNION {{Var("int", "x", v), Mut("s", v), Ret(v), Store("a", v, Num),
                   ArrayVar \o Ret(v)} : v \in Deeper \union Nested}}
  \union {<<Function("f", OfI, Store("a", v, v) \o ArrayVar)>> : v \in Simple \union Nested}

\* Results: a function that returns what another one returns, before or behind it.
Results ==
  {<<Function("f", <<>>, a), Function("g", OfBoth, b)>> :
     a \in {Ret(CallOf("g", <<>>)), Ret(CallOf("f", <<>>)) , Ret(Text), Ret(None)},
     b \in UNION {{Ret(v), IfElse(Small, Ret(v), <<>>), Loop(Small, Ret(None)) \o Ret(v),
                   Within1("Mem", Ret(v)), IfElse(Small, StringVar \o Ret(v), <<>>)}
                  : v \in {CallOf("f", <<>>), CallOf("g", <<>>), Id("s"), Id("i"), None}}}
  \union {<<Function("f", OfI, IfElse(Small, Var("String", "x", Text) \o Ret(Id("x")), <<>>))>>}
  \union {<<Function("f", OfI, IfElse(Small, <<>>, Var("int64", "s", Num)) \o Ret(v))>> : v \in {Id("s"), Id("i")}}

MCPrograms == Shapes \union Valued \union Results
=============================================================================
