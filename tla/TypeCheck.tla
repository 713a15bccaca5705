------------------------------ MODULE TypeCheck ------------------------------
(***************************************************************************)
(* The type checker, typecheck/typecheck.go: checkNode walks the statements *)
(* of the program and keeps the kinds of the variables, one flag for risk   *)
(* blocks and a list of errors, of which only "empty or not" decides        *)
(* whether anything is generated (compiler/frontend.go).                    *)
(*                                                                         *)
(* The recursion is a stack of the statements that are open; the program is *)
(* read one statement at a time, which one is chosen here and is data       *)
(* there.  The lexer has no "?", so that a type is never nullable (TC1001). *)
(* GPU blocks are not looked into (checkNode has no case for them).         *)
(***************************************************************************)
EXTENDS Syntax

CONSTANTS
  Funcs,      \* functions of the program, as phase 1 of Check collects them
  MaxOpen     \* bound: how many statements are open at a time

VARIABLES
  vars,       \* Checker.vars: the kind of every name, Undeclared if not in it
  inRisk,     \* Checker.inRisk
  rejected,   \* len(Checker.errors) > 0
  open,       \* the statements being walked, outermost first
  scopes      \* history, which no code reads: what the program declares in
              \* the top level and in each function that is open, and where
              \* in open that function is

checkVars == <<vars, inRisk, rejected, open, scopes>>

Scalars == {"int", "float", "bool", "String", "Box_int", "Box_float"}
Arrays == {"Array_int", "Array_float", "Array_bool"}

\* A kind is written as the type it comes from; "ptr" is that of addr{x}.
Kinds == Scalars \union Arrays \union {"ptr", "unknown"}

Undeclared == "undeclared"

\* mutant: a type name the checker does not know is its own kind.
KindAsWritten(t) == t

\* typeFromString; a type name the checker does not know is KindUnknown.
KindOf(t) == IF t \in Scalars \union Arrays THEN t ELSE "unknown"

Known(kind) == kind # "unknown"
Clash(k, l) == Known(k) /\ Known(l) /\ k # l    \* not CompatibleWith
Numeric(kind) == kind \in {"int", "float"}

\* resolveIdentType of a name; that of a number is its own kind.
Resolve(n) == IF vars[n] = Undeclared THEN "unknown" ELSE vars[n]

ElementKind(kind) ==
  CASE kind = "Array_float" -> "float"
    [] kind = "Array_bool"  -> "bool"
    [] OTHER                -> "int"

(***************************************************************************)
(* Values.  The result of checking one is its kind and whether it is free   *)
(* of errors.  "big" is an integer literal that does not fit 32 bits.       *)
(***************************************************************************)
Result(kind, ok) == [kind |-> kind, ok |-> ok]

CheckValue[e \in Exprs] ==
  CASE e.op \in {"int", "float", "bool", "String"} -> Result(e.op, TRUE)
    [] e.op = "big"   -> Result("int", FALSE)
    [] e.op = "ident" -> Result(Resolve(e.name), TRUE)
    [] e.op = "addr"  -> Result("ptr", TRUE)
    [] e.op = "deref" -> Result("int", inRisk)
    [] e.op = "call"  -> Result(IF e.function \in Funcs THEN "int" ELSE "unknown", TRUE)
    [] e.op = "index" ->
         IF vars[e.name] = Undeclared THEN Result("unknown", FALSE)
         ELSE Result(ElementKind(vars[e.name]),
                     /\ vars[e.name] \in Arrays
                     /\ CheckValue[e.index].ok
                     /\ CheckValue[e.index].kind \in {"int", "unknown"})
    [] e.op = "cast"  ->
         Result(KindOf(e.type),
                /\ CheckValue[e.value].ok
                /\ CheckValue[e.value].kind \in {"int", "float", "unknown"}
                /\ Numeric(KindOf(e.type)))
    [] e.op = "arith" ->
         Result(KindOf(e.type),
                /\ CheckValue[e.left].ok /\ CheckValue[e.right].ok
                /\ ~Clash(CheckValue[e.left].kind, CheckValue[e.right].kind))

(***************************************************************************)
(* The statements that are open.                                           *)
(***************************************************************************)
Blocks == {"IfTrue", "IfFalse", "Loop", "Mem", "Async", "Error"}

NoNames == [n \in Names |-> Undeclared]

\* saved is savedVars of checkFunc; shares is sharedVars of checkAsync, which
\* collects them from the whole body first, and unseen those still to come.
Block(stmt) == [stmt |-> stmt, saved |-> NoNames, shares |-> {}, unseen |-> {}]

Push(frame) == Len(open) < MaxOpen /\ open' = Append(open, frame)

Inside(stmt) == open # <<>> /\ open[Len(open)].stmt = stmt

Pop(stmt) == Inside(stmt) /\ open' = SubSeq(open, 1, Len(open) - 1)

RejectIf(error) == rejected' = (rejected \/ error)

InitCheck ==
  /\ vars = NoNames
  /\ inRisk = FALSE
  /\ rejected = FALSE
  /\ open = <<>>
  /\ scopes = <<[names |-> NoNames, frame |-> 0]>>

Declare(n, kind) ==
  /\ vars' = [vars EXCEPT ![n] = kind]
  /\ scopes' = [scopes EXCEPT ![Len(scopes)].names[n] = kind]

\* checkVariable; the value of an array declaration is its size.
CheckVariable(n, t, e) ==
  /\ Declare(n, KindOf(t))
  /\ RejectIf(/\ t \notin Arrays
              /\ \/ ~CheckValue[e].ok
                 \/ CheckValue[e].kind \notin {"unknown", KindOf(t)})
  /\ UNCHANGED <<inRisk, open>>

\* checkMutation, after the test of checkAsync for statements directly in its
\* body.  Of the value, only a literal is looked at, and no deref in it.
CheckMutation(n, t, e) ==
  /\ RejectIf(\/ Inside("Async") /\ n \notin open[Len(open)].shares
              \/ vars[n] = Undeclared
              \/ vars[n] # KindOf(t)
              \/ vars[n] = "int" /\ e.op = "big")
  /\ UNCHANGED <<vars, inRisk, open, scopes>>

\* A value on its own: return(e), cast, index, addr or deref as a statement.
CheckExprStatement(e) ==
  /\ RejectIf(~CheckValue[e].ok)
  /\ UNCHANGED <<vars, inRisk, open, scopes>>

\* The case of AwaitNode.
CheckAwait(n) ==
  /\ RejectIf(vars[n] = Undeclared)
  /\ UNCHANGED <<vars, inRisk, open, scopes>>

\* The case of ShareNode; directly in an Async it is one of its shares.
CheckShare(n) ==
  /\ RejectIf(vars[n] = Undeclared)
  /\ IF Inside("Async")
     THEN /\ n \in open[Len(open)].shares
          /\ open' = [open EXCEPT ![Len(open)].unseen = @ \ {n}]
     ELSE UNCHANGED open
  /\ UNCHANGED <<vars, inRisk, scopes>>

\* ++{n}, --{n}, a store to an array and a call, whatever is in their values,
\* Fatal, break and continue.
CheckNothing == UNCHANGED checkVars

\* checkFunc: params is a function from names to types.
FuncBegin(params) ==
  LET Bind(map) == [n \in Names |->
                      IF n \in DOMAIN params THEN KindOf(params[n]) ELSE map[n]]
  IN /\ Push([Block("Func") EXCEPT !.saved = vars])
     /\ vars' = Bind(vars)
     /\ scopes' = Append(scopes, [names |-> Bind(NoNames), frame |-> Len(open) + 1])
     /\ UNCHANGED <<inRisk, rejected>>

\* mutant: the map of before the function is not put back.
FuncEndKeeps ==
  /\ Pop("Func")
  /\ UNCHANGED vars
  /\ scopes' = SubSeq(scopes, 1, Len(scopes) - 1)
  /\ UNCHANGED <<inRisk, rejected>>

FuncEnd ==
  /\ Pop("Func")
  /\ vars' = open[Len(open)].saved
  /\ scopes' = SubSeq(scopes, 1, Len(scopes) - 1)
  /\ UNCHANGED <<inRisk, rejected>>

\* The comparison of checkIf.
IfBegin(left, right) ==
  /\ Push(Block("IfTrue"))
  /\ RejectIf(Clash(CheckValue[left].kind, CheckValue[right].kind))
  /\ UNCHANGED <<vars, inRisk, scopes>>

IfElse ==
  /\ Inside("IfTrue")
  /\ open' = [open EXCEPT ![Len(open)].stmt = "IfFalse"]
  /\ UNCHANGED <<vars, inRisk, rejected, scopes>>

\* checkLoop does not look at the condition; the parser sets no Init.
\* The Error case walks its three bodies as one list.
BlockBegin(stmt) ==
  /\ Push(Block(stmt))
  /\ UNCHANGED <<vars, inRisk, rejected, scopes>>

BlockEnd(stmt) ==
  /\ Pop(stmt)
  /\ UNCHANGED <<vars, inRisk, rejected, scopes>>

AsyncBegin(shares) ==
  /\ Push([Block("Async") EXCEPT !.shares = shares, !.unseen = shares])
  /\ UNCHANGED <<vars, inRisk, rejected, scopes>>

AsyncEnd == open # <<>> /\ open[Len(open)].unseen = {} /\ BlockEnd("Async")

\* checkRawMem.
MemBegin ==
  /\ Push(Block("Mem"))
  /\ inRisk' = TRUE
  /\ UNCHANGED <<vars, rejected, scopes>>

\* mutant: the flag is not cleared.
MemEndKeeps ==
  /\ Pop("Mem")
  /\ UNCHANGED <<vars, inRisk, rejected, scopes>>

MemEnd ==
  /\ Pop("Mem")
  /\ inRisk' = FALSE
  /\ UNCHANGED <<vars, rejected, scopes>>

NextCheck ==
  \/ \E n \in Names, t \in Types, e \in Exprs :
       CheckVariable(n, t, e) \/ CheckMutation(n, t, e)
  \/ \E e \in Exprs : CheckExprStatement(e)
  \/ \E n \in Names : CheckAwait(n) \/ CheckShare(n)
  \/ \E params \in Parameters : FuncBegin(params)
  \/ \E left, right \in Operands : IfBegin(left, right)
  \/ \E stmt \in {"Loop", "Error"} : BlockBegin(stmt) \/ BlockEnd(stmt)
  \/ \E shares \in SUBSET Names : AsyncBegin(shares)
  \/ FuncEnd \/ IfElse \/ BlockEnd("IfFalse") \/ AsyncEnd \/ MemBegin \/ MemEnd

SpecCheck == InitCheck /\ [][NextCheck]_checkVars

(***************************************************************************)
(* Properties.                                                             *)
(***************************************************************************)

\* The shape of the checker's state.
Maps == [Names -> Kinds \union {Undeclared}]
Frames == [stmt : Blocks \union {"Func"}, saved : Maps,
           shares : SUBSET Names, unseen : SUBSET Names]
Scopes == [names : Maps, frame : Nat]

TypeOKCheck ==
  /\ vars \in Maps
  /\ inRisk \in BOOLEAN
  /\ rejected \in BOOLEAN
  /\ open \in Seq(Frames)
  /\ scopes \in Seq(Scopes) /\ scopes # <<>>

\* With the first d of the scopes s, n is of that kind: as its innermost
\* declaration says, or not declared in any of them.
Sees(s, d, n, kind) ==
  \/ /\ kind = Undeclared
     /\ \A i \in 1 .. d : s[i].names[n] = Undeclared
  \/ /\ kind # Undeclared
     /\ \E i \in 1 .. d : /\ s[i].names[n] = kind
                          /\ \A j \in i + 1 .. d : s[j].names[n] = Undeclared

Lexical(s, d, map) == \A n \in Names : Sees(s, d, n, map[n])

\* The one map of the checker, which is copied when a function begins and put
\* back when it ends, holds for every name its innermost declaration in the
\* functions that are open: nothing declared in a function is left behind
\* after it, and nothing around it is lost in it.
ScopesAreFunctions == Lexical(scopes, Len(scopes), vars)

\* The flag is set only while some risk block is open: it never survives the
\* last MemEnd, whatever functions and blocks begin and end in between.
RiskNeedsMem == inRisk => \E i \in 1 .. Len(open) : open[i].stmt = "Mem"

=============================================================================
