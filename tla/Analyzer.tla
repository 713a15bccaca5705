------------------------------- MODULE Analyzer -------------------------------
(***************************************************************************)
(* The analyzer, analyzer/analyzer.go, which gives every node of the tree   *)
(* the size and the kind of what it names (its Ann), before the tree is     *)
(* written for the C backend.                                              *)
(*                                                                         *)
(* The body of a function is the row of its statements in the order of the  *)
(* text: a Loop, If, Mem, Async or Error opens a list that an End closes,   *)
(* and an If has an Else.  A walk of the code over the tree is then a        *)
(* question about positions.  IsFloat is left out: nothing that follows      *)
(* reads it.  Functions within functions and the top level are left out.     *)
(***************************************************************************)
EXTENDS Integers, Sequences, FiniteSets, SequencesExt

CONSTANTS
  Element      \* the types that begin with Array_, and the rest of their names

TypeSize(size, ptr) == [size |-> size, ptr |-> ptr]
Unset == TypeSize(0, FALSE)      \* TypeSize{}: void, and a name that is not in vars
Word == TypeSize(4, FALSE)
Pointer == TypeSize(8, TRUE)

\* SizeOfType: the size of an array is here that of an element.
ScalarSize(t) == IF t \in {"String", "ptr", "int64"} THEN Pointer ELSE Word
SizeOfType(t) ==
  IF t \in DOMAIN Element THEN TypeSize(ScalarSize(Element[t]).size, FALSE) ELSE ScalarSize(t)

(***************************************************************************)
(* Lists of statements.                                                    *)
(***************************************************************************)
Openers == {"Loop", "If", "Else", "Mem", "Async", "Error"}
Closers == {"Else", "End"}

\* The heads of the lists that position p is in; the list of an If ends at its
\* Else, which is the head of the other one.  An End is in the list it closes.
Heads(body, p) ==
  LET open[q \in 1 .. Len(body)] ==
        IF q = 1 THEN {}
        ELSE LET around == open[q - 1]
                 rest == IF body[q - 1].k \in Closers THEN around \ {Max(around)} ELSE around
             IN IF body[q - 1].k \in Openers THEN rest \union {q - 1} ELSE rest
  IN open[p]

Within(body, p, kinds) == \A h \in Heads(body, p) : body[h].k \in kinds
Walked == {"If", "Else", "Loop"}   \* what collectLocalVars, collectVarScope and
                                   \* findFirstReturn look into

(***************************************************************************)
(* Variables.                                                              *)
(***************************************************************************)
\* The Ann of a VariableNode, in annotateVariable and collectLocalVars: an
\* array has the size of all its elements, and of one when its length is 0.
Declared(s) ==
  IF s.t \notin DOMAIN Element \/ s.v.length = 0 THEN SizeOfType(s.t)
  ELSE TypeSize(SizeOfType(s.t).size * s.v.length, FALSE)

Declarations(f) == {p \in DOMAIN f.body : f.body[p].k = "Variable"}

\* mutant: only what the function declares outside of blocks.
collectFlatVars(f) ==
  SelectSeq([p \in DOMAIN f.body |-> p],
            LAMBDA p : p \in Declarations(f) /\ Heads(f.body, p) = {})

\* FuncNode.LocalVars, as positions.
collectLocalVars(f) ==
  SelectSeq([p \in DOMAIN f.body |-> p],
            LAMBDA p : p \in Declarations(f) /\ Within(f.body, p, Walked))

Param(f, n) == {i \in DOMAIN f.params : f.params[i].n = n}

\* a.vars[n] when the walk of annotateFunc is at p: the last declaration up to
\* there, or else the last that collectLocalVars has put in beforehand, or else
\* a parameter.
Vars(f, p, n) ==
  LET before == {q \in Declarations(f) : q <= p /\ f.body[q].n = n}
      local == {q \in ToSet(collectLocalVars(f)) : f.body[q].n = n}
  IN CASE before # {} -> Declared(f.body[Max(before)])
       [] before = {} /\ local # {} -> Declared(f.body[Max(local)])
       [] before = {} /\ local = {} /\ Param(f, n) # {} ->
            SizeOfType(f.params[Max(Param(f, n))].t)
       [] OTHER -> Unset

\* mutant: the names that the body declares are not collected in pass 1.
Pass1Params(f, n) ==
  IF Param(f, n) # {} THEN SizeOfType(f.params[Max(Param(f, n))].t) ELSE Unset

\* a.vars[n] in pass1CollectFuncs: collectVarScope has no case for the length.
Pass1Vars(f, n) ==
  LET local == {q \in ToSet(collectLocalVars(f)) : f.body[q].n = n}
  IN CASE local # {} -> SizeOfType(f.body[Max(local)].t)
       [] local = {} /\ Param(f, n) # {} -> SizeOfType(f.params[Max(Param(f, n))].t)
       [] OTHER -> Unset

Or4(ann) == IF ann = Unset THEN Word ELSE ann

(***************************************************************************)
(* Values.  resolveNodeType, with what the pass it is called in has for the *)
(* variable and the function of the name in it; a function that is not       *)
(* there counts 4 bytes.                                                   *)
(***************************************************************************)
Resolve(v, var, func) ==
  CASE v.op \in {"int", "deref", "addr"} -> Word
    [] v.op = "string" -> Pointer
    [] v.op = "ident" -> Or4(var)
    [] v.op \in {"expr", "cast"} -> SizeOfType(v.t)
    [] v.op = "call" -> func
    [] v.op = "index" -> Or4(var)

\* a.funcs[n] of the functions before the i-th, once pass 1 has come to it.
\* findFirstReturn takes the first return that has a size, and in every list
\* nothing behind a return.
Reached(f, r) ==
  \A q \in 1 .. r - 1 :
    f.body[q].k = "Return" => ~(Heads(f.body, q) \subseteq Heads(f.body, r))

pass1CollectFuncs(prog) ==
  LET Named(i, n) == {j \in 1 .. i - 1 : prog[j].name = n}
      ret[i \in DOMAIN prog] ==
        LET f == prog[i]
            Size(r) == IF f.body[r].v.op = "none" THEN Unset
                       ELSE LET v == f.body[r].v
                            IN Resolve(v, Pass1Vars(f, v.n),
                                 IF Named(i, v.n) = {} THEN Word ELSE ret[Max(Named(i, v.n))])
            returns == {r \in DOMAIN f.body :
                          /\ f.body[r].k = "Return" /\ Within(f.body, r, Walked)
                          /\ Reached(f, r)}
            sized == {r \in returns : Size(r).size > 0}
        IN IF sized = {} THEN Unset ELSE Size(Min(sized))
  IN ret

\* a.funcs[n] in pass 2: of two functions with one name the later.
FuncAnn(prog, ret, n) ==
  LET named == {j \in DOMAIN prog : prog[j].name = n}
  IN IF named = {} THEN Unset ELSE ret[Max(named)]

=============================================================================
