--------------------------------- MODULE Bir ---------------------------------
(***************************************************************************)
(* BIR, the text between the Go half of the compiler and the C backend: a   *)
(* program is written by Serialize and read by bir_parse, and what is read  *)
(* is compared with what the Go half has built.                            *)
(***************************************************************************)
EXTENDS Serial, BirParser

CONSTANTS
  Programs     \* rows of functions: name, params, body

VARIABLES
  prog         \* the tree

birVars == <<prog, readVars>>

InitBir == prog \in Programs /\ InitReader(<<>>)

\* pipeline.go writes the file, then starts the backend.
WriteFile ==
  /\ file = <<>>
  /\ file' = Serialize(prog)
  /\ UNCHANGED <<prog, ln, head, lists, funcs, bodies>>

Read == NextReader /\ UNCHANGED prog

NextBir == WriteFile \/ Read

\* The reader goes on as long as there is something to read.
SpecBir == InitBir /\ [][NextBir]_birVars /\ WF_birVars(Read)

(***************************************************************************)
(* Properties.                                                             *)
(***************************************************************************)
Done == file # <<>> /\ ~More /\ lists = <<>>

\* Whatever the lists of one function lose, the next one begins where it was
\* written to begin: the reader finds the functions of the program, with their
\* results, parameters and local variables up to the limits, in their order.
FunctionsApart ==
  Done => /\ Len(funcs) = Len(prog)
          /\ \A i \in DOMAIN prog :
               LET f == BuildBackendFunc(prog, i)
               IN /\ funcs[i].decl = f.decl
                  /\ funcs[i].params = SubSeq(f.params, 1, Min({MaxParams, Len(f.params)}))
                  /\ funcs[i].locals = SubSeq(f.locals, 1, Min({MaxLocals, Len(f.locals)}))

NoMem(path) == SelectSeq(path, LAMBDA k : k # "Mem")
Flat(stmts) == SelectSeq(stmts, LAMBDA s : s.stmt[1] \notin {"RAWMEM", "CALL"})

\* In each list of the function, a Mem counting for what is in it, there are
\* fewer statements than a list has room for, so that its end is read.
Fits(stmts) ==
  \A i \in DOMAIN stmts :
    LET path == NoMem(stmts[i].path)
        SameList(j) == /\ NoMem(stmts[j].path) = path
                       /\ \A m \in j .. i : Len(NoMem(stmts[m].path)) >= Len(path)
    IN Cardinality({j \in 1 .. i : SameList(j)}) < MaxStmts

\* strtok finds a string that has a blank in it, or none, as another number of
\* words than one.
OneWord(s) ==
  s.k \in {"Loop", "If"} => Len(s.c.l.words) = 1 /\ Len(s.c.r.words) = 1

\* A function none of whose lists is full is read as the Go half has built it,
\* statement by statement, each in the list it was in, whatever the other
\* functions have lost; but not a condition that compares with such a string.
ReadInPlace ==
  Done => \A i \in DOMAIN prog :
    LET built == Flat(BuildBackendFunc(prog, i).stmts)
    IN Fits(built) =>
         /\ Len(bodies[i]) = Len(built)
         /\ \A j \in DOMAIN built :
              /\ bodies[i][j].path = NoMem(built[j].path)
              /\ OneWord(prog[i].body[built[j].at]) => bodies[i][j].stmt = built[j].stmt

\* A value without such a string, and without a call that has more arguments
\* than there is room for.
RECURSIVE Plain(_)
Plain(v) == /\ v.op = "string" => Len(v.words) = 1
            /\ v.op = "call" => Len(v.a) <= MaxArgs
            /\ \A i \in DOMAIN v.a : Plain(v.a[i])

\* The values of such a function are read as the Go half has written them: the
\* words of a value say where it ends, whatever is in it.
ValuesRead ==
  Done => \A i \in DOMAIN prog :
    LET built == Flat(BuildBackendFunc(prog, i).stmts)
    IN Fits(built) =>
         \A j \in DOMAIN built :
           LET s == prog[i].body[built[j].at]
           IN HasValue(s) /\ Plain(s.v) /\ (s.k = "ArrayStore" => Plain(s.w))
                => bodies[i][j].value = ValueWords(prog, prog[i], built[j].at)

\* The accesses to variables in a statement as it is read: name, size, kind.
\* The operands of a condition are behind COND and its comparison.
UsesOf(s) ==
  LET n == IF s.stmt[1] = "LOOP" THEN 5 ELSE 4
  IN CASE s.stmt[1] \in {"LOOP", "IF"} -> {SubSeq(s.stmt, n, n + 2), SubSeq(s.stmt, n + 3, n + 5)}
       [] s.stmt[1] \in {"STORE", "INCR"} -> {SubSeq(s.stmt, 2, 4)}
       [] OTHER -> {}
UsesIn(value) ==
  {SubSeq(value, k + 1, k + 3) : k \in {m \in 1 .. Len(value) - 3 : value[m] = "IDENT"}}
Uses(s) == UsesOf(s) \union UsesIn(s.value)

\* How often a function declares a name, wherever it does.
DeclaredTimes(f, n) ==
  Cardinality(Param(f, n)) + Cardinality({p \in Declarations(f) : f.body[p].n = n})
Collected(f) ==
  {f.params[j].n : j \in DOMAIN f.params}
    \union {f.body[p].n : p \in {q \in Declarations(f) : Within(f.body, q, Walked)}}
Slots(i) == ToSet(funcs[i].params) \union ToSet(funcs[i].locals)

\* The width of an access comes from the walk of annotateFunc, that of the slot
\* from collectLocalVars before it: for a name that is declared once, outside of
\* Mem, Async and Error, the backend has a slot, and each access to it has the
\* size and the kind of the slot.
SlotsMatchUses ==
  Done => \A i \in DOMAIN prog :
    LET f == prog[i]
    IN Len(f.params) <= MaxParams /\ Len(collectLocalVars(f)) <= MaxLocals =>
         \A s \in ToSet(bodies[i]) : \A use \in Uses(s) :
           use[1] \in Collected(f) /\ DeclaredTimes(f, use[1]) = 1 => use \in Slots(i)

\* Values whose size pass 1 does not find out: calls of a function that comes
\* later, or of itself, elements of arrays, and names declared more than once.
Settled(i, v) ==
  LET f == prog[i]
  IN CASE v.op = "call" -> \A j \in DOMAIN prog : prog[j].name = v.n => j < i
       [] v.op = "ident" -> DeclaredTimes(f, v.n) = 1 /\ v.n \in Collected(f)
                            /\ \A p \in Declarations(f) : f.body[p].n = v.n => f.body[p].t \notin DOMAIN Element
       [] OTHER -> v.op # "index"

\* What callers take for the result of a function is found out in a pass of its
\* own, with other maps of names, before the statements are annotated: a
\* function with one return is declared with the width that it returns.
ResultWidths ==
  Done => \A i \in DOMAIN prog :
    LET f == prog[i]
        returns == {p \in DOMAIN f.body : f.body[p].k = "Return"}
    IN \A p \in returns :
         returns = {p} /\ Within(f.body, p, Walked) /\ Settled(i, f.body[p].v)
           => \A s \in ToSet(bodies[i]) :
                s.stmt[1] = "RET" => SubSeq(funcs[i].decl, 3, 4) = SubSeq(s.stmt, 2, 3)

\* Once a file is written the reader comes to its end, full lists or not.
BirIsRead == file # <<>> ~> Done

=============================================================================
