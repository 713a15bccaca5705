------------------------------- MODULE BirParser -------------------------------
(***************************************************************************)
(* cbackend/bir_parser.c: the lines of a .bir file are read into functions, *)
(* and the statements of a function into lists of a fixed size, by a        *)
(* parse_stmts that calls itself for the lists of a Loop and an If.         *)
(*                                                                         *)
(* A line is the row of its words, and has at least one.  Lines longer than *)
(* MAX_LINE, names longer than MAX_NAME and a 257th function are left out.   *)
(***************************************************************************)
EXTENDS Integers, Sequences, FiniteSetsExt, TLC

CONSTANTS
  MaxStmts, MaxArgs, MaxParams, MaxLocals   \* backend.h

ASSUME LimitsAreNumbers ==
  MaxStmts \in Nat /\ MaxArgs \in Nat /\ MaxParams \in Nat /\ MaxLocals \in Nat

VARIABLES
  file,        \* the lines of the .bir file
  ln,          \* the line that next_line will read
  head,        \* bir_parse is in its loop over PARAM, LOCAL and BODY
  lists,       \* the activations of parse_stmts, outermost first
  funcs,       \* BackendProgram.funcs: name and result, parameters, locals
  bodies       \* their statements, each with the lists it is in

readVars == <<file, ln, head, lists, funcs, bodies>>

(***************************************************************************)
(* bir_parser.c: values.  parse_expr reads the words of a line from i on;   *)
(* what it builds is given as the words that say the same.                  *)
(***************************************************************************)
\* mutant: the size that a DEREF begins with is forgotten.
ArityBare ==
  [k \in {"LIT_INT", "LIT_FLOAT", "LIT_STR", "IDENT", "EXPR", "CALL", "CAST", "ARRLOAD", "ADDR",
          "DEREF"} |->
     CASE k \in {"LIT_INT", "LIT_FLOAT", "LIT_STR", "ADDR", "DEREF"} -> [fields |-> 1, inner |-> 0]
       [] k = "IDENT" -> [fields |-> 3, inner |-> 0]
       [] k = "EXPR" -> [fields |-> 3, inner |-> 2]
       [] k = "CALL" -> [fields |-> 4, inner |-> 0]
       [] k = "CAST" -> [fields |-> 2, inner |-> 1]
       [] k = "ARRLOAD" -> [fields |-> 3, inner |-> 1]]

\* How many words a kind of value has behind it, and values behind those.
Arity ==
  [k \in {"LIT_INT", "LIT_FLOAT", "LIT_STR", "IDENT", "EXPR", "CALL", "CAST", "ARRLOAD", "ADDR",
          "DEREF"} |->
     CASE k \in {"LIT_INT", "LIT_FLOAT", "LIT_STR", "ADDR"} -> [fields |-> 1, inner |-> 0]
       [] k = "IDENT" -> [fields |-> 3, inner |-> 0]
       [] k = "DEREF" -> [fields |-> 2, inner |-> 0]
       [] k = "EXPR" -> [fields |-> 3, inner |-> 2]
       [] k = "CALL" -> [fields |-> 4, inner |-> 0]
       [] k = "CAST" -> [fields |-> 2, inner |-> 1]
       [] k = "ARRLOAD" -> [fields |-> 3, inner |-> 1]]

\* atoi of a word; a word that is no number is 0.
Atoi(w) == IF \E n \in 0 .. 9 : ToString(n) = w THEN CHOOSE n \in 0 .. 9 : ToString(n) = w ELSE 0

\* How many arguments the loop of CALL reads.
ArgsRead(line, i) == IF Atoi(line[i]) < MaxArgs THEN Atoi(line[i]) ELSE MaxArgs

\* Where the value at i ends, and its words; a word that is no kind is a zero.
parse_expr(line) ==
  LET read[i \in 1 .. Len(line) + 1] ==
        LET known == i <= Len(line) /\ line[i] \in DOMAIN Arity
            past == Min({i + 1 + Arity[line[i]].fields, Len(line) + 1})
            inner == IF line[i] # "CALL" THEN Arity[line[i]].inner
                     ELSE IF i + 4 <= Len(line) THEN ArgsRead(line, i + 4) ELSE 0
            Rest[k \in 0 .. inner] ==
              IF k = 0 THEN [next |-> past, words |-> SubSeq(line, i, past - 1)]
              ELSE LET before == Rest[k - 1]
                       it == read[before.next]
                   IN [next |-> it.next, words |-> before.words \o it.words]
        IN CASE i > Len(line) -> [next |-> i, words |-> <<>>]
             [] i <= Len(line) /\ ~known -> [next |-> i + 1, words |-> <<"LIT_INT", "0">>]
             [] known -> Rest[inner]
  IN read

\* The statement of a line: so many words, and the values behind them.
HeaderLength ==
  [STORE |-> 4, INCR |-> 5, RET |-> 3, RET_VOID |-> 1, ARRSTORE |-> 4, BREAK |-> 1, CONTINUE |-> 1]

StatementOf(line, path) ==
  LET n == HeaderLength[line[1]]
      first == parse_expr(line)[n + 1]
      second == parse_expr(line)[first.next]
  IN [path |-> path, stmt |-> SubSeq(line, 1, n),
      value |-> CASE line[1] \in {"STORE", "RET"} -> first.words
                  [] line[1] = "ARRSTORE" -> first.words \o second.words
                  [] OTHER -> <<>>]

(***************************************************************************)
(* Lines.                                                                  *)
(***************************************************************************)
InitReader(lines) ==
  /\ file = lines
  /\ ln = 1 /\ head = FALSE /\ lists = <<>> /\ funcs = <<>> /\ bodies = <<>>

\* The words of a line from the m-th to the n-th, or to its end.
Fields(line, m, n) == SubSeq(line, m, IF n < Len(line) THEN n ELSE Len(line))
Line == file[ln]
More == ln <= Len(file)
Cur == Len(funcs)

\* mutant: the limit of an array is not looked at.
UptoAny(limit, row, x) == Append(row, x)
Upto(limit, row, x) == IF Len(row) < limit THEN Append(row, x) ELSE row

\* The loop over functions, which skips what is not the beginning of one: the
\* header too.
ReadFunc ==
  /\ More /\ lists = <<>> /\ ~head
  /\ ln' = ln + 1
  /\ IF Line[1] = "FUNC"
     THEN /\ funcs' = Append(funcs, [decl |-> Fields(Line, 2, 5), params |-> <<>>, locals |-> <<>>])
          /\ bodies' = Append(bodies, <<>>)
          /\ head' = TRUE
     ELSE UNCHANGED <<funcs, bodies, head>>
  /\ UNCHANGED <<file, lists>>

\* A call of parse_stmts: its terminator, the list it fills and the count.
Terms == {"ENDFUNC", "ENDLOOP", "IFFALSE", "ENDIF"}
Inner == {"LOOPBODY", "IFTRUE", "IFFALSE"}
List(term, path) == [term |-> term, path |-> path, n |-> 0]

ReadParam ==
  /\ More /\ head /\ Line[1] = "PARAM"
  /\ funcs' = [funcs EXCEPT ![Cur].params = Upto(MaxParams, @, Fields(Line, 2, 4))]
  /\ ln' = ln + 1
  /\ UNCHANGED <<file, head, lists, bodies>>

ReadLocal ==
  /\ More /\ head /\ Line[1] = "LOCAL"
  /\ funcs' = [funcs EXCEPT ![Cur].locals = Upto(MaxLocals, @, Fields(Line, 2, 4))]
  /\ ln' = ln + 1
  /\ UNCHANGED <<file, head, lists, bodies>>

ReadBody ==
  /\ More /\ head /\ Line[1] = "BODY"
  /\ head' = FALSE
  /\ lists' = <<List("ENDFUNC", <<>>)>>
  /\ ln' = ln + 1
  /\ UNCHANGED <<file, funcs, bodies>>

Top == lists[Len(lists)]
Pop == SubSeq(lists, 1, Len(lists) - 1)
Counted == [lists EXCEPT ![Len(lists)].n = @ + 1]
Reading == More /\ lists # <<>> /\ Top.n < MaxStmts /\ Line[1] # Top.term
Put(s) == bodies' = [bodies EXCEPT ![Cur] = Append(@, s)]

\* mutant: the false list of an If is read as a part of the list it is in.
ReturnOnce == lists' = Pop

\* parse_stmts returns; behind the true list of an If its false list is read.
Return ==
  lists' = IF Top.term = "IFFALSE"
           THEN Append(Pop, List("ENDIF", Append(SubSeq(Top.path, 1, Len(Top.path) - 1), "IFFALSE")))
           ELSE Pop

ReadTerm ==
  /\ More /\ lists # <<>> /\ Top.n < MaxStmts /\ Line[1] = Top.term
  /\ Return
  /\ ln' = ln + 1
  /\ UNCHANGED <<file, head, funcs, bodies>>

\* mutant: a list that is full is only left at the end of the file.
LeaveAtEnd ==
  /\ lists # <<>> /\ ~More
  /\ Return
  /\ UNCHANGED <<file, ln, head, funcs, bodies>>

\* A list that is full, or a file at its end: the line is left for the caller.
LeaveFull ==
  /\ lists # <<>> /\ (Top.n = MaxStmts \/ ~More)
  /\ Return
  /\ UNCHANGED <<file, ln, head, funcs, bodies>>

ReadStmt ==
  /\ Reading /\ Line[1] \in DOMAIN HeaderLength
  /\ Put(StatementOf(Line, Top.path))
  /\ lists' = Counted
  /\ ln' = ln + 1
  /\ UNCHANGED <<file, head, funcs>>

\* The two lines behind LOOP and IF are read, whatever they are: the condition,
\* and the line that opens a list.  parse_cond takes seven words.
IsLine(l, kw) == l <= Len(file) /\ file[l][1] = kw
Condition == IF IsLine(ln + 1, "COND") THEN Fields(file[ln + 1], 1, 8) ELSE <<>>
ReadHeads(n) ==
  /\ Put([path |-> Top.path, stmt |-> Fields(Line, 1, n) \o Condition, value |-> <<>>])
  /\ ln' = (IF ln + 3 <= Len(file) THEN ln + 3 ELSE Len(file) + 1)

ReadLoop ==
  /\ Reading /\ Line[1] = "LOOP"
  /\ ReadHeads(2)
  /\ lists' = IF IsLine(ln + 2, "LOOPBODY")
              THEN Append(Counted, List("ENDLOOP", Append(Top.path, "LOOPBODY"))) ELSE Counted
  /\ UNCHANGED <<file, head, funcs>>

ReadIf ==
  /\ Reading /\ Line[1] = "IF"
  /\ ReadHeads(1)
  /\ lists' = Append(Counted, IF IsLine(ln + 2, "IFTRUE")
                              THEN List("IFFALSE", Append(Top.path, "IFTRUE"))
                              ELSE List("ENDIF", Append(Top.path, "IFFALSE")))
  /\ UNCHANGED <<file, head, funcs>>

\* A keyword that is none of these is passed over: the terminator of a list
\* that has been left.
ReadOther ==
  /\ \/ Reading /\ Line[1] \notin DOMAIN HeaderLength \union {"LOOP", "IF"}
     \/ More /\ head /\ Line[1] \notin {"PARAM", "LOCAL", "BODY"}
  /\ ln' = ln + 1
  /\ UNCHANGED <<file, head, lists, funcs, bodies>>

NextReader ==
  \/ ReadFunc \/ ReadParam \/ ReadLocal \/ ReadBody
  \/ ReadTerm \/ LeaveFull \/ ReadStmt \/ ReadLoop \/ ReadIf \/ ReadOther

\* The reader by itself, on any file.
InitAnyFile == \E lines \in Seq(Seq(STRING)) : InitReader(lines)
SpecReader == InitAnyFile /\ [][NextReader]_readVars

\* The shape of the reader's state, for any file: no array of a list or a
\* function is filled over its end, and there is a list to fill only in the
\* body of a function.
TypeOKReader ==
  /\ ln \in Nat \ {0} /\ head \in BOOLEAN
  /\ lists \in Seq([term : Terms, path : Seq(Inner), n : 0 .. MaxStmts])
  /\ \A i \in DOMAIN funcs : /\ Len(funcs[i].params) <= MaxParams
                             /\ Len(funcs[i].locals) <= MaxLocals
  /\ head \/ lists # <<>> => funcs # <<>>
  /\ head => lists = <<>>

=============================================================================
