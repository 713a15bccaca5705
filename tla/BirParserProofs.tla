---------------------------- MODULE BirParserProofs ----------------------------
(***************************************************************************)
(* The .bir parser on every file and with every limit.                     *)
(***************************************************************************)
EXTENDS BirParser, SequenceTheorems, TLAPS

ListRec == [term : Terms, path : Seq(Inner), n : 0 .. MaxStmts]
FuncRec == [decl : Seq(STRING), params : Seq(Seq(STRING)), locals : Seq(Seq(STRING))]

\* The inductive invariant: TypeOKReader, and of what the elements are.
ListsFit == lists \in Seq(ListRec)
FuncsAre == funcs \in Seq(FuncRec)
FuncsFit == \A i \in DOMAIN funcs : /\ Len(funcs[i].params) <= MaxParams
                                    /\ Len(funcs[i].locals) <= MaxLocals
InFunction == head \/ lists # <<>> => funcs # <<>>
HeadFirst == head => lists = <<>>

ReaderInv ==
  /\ file \in Seq(Seq(STRING))
  /\ ln \in Nat \ {0} /\ head \in BOOLEAN
  /\ ListsFit /\ FuncsAre /\ FuncsFit /\ InFunction /\ HeadFirst

\* Two shapes of a step on lists: a list is left for its caller, or is left and
\* another one of the same If opened.
LEMMA PopFits ==
  ASSUME NEW S, NEW s \in Seq(S), s # <<>>
  PROVE  /\ SubSeq(s, 1, Len(s) - 1) \in Seq(S)
         /\ s[Len(s)] \in S
<1>1. Len(s) \in Nat /\ Len(s) # 0
  BY EmptySeq, LenProperties
<1>2. s[Len(s)] \in S
  BY <1>1, ElementOfSeq
<1>3. \A i \in 1 .. Len(s) - 1 : s[i] \in S
  BY <1>1, ElementOfSeq
<1>4. SubSeq(s, 1, Len(s) - 1) \in Seq(S)
  BY <1>1, <1>3, SubSeqProperties
<1> QED
  BY <1>2, <1>4

\* The words of a line from the m-th on are words.
LEMMA FieldsAreWords ==
  ASSUME NEW line \in Seq(STRING), NEW m \in Nat \ {0}, NEW n \in Nat
  PROVE  Fields(line, m, n) \in Seq(STRING)
<1> DEFINE e == IF n < Len(line) THEN n ELSE Len(line)
<1>1. Len(line) \in Nat /\ e \in Nat /\ e <= Len(line)
  BY LenProperties
<1>2. \A i \in m .. e : line[i] \in STRING
  BY <1>1, ElementOfSeq
<1>3. SubSeq(line, m, e) \in Seq(STRING)
  BY <1>1, <1>2
<1> QED
  BY <1>3 DEF Fields

\* An array with a limit does not grow past it.
LEMMA UptoFits ==
  ASSUME NEW S, NEW row \in Seq(S), NEW x \in S, NEW limit \in Nat, Len(row) <= limit
  PROVE  /\ Upto(limit, row, x) \in Seq(S)
         /\ Len(Upto(limit, row, x)) <= limit
<1>1. CASE Len(row) < limit
  <2>1. Append(row, x) \in Seq(S) /\ Len(Append(row, x)) = Len(row) + 1
    BY AppendProperties
  <2>2. Len(row) + 1 <= limit
    BY <1>1, LenProperties
  <2> QED
    BY <1>1, <2>1, <2>2 DEF Upto
<1>2. CASE ~(Len(row) < limit)
  BY <1>2 DEF Upto
<1> QED
  BY <1>1, <1>2

\* A list begins empty.
LEMMA NewListFits ==
  ASSUME NEW term \in Terms, NEW path \in Seq(Inner)
  PROVE  List(term, path) \in ListRec
BY LimitsAreNumbers DEF List, ListRec

\* parse_stmts returns: the lists that are left fit.
LEMMA ReturnFits ==
  ASSUME ListsFit, lists # <<>>, Return
  PROVE  ListsFit'
<1>1. Pop \in Seq(ListRec) /\ Top \in ListRec
  BY PopFits DEF ListsFit, Pop, Top
<1>2. CASE Top.term = "IFFALSE"
  <2> DEFINE outer == SubSeq(Top.path, 1, Len(Top.path) - 1)
  <2> DEFINE up == Append(outer, "IFFALSE")
  <2>1. Top.path \in Seq(Inner)
    BY <1>1 DEF ListRec
  <2>2. outer \in Seq(Inner)
    <3>1. CASE Top.path = <<>>
      BY <3>1, <2>1, SubSeqEmpty
    <3>2. CASE Top.path # <<>>
      BY <3>2, <2>1, PopFits
    <3> QED
      BY <3>1, <3>2
  <2> HIDE DEF outer
  <2>0. "IFFALSE" \in Inner /\ "ENDIF" \in Terms
    BY DEF Inner, Terms
  <2>3. up \in Seq(Inner)
    BY <2>0, <2>2, AppendProperties
  <2> HIDE DEF up
  <2>4. List("ENDIF", up) \in ListRec
    BY <2>0, <2>3, NewListFits
  <2>5. Append(Pop, List("ENDIF", up)) \in Seq(ListRec)
    BY <1>1, <2>4, AppendProperties
  <2> QED
    BY <1>2, <2>5 DEF Return, ListsFit, up, outer
<1>3. CASE Top.term # "IFFALSE"
  BY <1>1, <1>3 DEF Return, ListsFit
<1> QED
  BY <1>2, <1>3

\* A statement is counted where there is room for it.
LEMMA CountedFits ==
  ASSUME ListsFit, Reading
  PROVE  /\ Counted \in Seq(ListRec)
         /\ Top \in ListRec /\ Top.path \in Seq(Inner)
<1>1. lists \in Seq(ListRec) /\ lists # <<>> /\ Top \in ListRec
  BY PopFits DEF ListsFit, Reading, Top
<1>2. Len(lists) \in 1 .. Len(lists)
  BY <1>1, EmptySeq, LenProperties
<1> DEFINE r == [Top EXCEPT !.n = @ + 1]
<1>3. r \in ListRec
  <2>1. Top.n \in 0 .. MaxStmts /\ Top.n < MaxStmts
    BY <1>1 DEF ListRec, Reading
  <2>2. Top.n + 1 \in 0 .. MaxStmts
    BY <2>1, LimitsAreNumbers
  <2> QED
    BY <1>1, <2>2 DEF ListRec
<1>4. Counted = [lists EXCEPT ![Len(lists)] = r]
  BY DEF Counted, Top
<1> HIDE DEF r
<1>5. Counted \in Seq(ListRec)
  BY <1>1, <1>2, <1>3, <1>4, ExceptSeq
<1> QED
  BY <1>1, <1>5 DEF ListRec

\* A function is changed in its parameters or its locals, within their limits.
LEMMA FunctionsFit ==
  ASSUME FuncsAre, FuncsFit, funcs # <<>>,
         NEW f \in FuncRec, Len(f.params) <= MaxParams, Len(f.locals) <= MaxLocals,
         funcs' = [funcs EXCEPT ![Cur] = f]
  PROVE  FuncsAre' /\ FuncsFit' /\ funcs' # <<>>
<1>1. funcs \in Seq(FuncRec) /\ Len(funcs) \in Nat \ {0}
  BY EmptySeq, LenProperties DEF FuncsAre
<1>2. /\ funcs' \in Seq(FuncRec) /\ Len(funcs') = Len(funcs)
      /\ \A i \in 1 .. Len(funcs) : funcs'[i] = IF i = Len(funcs) THEN f ELSE funcs[i]
  BY <1>1, ExceptSeq, SMTT(30) DEF Cur
<1>3. \A i \in 1 .. Len(funcs) : Len(funcs'[i].params) <= MaxParams /\ Len(funcs'[i].locals) <= MaxLocals
  BY <1>1, <1>2, LenProperties DEF FuncsFit
<1>4. DOMAIN funcs' = 1 .. Len(funcs)
  BY <1>2, LenProperties
<1> QED
  BY <1>1, <1>2, <1>3, <1>4, EmptySeq DEF FuncsAre, FuncsFit

(***************************************************************************)
(* The invariant is inductive: one lemma for the lines of a function's      *)
(* head, one step for each action.                                         *)
(***************************************************************************)

\* A line of the file is a row of words.
LEMMA LinesAreWords ==
  ASSUME ReaderInv, More
  PROVE  Line \in Seq(STRING)
<1>1. ln \in 1 .. Len(file)
  BY LenProperties DEF ReaderInv, More
<1> QED
  BY <1>1, ElementOfSeq DEF ReaderInv, Line

\* The function that is read has its place, and its two arrays fit.
LEMMA CurrentFits ==
  ASSUME ReaderInv, funcs # <<>>
  PROVE  /\ funcs[Cur] \in FuncRec
         /\ Len(funcs[Cur].params) <= MaxParams /\ Len(funcs[Cur].locals) <= MaxLocals
<1>1. funcs \in Seq(FuncRec) /\ Cur \in 1 .. Len(funcs)
  BY EmptySeq, LenProperties DEF ReaderInv, FuncsAre, Cur
<1>2. Cur \in DOMAIN funcs
  BY <1>1, LenProperties
<1>3. funcs[Cur] \in FuncRec
  BY <1>1, ElementOfSeq
<1> QED
  BY <1>2, <1>3 DEF ReaderInv, FuncsFit

LEMMA ReadFuncKeeps ==
  ASSUME ReaderInv, ReadFunc
  PROVE  ReaderInv'
<1>1. /\ file' = file /\ lists' = lists /\ lists = <<>> /\ ln' = ln + 1
      /\ file \in Seq(Seq(STRING)) /\ ln \in Nat \ {0} /\ ListsFit
  BY DEF ReadFunc, ReaderInv
<1>2. CASE Line[1] = "FUNC"
  <2> DEFINE f == [decl |-> Fields(Line, 2, 5), params |-> <<>>, locals |-> <<>>]
  <2>1. Fields(Line, 2, 5) \in Seq(STRING)
    BY LinesAreWords, FieldsAreWords DEF ReadFunc
  <2>2. f \in FuncRec /\ Len(f.params) = 0 /\ Len(f.locals) = 0
    BY <2>1 DEF FuncRec
  <2>3. funcs' = Append(funcs, f) /\ head' = TRUE
    BY <1>2 DEF ReadFunc
  <2> HIDE DEF f
  <2>4. funcs \in Seq(FuncRec) /\ Len(funcs) \in Nat
    BY LenProperties DEF ReaderInv, FuncsAre
  <2>5. /\ funcs' \in Seq(FuncRec) /\ funcs' # <<>> /\ Len(funcs') = Len(funcs) + 1
        /\ \A i \in 1 .. Len(funcs) : funcs'[i] = funcs[i]
        /\ funcs'[Len(funcs) + 1] = f
    BY <2>2, <2>3, <2>4, AppendProperties
  <2>6. DOMAIN funcs' = 1 .. Len(funcs) + 1 /\ DOMAIN funcs = 1 .. Len(funcs)
    BY <2>4, <2>5, LenProperties
  <2>7. ASSUME NEW i \in DOMAIN funcs'
        PROVE  Len(funcs'[i].params) <= MaxParams /\ Len(funcs'[i].locals) <= MaxLocals
    <3>1. CASE i \in 1 .. Len(funcs)
      BY <3>1, <2>5, <2>6 DEF ReaderInv, FuncsFit
    <3>2. CASE i = Len(funcs) + 1
      BY <3>2, <2>2, <2>5, LimitsAreNumbers
    <3> QED
      BY <2>4, <2>6, <3>1, <3>2
  <2> QED
    BY <1>1, <2>3, <2>5, <2>7 DEF ReaderInv, ListsFit, FuncsAre, FuncsFit, InFunction, HeadFirst
<1>3. CASE Line[1] # "FUNC"
  BY <1>1, <1>3 DEF ReadFunc, ReaderInv, ListsFit, FuncsAre, FuncsFit, InFunction, HeadFirst
<1> QED
  BY <1>2, <1>3

LEMMA ReadParamKeeps ==
  ASSUME ReaderInv, ReadParam
  PROVE  ReaderInv'
<1>1. /\ file' = file /\ lists' = lists /\ head' = head /\ ln' = ln + 1 /\ head
      /\ file \in Seq(Seq(STRING)) /\ ln \in Nat \ {0} /\ ListsFit
  BY DEF ReadParam, ReaderInv
<1>2. FuncsAre /\ FuncsFit /\ funcs # <<>> /\ lists = <<>>
  BY <1>1 DEF ReaderInv, InFunction, HeadFirst
<1> DEFINE row == Upto(MaxParams, funcs[Cur].params, Fields(Line, 2, 4))
           f == [funcs[Cur] EXCEPT !.params = row]
<1>3. Fields(Line, 2, 4) \in Seq(STRING)
  <2>1. More
    BY DEF ReadParam
  <2> QED
    BY <2>1, LinesAreWords, FieldsAreWords
<1>4. /\ funcs[Cur] \in FuncRec
      /\ Len(funcs[Cur].params) <= MaxParams /\ Len(funcs[Cur].locals) <= MaxLocals
  BY <1>2, CurrentFits
<1>5. funcs[Cur].params \in Seq(Seq(STRING))
  BY <1>4 DEF FuncRec
<1>6. row \in Seq(Seq(STRING)) /\ Len(row) <= MaxParams
  BY <1>3, <1>4, <1>5, UptoFits, LimitsAreNumbers
<1>7. funcs' = [funcs EXCEPT ![Cur] = f]
  BY DEF ReadParam
<1> HIDE DEF row
<1>8. f \in FuncRec /\ f.params = row /\ f.locals = funcs[Cur].locals
  BY <1>4, <1>6 DEF FuncRec
<1> HIDE DEF f
<1>9. FuncsAre' /\ FuncsFit' /\ funcs' # <<>>
  BY <1>2, <1>4, <1>6, <1>7, <1>8, FunctionsFit
<1> QED
  BY <1>1, <1>2, <1>9 DEF ReaderInv, ListsFit, InFunction, HeadFirst

LEMMA ReadLocalKeeps ==
  ASSUME ReaderInv, ReadLocal
  PROVE  ReaderInv'
<1>1. /\ file' = file /\ lists' = lists /\ head' = head /\ ln' = ln + 1 /\ head
      /\ file \in Seq(Seq(STRING)) /\ ln \in Nat \ {0} /\ ListsFit
  BY DEF ReadLocal, ReaderInv
<1>2. FuncsAre /\ FuncsFit /\ funcs # <<>> /\ lists = <<>>
  BY <1>1 DEF ReaderInv, InFunction, HeadFirst
<1> DEFINE row == Upto(MaxLocals, funcs[Cur].locals, Fields(Line, 2, 4))
           f == [funcs[Cur] EXCEPT !.locals = row]
<1>3. Fields(Line, 2, 4) \in Seq(STRING)
  <2>1. More
    BY DEF ReadLocal
  <2> QED
    BY <2>1, LinesAreWords, FieldsAreWords
<1>4. /\ funcs[Cur] \in FuncRec
      /\ Len(funcs[Cur].params) <= MaxParams /\ Len(funcs[Cur].locals) <= MaxLocals
  BY <1>2, CurrentFits
<1>5. funcs[Cur].locals \in Seq(Seq(STRING))
  BY <1>4 DEF FuncRec
<1>6. row \in Seq(Seq(STRING)) /\ Len(row) <= MaxLocals
  BY <1>3, <1>4, <1>5, UptoFits, LimitsAreNumbers
<1>7. funcs' = [funcs EXCEPT ![Cur] = f]
  BY DEF ReadLocal
<1> HIDE DEF row
<1>8. f \in FuncRec /\ f.locals = row /\ f.params = funcs[Cur].params
  BY <1>4, <1>6 DEF FuncRec
<1> HIDE DEF f
<1>9. FuncsAre' /\ FuncsFit' /\ funcs' # <<>>
  BY <1>2, <1>4, <1>6, <1>7, <1>8, FunctionsFit
<1> QED
  BY <1>1, <1>2, <1>9 DEF ReaderInv, ListsFit, InFunction, HeadFirst

LEMMA ReadBodyKeeps ==
  ASSUME ReaderInv, ReadBody
  PROVE  ReaderInv'
<1>1. "ENDFUNC" \in Terms /\ <<>> \in Seq(Inner)
  BY EmptySeq DEF Terms
<1>2. List("ENDFUNC", <<>>) \in ListRec
  BY <1>1, NewListFits
<1>3. lists' \in Seq(ListRec)
  BY <1>2 DEF ReadBody
<1>4. /\ file' = file /\ funcs' = funcs /\ head' = FALSE /\ ln' = ln + 1
      /\ file \in Seq(Seq(STRING)) /\ ln \in Nat \ {0} /\ FuncsAre /\ FuncsFit /\ funcs # <<>>
  BY DEF ReadBody, ReaderInv, InFunction
<1>5. FuncsAre' /\ FuncsFit'
  BY <1>4 DEF FuncsAre, FuncsFit
<1>6. InFunction' /\ HeadFirst'
  BY <1>4 DEF InFunction, HeadFirst
<1>7. ln' \in Nat \ {0}
  BY <1>4
<1>8. head' \in BOOLEAN
  BY <1>4, Zenon
<1>9. file' \in Seq(Seq(STRING))
  BY <1>4, Zenon
<1> QED
  BY <1>3, <1>5, <1>6, <1>7, <1>8, <1>9 DEF ReaderInv, ListsFit

\* The steps of parse_stmts: the functions stay as they are.
LEMMA StmtsKeep ==
  ASSUME ReaderInv, lists # <<>>, ListsFit', ln' \in Nat \ {0},
         UNCHANGED <<file, head, funcs>>
  PROVE  ReaderInv'
BY DEF ReaderInv, FuncsAre, FuncsFit, InFunction, HeadFirst

\* The heads of a Loop and an If take three lines, or what is left of them.
LEMMA HeadsTaken ==
  ASSUME ReaderInv, NEW n, ReadHeads(n)
  PROVE  ln' \in Nat \ {0}
<1>1. Len(file) \in Nat /\ ln \in Nat
  BY LenProperties DEF ReaderInv
<1> QED
  BY <1>1 DEF ReadHeads

LEMMA ReadLoopKeeps ==
  ASSUME ReaderInv, ReadLoop
  PROVE  ReaderInv'
<1>1. Reading /\ lists # <<>> /\ ListsFit /\ ReadHeads(2) /\ UNCHANGED <<file, head, funcs>>
  BY DEF ReadLoop, Reading, ReaderInv
<1>2. Counted \in Seq(ListRec) /\ Top.path \in Seq(Inner)
  BY <1>1, CountedFits
<1> DEFINE path == Append(Top.path, "LOOPBODY")
<1>3. path \in Seq(Inner) /\ "ENDLOOP" \in Terms
  BY <1>2, AppendProperties DEF Inner, Terms
<1>4. List("ENDLOOP", path) \in ListRec
  BY <1>3, NewListFits
<1>5. Append(Counted, List("ENDLOOP", path)) \in Seq(ListRec)
  BY <1>2, <1>4, AppendProperties
<1>6. ListsFit'
  BY <1>2, <1>5 DEF ReadLoop, ListsFit
<1>7. ln' \in Nat \ {0}
  BY <1>1, HeadsTaken
<1> QED
  BY <1>1, <1>6, <1>7, StmtsKeep

LEMMA ReadIfKeeps ==
  ASSUME ReaderInv, ReadIf
  PROVE  ReaderInv'
<1>1. Reading /\ lists # <<>> /\ ListsFit /\ ReadHeads(1) /\ UNCHANGED <<file, head, funcs>>
  BY DEF ReadIf, Reading, ReaderInv
<1>2. Counted \in Seq(ListRec) /\ Top.path \in Seq(Inner)
  BY <1>1, CountedFits
<1> DEFINE yes == Append(Top.path, "IFTRUE")
           no == Append(Top.path, "IFFALSE")
<1>3. /\ yes \in Seq(Inner) /\ no \in Seq(Inner)
      /\ "IFFALSE" \in Terms /\ "ENDIF" \in Terms
  BY <1>2, AppendProperties DEF Inner, Terms
<1>4. List("IFFALSE", yes) \in ListRec /\ List("ENDIF", no) \in ListRec
  BY <1>3, NewListFits
<1>5. ListsFit'
  BY <1>2, <1>4, AppendProperties DEF ReadIf, ListsFit
<1>6. ln' \in Nat \ {0}
  BY <1>1, HeadsTaken
<1> QED
  BY <1>1, <1>5, <1>6, StmtsKeep

LEMMA StepKeeps ==
  ASSUME ReaderInv, NextReader
  PROVE  ReaderInv'
<1>0. ln + 1 \in Nat \ {0} /\ ln \in Nat \ {0} /\ ListsFit
  BY DEF ReaderInv
<1>1. CASE ReadTerm
  <2>1. ListsFit'
    BY <1>0, <1>1, ReturnFits DEF ReadTerm
  <2> QED
    BY <1>0, <1>1, <2>1, StmtsKeep DEF ReadTerm
<1>2. CASE LeaveFull
  <2>1. ListsFit'
    BY <1>0, <1>2, ReturnFits DEF LeaveFull
  <2> QED
    BY <1>0, <1>2, <2>1, StmtsKeep DEF LeaveFull
<1>3. CASE ReadStmt
  <2>1. ListsFit'
    BY <1>0, <1>3, CountedFits DEF ReadStmt, ListsFit
  <2> QED
    BY <1>0, <1>3, <2>1, StmtsKeep DEF ReadStmt, Reading
<1>4. CASE ReadOther
  BY <1>0, <1>4 DEF ReadOther, ReaderInv, ListsFit, FuncsAre, FuncsFit, InFunction, HeadFirst
<1> QED
  BY <1>1, <1>2, <1>3, <1>4, ReadFuncKeeps, ReadParamKeeps, ReadLocalKeeps, ReadBodyKeeps,
     ReadLoopKeeps, ReadIfKeeps
  DEF NextReader

\* Whatever the file and the limits of backend.h, parse_stmts and bir_parse
\* write no element of a list, of the parameters or of the locals behind the
\* end of its array, and statements only to a function that there is.
THEOREM ReaderTypeCorrect == SpecReader => []TypeOKReader
<1>1. InitAnyFile => ReaderInv
  <2> SUFFICES ASSUME NEW lines \in Seq(Seq(STRING)), InitReader(lines)
               PROVE  ReaderInv
    BY DEF InitAnyFile
  <2>1. lists \in Seq(ListRec) /\ funcs \in Seq(FuncRec)
    BY EmptySeq DEF InitReader
  <2>2. FuncsFit
    BY DEF InitReader, FuncsFit
  <2>3. InFunction /\ HeadFirst
    BY DEF InitReader, InFunction, HeadFirst
  <2>4. file \in Seq(Seq(STRING)) /\ ln \in Nat \ {0}
    BY SMT DEF InitReader
  <2>5. head \in BOOLEAN
    BY Zenon DEF InitReader
  <2> QED
    BY <2>1, <2>2, <2>3, <2>4, <2>5 DEF ReaderInv, ListsFit, FuncsAre
<1>2. ReaderInv /\ [NextReader]_readVars => ReaderInv'
  <2>1. ASSUME ReaderInv, UNCHANGED readVars PROVE ReaderInv'
    BY <2>1 DEF readVars, ReaderInv, ListsFit, FuncsAre, FuncsFit, InFunction, HeadFirst
  <2> QED
    BY <2>1, StepKeeps
<1>3. ReaderInv => TypeOKReader
  BY DEF ReaderInv, TypeOKReader, ListsFit, FuncsFit, InFunction, HeadFirst, ListRec
<1> QED
  BY <1>1, <1>2, <1>3, PTL DEF SpecReader

=============================================================================
