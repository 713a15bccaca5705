---------------------------- MODULE FrontendProofs ----------------------------
(***************************************************************************)
(* The two walks of the front end, for every set of names, types and        *)
(* values, every nesting of statements and every number of labels: the      *)
(* scopes and the risk flag of the checker, the jumps of the generated      *)
(* text, and the width with which a variable is accessed.                   *)
(***************************************************************************)
EXTENDS Frontend, TLAPS

(***************************************************************************)
(* ScopesAreFunctions is not inductive: when a function ends, the map that  *)
(* its frame saved becomes the checker's.  FunctionsMatch says which one    *)
(* that is: the functions among the open statements are those that scopes   *)
(* lists, in the same order, and each has saved what was visible around it. *)
(***************************************************************************)
FunctionsMatch ==
  /\ scopes[1].frame = 0
  /\ \A i \in 2 .. Len(scopes) :
       /\ scopes[i].frame \in 1 .. Len(open)
       /\ open[scopes[i].frame].stmt = "Func"
       /\ Lexical(scopes, i - 1, open[scopes[i].frame].saved)
  /\ \A i, j \in 1 .. Len(scopes) : i < j => scopes[i].frame < scopes[j].frame
  /\ \A k \in 1 .. Len(open) :
       open[k].stmt = "Func" => \E i \in 2 .. Len(scopes) : scopes[i].frame = k

CheckInv == TypeOKCheck /\ ScopesAreFunctions /\ RiskNeedsMem /\ FunctionsMatch

(***************************************************************************)
(* What is visible.                                                        *)
(***************************************************************************)

\* What is visible with d scopes depends on the first d maps only.
LEMMA LexicalSame ==
  ASSUME NEW s, NEW t, NEW d \in Nat, NEW map,
         \A i \in 1 .. d, n \in Names : s[i].names[n] = t[i].names[n],
         Lexical(s, d, map)
  PROVE  Lexical(t, d, map)
<1> SUFFICES ASSUME NEW n \in Names
             PROVE  Sees(t, d, n, map[n])
  BY DEF Lexical
<1>1. Sees(s, d, n, map[n])
  BY DEF Lexical
<1>2. CASE map[n] = Undeclared
  BY <1>1, <1>2 DEF Sees
<1>3. CASE map[n] # Undeclared
  <2>1. PICK i \in 1 .. d : /\ s[i].names[n] = map[n]
                           /\ \A j \in i + 1 .. d : s[j].names[n] = Undeclared
    BY <1>1, <1>3 DEF Sees
  <2>2. t[i].names[n] = map[n] /\ \A j \in i + 1 .. d : t[j].names[n] = Undeclared
    BY <2>1
  <2> QED
    BY <1>3, <2>2 DEF Sees
<1> QED
  BY <1>2, <1>3

\* One more scope hides what it declares and shows the rest.
LEMMA LexicalPush ==
  ASSUME NEW s, NEW t, NEW d \in Nat, NEW map, NEW more,
         \A i \in 1 .. d, n \in Names : s[i].names[n] = t[i].names[n],
         Lexical(s, d, map),
         \A n \in Names : more[n] = IF t[d + 1].names[n] = Undeclared
                                    THEN map[n] ELSE t[d + 1].names[n]
  PROVE  Lexical(t, d + 1, more)
<1> SUFFICES ASSUME NEW n \in Names
             PROVE  Sees(t, d + 1, n, more[n])
  BY DEF Lexical
<1>1. Sees(t, d, n, map[n])
  BY LexicalSame DEF Lexical
<1>2. CASE t[d + 1].names[n] = Undeclared
  <2>1. more[n] = map[n]
    BY <1>2
  <2>2. CASE map[n] = Undeclared
    BY <1>1, <1>2, <2>1, <2>2 DEF Sees
  <2>3. CASE map[n] # Undeclared
    <3>1. PICK i \in 1 .. d : /\ t[i].names[n] = map[n]
                             /\ \A j \in i + 1 .. d : t[j].names[n] = Undeclared
      BY <1>1, <2>3 DEF Sees
    <3>2. i \in 1 .. d + 1 /\ \A j \in i + 1 .. d + 1 : t[j].names[n] = Undeclared
      BY <3>1, <1>2
    <3> QED
      BY <2>1, <2>3, <3>1, <3>2 DEF Sees
  <2> QED
    BY <2>2, <2>3
<1>3. CASE t[d + 1].names[n] # Undeclared
  BY <1>3 DEF Sees
<1> QED
  BY <1>2, <1>3

(***************************************************************************)
(* The statements that are open.                                           *)
(***************************************************************************)

\* A sequence without its last element.
LEMMA DropLast ==
  ASSUME NEW S, NEW s \in Seq(S), s # <<>>, NEW n, n = Len(s) - 1
  PROVE  /\ SubSeq(s, 1, n) \in Seq(S)
         /\ Len(SubSeq(s, 1, n)) = n
         /\ \A i \in 1 .. n : SubSeq(s, 1, n)[i] = s[i]
         /\ Len(s) \in Nat \ {0}
<1>1. SubSeq(s, 1, n) \in Seq(S)
  OBVIOUS
<1>2. Len(SubSeq(s, 1, n)) = n
  OBVIOUS
<1>3. \A i \in 1 .. n : SubSeq(s, 1, n)[i] = s[i]
  OBVIOUS
<1>4. Len(s) \in Nat \ {0}
  OBVIOUS
<1> QED
  BY <1>1, <1>2, <1>3, <1>4

\* typeFromString returns a kind.
LEMMA KindsDeclared ==
  ASSUME NEW t
  PROVE  KindOf(t) \in Kinds /\ KindOf(t) # Undeclared
BY DEF KindOf, Kinds, Scalars, Arrays, Undeclared

\* A statement that is opened has the type of a frame.
LEMMA BlockType ==
  ASSUME NEW stmt \in Blocks \union {"Func"}
  PROVE  /\ Block(stmt) \in Frames
         /\ Block(stmt).stmt = stmt
BY DEF Block, Frames, Maps, NoNames

\* A statement that is not a function begins.
LEMMA PushBlock ==
  ASSUME CheckInv, NEW frame \in Frames, frame.stmt # "Func",
         Push(frame), UNCHANGED <<vars, scopes>>
  PROVE  /\ open' \in Seq(Frames)
         /\ \A i \in 1 .. Len(open) : i \in 1 .. Len(open') /\ open'[i] = open[i]
         /\ open'[Len(open')] = frame /\ Len(open') = Len(open) + 1
         /\ ScopesAreFunctions' /\ FunctionsMatch'
<1>1. /\ open \in Seq(Frames)
      /\ open' = Append(open, frame)
  BY DEF CheckInv, TypeOKCheck, Push
<1>2. /\ open' \in Seq(Frames)
      /\ \A i \in 1 .. Len(open) : i \in 1 .. Len(open') /\ open'[i] = open[i]
      /\ open'[Len(open')] = frame /\ Len(open') = Len(open) + 1
  BY <1>1
<1>3. ScopesAreFunctions'
  BY DEF CheckInv, ScopesAreFunctions
<1>4. FunctionsMatch'
  <2>1. ASSUME NEW i \in 2 .. Len(scopes)
        PROVE  /\ scopes[i].frame \in 1 .. Len(open')
               /\ open'[scopes[i].frame].stmt = "Func"
               /\ Lexical(scopes, i - 1, open'[scopes[i].frame].saved)
    BY <1>2 DEF CheckInv, FunctionsMatch
  <2>2. ASSUME NEW k \in 1 .. Len(open'), open'[k].stmt = "Func"
        PROVE  \E i \in 2 .. Len(scopes) : scopes[i].frame = k
    <3>1. k # Len(open')
      BY <1>2, <2>2
    <3>2. k \in 1 .. Len(open)
      BY <1>1, <1>2, <3>1
    <3>3. open'[k] = open[k]
      BY <1>2, <3>2
    <3> QED
      BY <2>2, <3>2, <3>3 DEF CheckInv, FunctionsMatch
  <2> QED
    BY <2>1, <2>2 DEF CheckInv, FunctionsMatch
<1> QED
  BY <1>2, <1>3, <1>4

\* One that is not a function ends.
LEMMA PopBlock ==
  ASSUME CheckInv, NEW stmt, stmt # "Func",
         Pop(stmt), UNCHANGED <<vars, scopes>>
  PROVE  /\ open' \in Seq(Frames)
         /\ open[Len(open)].stmt = stmt /\ Len(open) \in Nat \ {0}
         /\ Len(open') = Len(open) - 1
         /\ \A i \in 1 .. Len(open') : open'[i] = open[i]
         /\ ScopesAreFunctions' /\ FunctionsMatch'
<1> DEFINE n == Len(open) - 1
<1>1. /\ open \in Seq(Frames) /\ open # <<>>
      /\ open[Len(open)].stmt = stmt
      /\ open' = SubSeq(open, 1, n)
  BY DEF CheckInv, TypeOKCheck, Pop, Inside
<1>5. n = Len(open) - 1
  OBVIOUS
<1> HIDE DEF n
<1>6. /\ open' \in Seq(Frames) /\ Len(open') = n
      /\ \A i \in 1 .. n : open'[i] = open[i]
      /\ Len(open) \in Nat \ {0}
  BY <1>1, <1>5, DropLast
<1>2. /\ open' \in Seq(Frames)
      /\ Len(open) \in Nat \ {0} /\ Len(open') = Len(open) - 1
      /\ \A i \in 1 .. Len(open') : open'[i] = open[i]
  BY <1>5, <1>6
<1>3. ScopesAreFunctions'
  BY DEF CheckInv, ScopesAreFunctions
<1>4. FunctionsMatch'
  <2>1. ASSUME NEW i \in 2 .. Len(scopes)
        PROVE  /\ scopes[i].frame \in 1 .. Len(open')
               /\ open'[scopes[i].frame].stmt = "Func"
               /\ Lexical(scopes, i - 1, open'[scopes[i].frame].saved)
    <3>1. /\ scopes[i].frame \in 1 .. Len(open)
          /\ open[scopes[i].frame].stmt = "Func"
          /\ Lexical(scopes, i - 1, open[scopes[i].frame].saved)
      BY DEF CheckInv, FunctionsMatch
    <3>2. scopes[i].frame # Len(open)
      BY <1>1, <3>1
    <3>3. scopes[i].frame \in 1 .. Len(open')
      BY <1>2, <3>1, <3>2
    <3> QED
      BY <1>2, <3>1, <3>3
  <2>2. ASSUME NEW k \in 1 .. Len(open'), open'[k].stmt = "Func"
        PROVE  \E i \in 2 .. Len(scopes) : scopes[i].frame = k
    BY <1>2, <2>2 DEF CheckInv, FunctionsMatch
  <2> QED
    BY <2>1, <2>2 DEF CheckInv, FunctionsMatch
<1> QED
  BY <1>1, <1>2, <1>3, <1>4

\* The innermost one, not a function, changes into another.
LEMMA ChangeBlock ==
  ASSUME CheckInv, NEW frame \in Frames, frame.stmt # "Func",
         open # <<>>, open[Len(open)].stmt # "Func",
         open' = [open EXCEPT ![Len(open)] = frame], UNCHANGED <<vars, scopes>>
  PROVE  /\ open' \in Seq(Frames)
         /\ Len(open') = Len(open)
         /\ \A i \in 1 .. Len(open) : open'[i] = IF i = Len(open) THEN frame ELSE open[i]
         /\ ScopesAreFunctions' /\ FunctionsMatch'
<1>1. open \in Seq(Frames)
  BY DEF CheckInv, TypeOKCheck
<1>2. /\ open' \in Seq(Frames)
      /\ Len(open') = Len(open)
      /\ \A i \in 1 .. Len(open) : open'[i] = IF i = Len(open) THEN frame ELSE open[i]
  BY <1>1
<1>3. ScopesAreFunctions'
  BY DEF CheckInv, ScopesAreFunctions
<1>4. FunctionsMatch'
  <2>1. ASSUME NEW i \in 2 .. Len(scopes)
        PROVE  /\ scopes[i].frame \in 1 .. Len(open')
               /\ open'[scopes[i].frame].stmt = "Func"
               /\ Lexical(scopes, i - 1, open'[scopes[i].frame].saved)
    <3>1. /\ scopes[i].frame \in 1 .. Len(open)
          /\ open[scopes[i].frame].stmt = "Func"
          /\ Lexical(scopes, i - 1, open[scopes[i].frame].saved)
      BY DEF CheckInv, FunctionsMatch
    <3>2. scopes[i].frame # Len(open)
      BY <3>1, Zenon
    <3> QED
      BY <1>2, <3>1, <3>2
  <2>2. ASSUME NEW k \in 1 .. Len(open'), open'[k].stmt = "Func"
        PROVE  \E i \in 2 .. Len(scopes) : scopes[i].frame = k
    <3>1. k # Len(open) /\ k \in 1 .. Len(open) /\ open[k].stmt = "Func"
      BY <1>2, <2>2, Zenon
    <3>2. \A j \in 1 .. Len(open) :
            open[j].stmt = "Func" => \E i \in 2 .. Len(scopes) : scopes[i].frame = j
      BY DEF CheckInv, FunctionsMatch
    <3> QED
      BY <3>1, <3>2
  <2>3. scopes' = scopes
    OBVIOUS
  <2>4. /\ scopes[1].frame = 0
        /\ \A i, j \in 1 .. Len(scopes) : i < j => scopes[i].frame < scopes[j].frame
    BY DEF CheckInv, FunctionsMatch
  <2> QED
    BY <2>1, <2>2, <2>3, <2>4 DEF FunctionsMatch
<1> QED
  BY <1>2, <1>3, <1>4

(***************************************************************************)
(* The actions.                                                            *)
(***************************************************************************)

\* checkVariable.
LEMMA DeclareKeeps ==
  ASSUME CheckInv, NEW n \in Names, NEW t, Declare(n, KindOf(t)),
         rejected' \in BOOLEAN, UNCHANGED <<inRisk, open>>
  PROVE  CheckInv'
<1> DEFINE kind == KindOf(t)
           d == Len(scopes)
<1>1. kind \in Kinds /\ kind # Undeclared
  BY KindsDeclared
<1>2. /\ vars \in Maps /\ scopes \in Seq(Scopes) /\ d \in Nat \ {0}
      /\ vars' = [vars EXCEPT ![n] = kind]
      /\ scopes' = [scopes EXCEPT ![d].names[n] = kind]
  BY DEF CheckInv, TypeOKCheck, Declare
<1> HIDE DEF kind, d
<1>3. vars' \in Maps /\ \A m \in Names : vars'[m] = IF m = n THEN kind ELSE vars[m]
  BY <1>1, <1>2 DEF Maps
<1>4. /\ scopes' \in Seq(Scopes) /\ Len(scopes') = d
      /\ \A i \in 1 .. d : /\ scopes'[i].frame = scopes[i].frame
                           /\ \A m \in Names :
                                scopes'[i].names[m] = IF i = d /\ m = n THEN kind
                                                      ELSE scopes[i].names[m]
  <2>1. ASSUME NEW i \in 1 .. d
        PROVE  scopes[i] \in Scopes /\ scopes[i].names \in Maps
    <3>1. d = Len(scopes)
      BY DEF d
    <3>2. scopes[i] \in Scopes
      BY <1>2, <3>1
    <3> QED
      BY <3>2 DEF Scopes
  <2>2. [scopes[d] EXCEPT !.names[n] = kind] \in Scopes
    <3>1. scopes[d] \in [names : Maps, frame : Nat] /\ n \in Names
      BY <1>2, <2>1 DEF Scopes
    <3>2. [scopes[d].names EXCEPT ![n] = kind] \in Maps
      BY <1>1, <3>1 DEF Maps
    <3>3. [scopes[d] EXCEPT !.names[n] = kind]
            = [scopes[d] EXCEPT !.names = [scopes[d].names EXCEPT ![n] = kind]]
      BY <3>1
    <3> QED
      BY <3>1, <3>2, <3>3 DEF Scopes
  <2>3. scopes' = [scopes EXCEPT ![d] = [scopes[d] EXCEPT !.names[n] = kind]]
    BY <1>2
  <2>4. scopes' \in Seq(Scopes) /\ Len(scopes') = d
    BY <1>2, <2>2, <2>3 DEF d
  <2>5. ASSUME NEW i \in 1 .. d
        PROVE  /\ scopes'[i].frame = scopes[i].frame
               /\ \A m \in Names :
                    scopes'[i].names[m] = IF i = d /\ m = n THEN kind
                                          ELSE scopes[i].names[m]
    BY <1>2, <2>1, <2>3 DEF Scopes, Maps, d
  <2> QED
    BY <2>4, <2>5
<1>5. Lexical(scopes, d, vars)
  BY DEF CheckInv, ScopesAreFunctions, d
<1>6. /\ Lexical(scopes', d, vars')
      /\ \A e \in 0 .. d - 1 : \A old : Lexical(scopes, e, old) => Lexical(scopes', e, old)
  <2>1. \A i \in 1 .. d, m \in Names :
          scopes'[i].names[m] = IF i = d /\ m = n THEN kind ELSE scopes[i].names[m]
    BY <1>4
  <2>2. d \in Nat \ {0} /\ kind # Undeclared
    BY <1>1, <1>2
  <2>3. \A m \in Names : vars'[m] = IF m = n THEN kind ELSE vars[m]
    BY <1>3
  <2>4. ASSUME NEW m \in Names
        PROVE  Sees(scopes', d, m, vars'[m])
    <3>1. CASE m = n
      <4>1. scopes'[d].names[m] = kind /\ vars'[m] = kind /\ d \in 1 .. d
        BY <2>1, <2>2, <2>3, <3>1
      <4> QED
        BY <2>2, <4>1 DEF Sees
    <3>2. CASE m # n
      <4>1. Sees(scopes, d, m, vars[m])
        BY <1>5 DEF Lexical
      <4>2. vars'[m] = vars[m]
            /\ \A i \in 1 .. d : scopes'[i].names[m] = scopes[i].names[m]
        BY <2>1, <2>3, <3>2
      <4> QED
        BY <2>2, <4>1, <4>2 DEF Sees
    <3> QED
      BY <3>1, <3>2
  <2>5. ASSUME NEW e \in 0 .. d - 1, NEW old, Lexical(scopes, e, old)
        PROVE  Lexical(scopes', e, old)
    <3>1. e \in Nat /\ \A i \in 1 .. e, m \in Names : scopes[i].names[m] = scopes'[i].names[m]
      BY <2>1, <2>2
    <3> QED
      BY <2>5, <3>1, LexicalSame
  <2> QED
    BY <2>4, <2>5 DEF Lexical
<1>7. TypeOKCheck' /\ RiskNeedsMem'
  BY <1>2, <1>3, <1>4 DEF CheckInv, TypeOKCheck, RiskNeedsMem
<1>8. ScopesAreFunctions'
  BY <1>4, <1>6 DEF ScopesAreFunctions
<1>9. FunctionsMatch'
  <2>1. FunctionsMatch /\ Len(scopes) = d
    BY DEF CheckInv, d
  <2>2. ASSUME NEW i \in 2 .. Len(scopes')
        PROVE  /\ scopes'[i].frame \in 1 .. Len(open)
               /\ open[scopes'[i].frame].stmt = "Func"
               /\ Lexical(scopes', i - 1, open[scopes'[i].frame].saved)
    <3>1. scopes'[i].frame = scopes[i].frame /\ i \in 2 .. Len(scopes) /\ i - 1 \in 0 .. d - 1
      BY <1>2, <1>4, <2>1
    <3> QED
      BY <1>6, <2>1, <3>1 DEF FunctionsMatch
  <2>3. \A i, j \in 1 .. Len(scopes') : i < j => scopes'[i].frame < scopes'[j].frame
    BY <1>4, <2>1 DEF FunctionsMatch
  <2>4. ASSUME NEW k \in 1 .. Len(open), open[k].stmt = "Func"
        PROVE  \E i \in 2 .. Len(scopes') : scopes'[i].frame = k
    <3>1. PICK i \in 2 .. Len(scopes) : scopes[i].frame = k
      BY <2>1, <2>4 DEF FunctionsMatch
    <3> QED
      BY <1>2, <1>4, <2>1, <3>1
  <2>5. scopes'[1].frame = 0
    BY <1>2, <1>4, <2>1 DEF FunctionsMatch
  <2> QED
    BY <1>2, <2>2, <2>3, <2>4, <2>5 DEF FunctionsMatch
<1> QED
  BY <1>7, <1>8, <1>9 DEF CheckInv

\* checkFunc up to the body.
LEMMA FuncBeginKeeps ==
  ASSUME CheckInv, NEW params, FuncBegin(params)
  PROVE  CheckInv'
<1> DEFINE Bind(map) == [n \in Names |->
                           IF n \in DOMAIN params THEN KindOf(params[n]) ELSE map[n]]
           frame == [Block("Func") EXCEPT !.saved = vars]
           scope == [names |-> Bind(NoNames), frame |-> Len(open) + 1]
           d == Len(scopes)
<1>1. /\ vars \in Maps /\ open \in Seq(Frames)
      /\ scopes \in Seq(Scopes) /\ d \in Nat \ {0} /\ Len(open) \in Nat
  BY DEF CheckInv, TypeOKCheck
<1>2. /\ open' = Append(open, frame) /\ vars' = Bind(vars)
      /\ scopes' = Append(scopes, scope)
      /\ inRisk' = inRisk /\ rejected' = rejected
  BY DEF FuncBegin, Push
<1>3. frame \in Frames /\ frame.stmt = "Func" /\ frame.saved = vars
  BY <1>1 DEF Block, Frames, Maps, NoNames
<1>4. /\ vars' \in Maps /\ scope \in Scopes /\ scope.frame = Len(open) + 1
      /\ \A n \in Names : vars'[n] = IF scope.names[n] = Undeclared THEN vars[n]
                                     ELSE scope.names[n]
  <2>1. \A n \in Names : NoNames[n] = Undeclared
    BY DEF NoNames
  <2>2. \A t : KindOf(t) \in Kinds /\ KindOf(t) # Undeclared
    BY KindsDeclared
  <2>3. Bind(vars) \in Maps /\ Bind(NoNames) \in Maps
    BY <1>1, <2>1, <2>2 DEF Maps
  <2>4. scope \in Scopes /\ scope.frame = Len(open) + 1 /\ scope.names = Bind(NoNames)
    BY <1>1, <2>3 DEF Scopes
  <2> QED
    BY <1>2, <2>1, <2>2, <2>3, <2>4
<1> HIDE DEF frame, scope, Bind
<1>5. /\ open' \in Seq(Frames) /\ Len(open') = Len(open) + 1
      /\ open'[Len(open) + 1] = frame
      /\ \A i \in 1 .. Len(open) : open'[i] = open[i]
  BY <1>1, <1>2, <1>3
<1>6. /\ scopes' \in Seq(Scopes) /\ Len(scopes') = d + 1
      /\ scopes'[d + 1] = scope
      /\ \A i \in 1 .. d : scopes'[i] = scopes[i]
  BY <1>1, <1>2, <1>4
<1>7. TypeOKCheck'
  BY <1>1, <1>2, <1>4, <1>5, <1>6 DEF CheckInv, TypeOKCheck
<1>8. RiskNeedsMem'
  BY <1>1, <1>2, <1>5 DEF CheckInv, RiskNeedsMem
<1>9. Lexical(scopes, d, vars)
  BY DEF CheckInv, ScopesAreFunctions
<1> HIDE DEF d
<1>10. ScopesAreFunctions'
  <2>1. \A i \in 1 .. d : scopes[i].names = scopes'[i].names
    BY <1>6
  <2>2. \A n \in Names : vars'[n] = IF scopes'[d + 1].names[n] = Undeclared THEN vars[n]
                                    ELSE scopes'[d + 1].names[n]
    BY <1>4, <1>6
  <2>3. Lexical(scopes', d + 1, vars')
    BY <1>1, <1>9, <2>1, <2>2, LexicalPush
  <2> QED
    BY <1>6, <2>3 DEF ScopesAreFunctions
<1>11. FunctionsMatch'
  <2>1. FunctionsMatch /\ Len(scopes) = d
    BY DEF CheckInv, d
  <2>2. ASSUME NEW i \in 2 .. Len(scopes')
        PROVE  /\ scopes'[i].frame \in 1 .. Len(open')
               /\ open'[scopes'[i].frame].stmt = "Func"
               /\ Lexical(scopes', i - 1, open'[scopes'[i].frame].saved)
    <3>1. ASSUME NEW e \in 0 .. d, NEW old, Lexical(scopes, e, old)
          PROVE  Lexical(scopes', e, old)
      <4>1. e \in Nat /\ \A j \in 1 .. e, n \in Names : scopes[j].names[n] = scopes'[j].names[n]
        BY <1>1, <1>6
      <4> QED
        BY <3>1, <4>1, LexicalSame
    <3>2. CASE i = d + 1
      <4>1. scopes'[i].frame = Len(open) + 1
        BY <1>4, <1>6, <3>2
      <4>2. Lexical(scopes', i - 1, vars)
        BY <1>1, <1>9, <3>1, <3>2
      <4> QED
        BY <1>1, <1>3, <1>5, <4>1, <4>2
    <3>3. CASE i # d + 1
      <4>1. i \in 2 .. d /\ scopes'[i] = scopes[i] /\ i - 1 \in 0 .. d
        BY <1>1, <1>6, <3>3
      <4>2. /\ scopes[i].frame \in 1 .. Len(open)
            /\ open[scopes[i].frame].stmt = "Func"
            /\ Lexical(scopes, i - 1, open[scopes[i].frame].saved)
        BY <2>1, <4>1 DEF FunctionsMatch
      <4>3. Lexical(scopes', i - 1, open[scopes[i].frame].saved)
        BY <3>1, <4>1, <4>2
      <4> QED
        BY <1>1, <1>5, <4>1, <4>2, <4>3
    <3> QED
      BY <3>2, <3>3
  <2>3. ASSUME NEW i \in 1 .. Len(scopes'), NEW j \in 1 .. Len(scopes'), i < j
        PROVE  scopes'[i].frame < scopes'[j].frame
    <3>1. i \in 1 .. d /\ scopes'[i] = scopes[i]
      BY <1>1, <1>6, <2>3
    <3>2. CASE j = d + 1
      <4>1. scopes'[j].frame = Len(open) + 1
        BY <1>4, <1>6, <3>2
      <4>2. scopes[i].frame \in Nat /\ scopes[i].frame <= Len(open)
        <5>1. CASE i = 1
          BY <1>1, <2>1, <5>1 DEF FunctionsMatch
        <5>2. CASE i # 1
          BY <1>1, <2>1, <3>1, <5>2 DEF FunctionsMatch
        <5> QED
          BY <5>1, <5>2
      <4> QED
        BY <1>1, <3>1, <4>1, <4>2
    <3>3. CASE j # d + 1
      BY <1>1, <1>6, <2>1, <2>3, <3>1, <3>3 DEF FunctionsMatch
    <3> QED
      BY <3>2, <3>3
  <2>4. ASSUME NEW k \in 1 .. Len(open'), open'[k].stmt = "Func"
        PROVE  \E i \in 2 .. Len(scopes') : scopes'[i].frame = k
    <3>1. CASE k = Len(open) + 1
      BY <1>1, <1>4, <1>6, <3>1
    <3>2. CASE k # Len(open) + 1
      <4>1. k \in 1 .. Len(open) /\ open[k].stmt = "Func"
        BY <1>1, <1>5, <2>4, <3>2
      <4>2. PICK i \in 2 .. d : scopes[i].frame = k
        BY <2>1, <4>1 DEF FunctionsMatch
      <4> QED
        BY <1>1, <1>6, <4>2
    <3> QED
      BY <3>1, <3>2
  <2>5. scopes'[1].frame = 0
    BY <1>1, <1>6, <2>1 DEF FunctionsMatch
  <2> QED
    BY <2>2, <2>3, <2>4, <2>5 DEF FunctionsMatch
<1> QED
  BY <1>7, <1>8, <1>10, <1>11 DEF CheckInv

\* checkFunc after the body: the function is the last that scopes lists.
LEMMA FuncEndRestores ==
  ASSUME CheckInv, FuncEnd
  PROVE  CheckInv'
<1> DEFINE n == Len(open) - 1
           d == Len(scopes) - 1
<1>1. /\ open \in Seq(Frames) /\ open # <<>> /\ Len(open) \in Nat \ {0}
      /\ scopes \in Seq(Scopes) /\ Len(scopes) \in Nat
      /\ open[Len(open)].stmt = "Func"
      /\ open' = SubSeq(open, 1, n) /\ scopes' = SubSeq(scopes, 1, d)
      /\ vars' = open[Len(open)].saved
      /\ inRisk' = inRisk /\ rejected' = rejected
  BY DEF CheckInv, TypeOKCheck, FuncEnd, Pop, Inside
<1>2. n = Len(open) - 1 /\ d = Len(scopes) - 1
  OBVIOUS
<1> HIDE DEF n, d
<1>3. FunctionsMatch
  BY DEF CheckInv
<1>4. /\ d \in Nat \ {0} /\ d + 1 \in 2 .. Len(scopes)
      /\ scopes[d + 1].frame = Len(open)
  <2>1. PICK i \in 2 .. Len(scopes) : scopes[i].frame = Len(open)
    BY <1>1, <1>3, SMTT(30) DEF FunctionsMatch
  <2>2. d + 1 \in 2 .. Len(scopes) /\ d \in Nat \ {0} /\ i <= d + 1
    BY <1>1, <1>2
  <2>3. scopes[d + 1].frame \in 1 .. Len(open)
    BY <1>3, <2>2 DEF FunctionsMatch
  <2>4. ~(i < d + 1)
    <3>1. SUFFICES ASSUME i < d + 1
                   PROVE  FALSE
      OBVIOUS
    <3>2. i \in 1 .. Len(scopes) /\ d + 1 \in 1 .. Len(scopes)
      BY <1>1, <2>2
    <3>3. scopes[i].frame < scopes[d + 1].frame
      BY <1>3, <3>1, <3>2 DEF FunctionsMatch
    <3>4. Len(open) < scopes[d + 1].frame
      BY <2>1, <3>3
    <3> QED
      BY <1>1, <2>3, <3>4
  <2> QED
    BY <2>1, <2>2, <2>4
<1>5. /\ open' \in Seq(Frames) /\ Len(open') = n
      /\ \A k \in 1 .. n : open'[k] = open[k]
  <2>1. open \in Seq(Frames) /\ open # <<>>
    BY <1>1
  <2>2. /\ SubSeq(open, 1, n) \in Seq(Frames) /\ Len(SubSeq(open, 1, n)) = n
        /\ \A k \in 1 .. n : SubSeq(open, 1, n)[k] = open[k]
    BY <1>2, <2>1, DropLast
  <2>3. open' = SubSeq(open, 1, n)
    BY <1>1
  <2> QED
    BY <2>2, <2>3
<1>6. /\ scopes' \in Seq(Scopes) /\ Len(scopes') = d
      /\ \A i \in 1 .. d : scopes'[i] = scopes[i]
  <2>1. scopes # <<>> /\ scopes \in Seq(Scopes)
    BY <1>1, <1>4
  <2>2. /\ SubSeq(scopes, 1, d) \in Seq(Scopes) /\ Len(SubSeq(scopes, 1, d)) = d
        /\ \A i \in 1 .. d : SubSeq(scopes, 1, d)[i] = scopes[i]
    BY <1>2, <2>1, DropLast
  <2>3. scopes' = SubSeq(scopes, 1, d)
    BY <1>1
  <2> QED
    BY <2>2, <2>3
<1>7. TypeOKCheck'
  <2>1. vars' \in Maps
    <3>1. open[Len(open)] \in Frames
      BY <1>1
    <3> QED
      BY <1>1, <3>1 DEF Frames
  <2>2. scopes' # <<>>
    BY <1>4, <1>6
  <2> QED
    BY <1>1, <1>5, <1>6, <2>1, <2>2 DEF CheckInv, TypeOKCheck
<1>8. RiskNeedsMem'
  <2> SUFFICES ASSUME inRisk
               PROVE  \E k \in 1 .. n : open[k].stmt = "Mem"
    BY <1>1, <1>5 DEF RiskNeedsMem
  <2>1. PICK k \in 1 .. Len(open) : open[k].stmt = "Mem"
    BY DEF CheckInv, RiskNeedsMem
  <2>2. k # Len(open)
    BY <1>1, <2>1
  <2> QED
    BY <1>1, <1>2, <2>1, <2>2
<1>9. ASSUME NEW e \in 0 .. d, NEW old, Lexical(scopes, e, old)
      PROVE  Lexical(scopes', e, old)
  <2>1. e \in Nat /\ \A i \in 1 .. e, m \in Names : scopes[i].names[m] = scopes'[i].names[m]
    BY <1>4, <1>6
  <2> QED
    BY <1>9, <2>1, LexicalSame
<1>10. ScopesAreFunctions'
  <2>1. Lexical(scopes, d + 1 - 1, open[scopes[d + 1].frame].saved)
    BY <1>3, <1>4 DEF FunctionsMatch
  <2>2. Lexical(scopes, d, vars')
    BY <1>1, <1>4, <2>1
  <2>3. Lexical(scopes', d, vars')
    BY <1>4, <1>9, <2>2
  <2> QED
    BY <1>6, <2>3 DEF ScopesAreFunctions
<1>11. FunctionsMatch'
  <2>1. ASSUME NEW i \in 2 .. Len(scopes')
        PROVE  /\ scopes'[i].frame \in 1 .. Len(open')
               /\ open'[scopes'[i].frame].stmt = "Func"
               /\ Lexical(scopes', i - 1, open'[scopes'[i].frame].saved)
    <3>1. i \in 2 .. Len(scopes) /\ i < d + 1 /\ scopes'[i] = scopes[i] /\ i - 1 \in 0 .. d
      BY <1>2, <1>4, <1>6
    <3>2. /\ scopes[i].frame \in 1 .. Len(open)
          /\ open[scopes[i].frame].stmt = "Func"
          /\ Lexical(scopes, i - 1, open[scopes[i].frame].saved)
      BY <1>3, <3>1 DEF FunctionsMatch
    <3>3. scopes[i].frame < Len(open)
      <4>1. i \in 1 .. Len(scopes) /\ d + 1 \in 1 .. Len(scopes)
        BY <1>1, <1>4, <3>1
      <4> QED
        BY <1>3, <1>4, <3>1, <4>1 DEF FunctionsMatch
    <3>4. scopes[i].frame \in 1 .. n /\ open'[scopes[i].frame] = open[scopes[i].frame]
      <4>1. scopes[i].frame \in 1 .. n
        BY <1>1, <1>2, <3>2, <3>3
      <4> QED
        BY <1>5, <4>1
    <3>5. Lexical(scopes', i - 1, open[scopes[i].frame].saved)
      BY <1>9, <3>1, <3>2
    <3> QED
      BY <1>5, <3>1, <3>2, <3>4, <3>5
  <2>2. \A i, j \in 1 .. Len(scopes') : i < j => scopes'[i].frame < scopes'[j].frame
    <3>1. \A i \in 1 .. d : i \in 1 .. Len(scopes) /\ scopes'[i] = scopes[i]
      BY <1>2, <1>4, <1>6
    <3> QED
      BY <1>3, <1>6, <3>1 DEF FunctionsMatch
  <2>3. ASSUME NEW k \in 1 .. Len(open'), open'[k].stmt = "Func"
        PROVE  \E i \in 2 .. Len(scopes') : scopes'[i].frame = k
    <3>1. k \in 1 .. Len(open) /\ k # Len(open) /\ open[k].stmt = "Func"
      BY <1>1, <1>2, <1>5, <2>3
    <3>2. PICK i \in 2 .. Len(scopes) : scopes[i].frame = k
      BY <1>3, <3>1 DEF FunctionsMatch
    <3>3. i # d + 1
      BY <1>4, <3>1, <3>2
    <3>4. i \in 2 .. d
      BY <1>2, <1>4, <3>3
    <3> QED
      BY <1>4, <1>6, <3>2, <3>4
  <2>4. scopes'[1].frame = 0
    BY <1>3, <1>4, <1>6 DEF FunctionsMatch
  <2> QED
    BY <2>1, <2>2, <2>3, <2>4 DEF FunctionsMatch
<1> QED
  BY <1>7, <1>8, <1>10, <1>11 DEF CheckInv

\* A statement with a body begins.
LEMMA BeginKeeps ==
  ASSUME CheckInv, NEW frame \in Frames, frame.stmt # "Func", Push(frame),
         rejected' \in BOOLEAN, inRisk' \in BOOLEAN,
         inRisk' => inRisk \/ frame.stmt = "Mem",
         UNCHANGED <<vars, scopes>>
  PROVE  CheckInv'
<1>1. /\ open' \in Seq(Frames)
      /\ \A i \in 1 .. Len(open) : i \in 1 .. Len(open') /\ open'[i] = open[i]
      /\ open'[Len(open')] = frame /\ Len(open') = Len(open) + 1
      /\ ScopesAreFunctions' /\ FunctionsMatch'
  BY PushBlock
<1>2. Len(open') \in 1 .. Len(open')
  BY <1>1 DEF CheckInv, TypeOKCheck
<1>3. RiskNeedsMem'
  BY <1>1, <1>2 DEF CheckInv, RiskNeedsMem
<1> QED
  BY <1>1, <1>3 DEF CheckInv, TypeOKCheck

\* It ends; after that of a Mem the flag is not set.
LEMMA EndKeeps ==
  ASSUME CheckInv, NEW stmt, stmt # "Func", Pop(stmt),
         inRisk' \in BOOLEAN, inRisk' => inRisk /\ stmt # "Mem",
         UNCHANGED <<vars, rejected, scopes>>
  PROVE  CheckInv'
<1>1. /\ open' \in Seq(Frames)
      /\ open[Len(open)].stmt = stmt /\ Len(open) \in Nat \ {0}
      /\ Len(open') = Len(open) - 1
      /\ \A i \in 1 .. Len(open') : open'[i] = open[i]
      /\ ScopesAreFunctions' /\ FunctionsMatch'
  BY PopBlock
<1>2. RiskNeedsMem'
  <2> SUFFICES ASSUME inRisk'
               PROVE  \E i \in 1 .. Len(open') : open'[i].stmt = "Mem"
    BY DEF RiskNeedsMem
  <2>1. PICK i \in 1 .. Len(open) : open[i].stmt = "Mem"
    BY DEF CheckInv, RiskNeedsMem
  <2>2. i # Len(open)
    BY <1>1, <2>1
  <2> QED
    BY <1>1, <2>1, <2>2
<1> QED
  BY <1>1, <1>2 DEF CheckInv, TypeOKCheck

\* It goes on with another body, or with a share: what is open of it changes.
LEMMA ChangeKeeps ==
  ASSUME CheckInv, NEW frame \in Frames, frame.stmt # "Func",
         open # <<>>, open[Len(open)].stmt \notin {"Func", "Mem"},
         open' = [open EXCEPT ![Len(open)] = frame],
         rejected' \in BOOLEAN, UNCHANGED <<vars, inRisk, scopes>>
  PROVE  CheckInv'
<1>1. /\ open' \in Seq(Frames)
      /\ Len(open') = Len(open)
      /\ \A i \in 1 .. Len(open) : open'[i] = IF i = Len(open) THEN frame ELSE open[i]
      /\ ScopesAreFunctions' /\ FunctionsMatch'
  BY ChangeBlock
<1>2. RiskNeedsMem'
  <2> SUFFICES ASSUME inRisk
               PROVE  \E i \in 1 .. Len(open') : open'[i].stmt = "Mem"
    BY DEF RiskNeedsMem
  <2>1. PICK i \in 1 .. Len(open) : open[i].stmt = "Mem"
    BY DEF CheckInv, RiskNeedsMem
  <2>2. i # Len(open)
    BY <2>1
  <2> QED
    BY <1>1, <2>1, <2>2
<1> QED
  BY <1>1, <1>2 DEF CheckInv, TypeOKCheck

\* A statement that only the list of errors can tell.
LEMMA PlainKeeps ==
  ASSUME CheckInv, rejected' \in BOOLEAN, UNCHANGED <<vars, inRisk, open, scopes>>
  PROVE  CheckInv'
BY DEF CheckInv, TypeOKCheck, ScopesAreFunctions, RiskNeedsMem, FunctionsMatch

(***************************************************************************)
(* The invariant.                                                          *)
(***************************************************************************)

\* Before the program nothing is declared and nothing is open.
LEMMA CheckInvInit ==
  ASSUME InitCheck
  PROVE  CheckInv
<1> DEFINE top == [names |-> NoNames, frame |-> 0]
<1>1. /\ vars = NoNames /\ inRisk = FALSE /\ rejected = FALSE /\ open = <<>>
      /\ scopes = <<top>>
  BY DEF InitCheck
<1>2. NoNames \in Maps /\ \A n \in Names : NoNames[n] = Undeclared
  BY DEF NoNames, Maps
<1>3. /\ scopes \in Seq(Scopes) /\ scopes # <<>> /\ Len(scopes) = 1
      /\ scopes[1].names = NoNames /\ scopes[1].frame = 0
  <2>1. top \in Scopes /\ top.names = NoNames /\ top.frame = 0
    BY <1>2 DEF Scopes
  <2> HIDE DEF top
  <2>2. <<top>> \in Seq(Scopes) /\ <<top>> # <<>> /\ Len(<<top>>) = 1 /\ <<top>>[1] = top
    BY <2>1
  <2> QED
    BY <1>1, <2>1, <2>2
<1>4. TypeOKCheck
  <2>1. <<>> \in Seq(Frames)
    OBVIOUS
  <2>2. open \in Seq(Frames)
    BY <1>1, <2>1
  <2>3. vars \in Maps /\ inRisk \in BOOLEAN /\ rejected \in BOOLEAN
    BY <1>1, <1>2
  <2> QED
    BY <1>3, <2>2, <2>3 DEF TypeOKCheck
<1>5. ScopesAreFunctions
  <2>1. ASSUME NEW i \in 1 .. 1, NEW n \in Names
        PROVE  scopes[i].names[n] = Undeclared
    <3>1. i = 1
      OBVIOUS
    <3>2. NoNames[n] = Undeclared
      BY <1>2
    <3> QED
      BY <1>3, <3>1, <3>2
  <2>2. \A n \in Names : vars[n] = Undeclared
    BY <1>1, <1>2
  <2>3. \A n \in Names : Sees(scopes, 1, n, vars[n])
    BY <2>1, <2>2 DEF Sees
  <2> QED
    BY <1>3, <2>3 DEF ScopesAreFunctions, Lexical
<1>6. RiskNeedsMem
  BY <1>1 DEF RiskNeedsMem
<1>7. FunctionsMatch
  BY <1>1, <1>3 DEF FunctionsMatch
<1> QED
  BY <1>4, <1>5, <1>6, <1>7 DEF CheckInv

\* Every statement keeps it.
LEMMA CheckInvNext ==
  ASSUME CheckInv, [NextCheck]_checkVars
  PROVE  CheckInv'
<1>1. ASSUME NEW n \in Names, NEW t \in Types, NEW e \in Exprs, CheckVariable(n, t, e)
      PROVE  CheckInv'
  BY <1>1, DeclareKeeps DEF CheckVariable, RejectIf
<1>2. ASSUME NEW n \in Names, NEW t \in Types, NEW e \in Exprs, CheckMutation(n, t, e)
      PROVE  CheckInv'
  BY <1>2, PlainKeeps DEF CheckMutation, RejectIf
<1>3. ASSUME NEW e \in Exprs, CheckExprStatement(e)
      PROVE  CheckInv'
  BY <1>3, PlainKeeps DEF CheckExprStatement, RejectIf
<1>4. ASSUME NEW n \in Names, CheckAwait(n)
      PROVE  CheckInv'
  BY <1>4, PlainKeeps DEF CheckAwait, RejectIf
<1>5. ASSUME NEW n \in Names, CheckShare(n)
      PROVE  CheckInv'
  <2>1. CASE Inside("Async")
    <3> DEFINE top == open[Len(open)]
               frame == [top EXCEPT !.unseen = @ \ {n}]
    <3>1. /\ open \in Seq(Frames) /\ open # <<>> /\ top.stmt = "Async"
      BY <2>1 DEF Inside, CheckInv, TypeOKCheck
    <3>2. top \in Frames
      BY <3>1
    <3>3. frame \in Frames /\ frame.stmt = "Async"
      BY <3>1, <3>2 DEF Frames
    <3>4. open' = [open EXCEPT ![Len(open)] = frame]
      BY <1>5, <2>1 DEF CheckShare
    <3>5. rejected' \in BOOLEAN /\ UNCHANGED <<vars, inRisk, scopes>>
      BY <1>5 DEF CheckShare, RejectIf
    <3> HIDE DEF frame
    <3> QED
      BY <3>1, <3>3, <3>4, <3>5, ChangeKeeps
  <2>2. CASE ~Inside("Async")
    BY <1>5, <2>2, PlainKeeps DEF CheckShare, RejectIf
  <2> QED
    BY <2>1, <2>2
<1>6. ASSUME NEW params \in Parameters, FuncBegin(params)
      PROVE  CheckInv'
  BY <1>6, FuncBeginKeeps
<1>7. ASSUME NEW left \in Operands, NEW right \in Operands, IfBegin(left, right)
      PROVE  CheckInv'
  <2>1. /\ Block("IfTrue") \in Frames /\ Block("IfTrue").stmt # "Func"
        /\ inRisk \in BOOLEAN
    BY BlockType DEF Blocks, CheckInv, TypeOKCheck
  <2> QED
    BY <1>7, <2>1, BeginKeeps DEF IfBegin, RejectIf
<1>8. ASSUME NEW stmt \in {"Loop", "Error"}, BlockBegin(stmt)
      PROVE  CheckInv'
  <2>1. /\ Block(stmt) \in Frames /\ Block(stmt).stmt # "Func"
        /\ inRisk \in BOOLEAN /\ rejected \in BOOLEAN
    BY BlockType DEF Blocks, CheckInv, TypeOKCheck
  <2> QED
    BY <1>8, <2>1, BeginKeeps DEF BlockBegin
<1>9. ASSUME NEW stmt \in {"Loop", "Error", "IfFalse", "Async"}, BlockEnd(stmt)
      PROVE  CheckInv'
  <2>1. inRisk \in BOOLEAN /\ stmt # "Func" /\ stmt # "Mem"
    BY DEF CheckInv, TypeOKCheck
  <2> QED
    BY <1>9, <2>1, EndKeeps DEF BlockEnd
<1>10. ASSUME NEW shares \in SUBSET Names, AsyncBegin(shares)
       PROVE  CheckInv'
  <2> DEFINE frame == [Block("Async") EXCEPT !.shares = shares, !.unseen = shares]
  <2>1. /\ frame \in Frames /\ frame.stmt = "Async"
    BY DEF Block, Blocks, Frames, Maps, NoNames
  <2>2. inRisk \in BOOLEAN /\ rejected \in BOOLEAN
    BY DEF CheckInv, TypeOKCheck
  <2>3. Push(frame) /\ UNCHANGED <<vars, inRisk, rejected, scopes>>
    BY <1>10 DEF AsyncBegin
  <2> HIDE DEF frame
  <2> QED
    BY <2>1, <2>2, <2>3, BeginKeeps
<1>11. ASSUME FuncEnd
       PROVE  CheckInv'
  BY <1>11, FuncEndRestores
<1>12. ASSUME IfElse
       PROVE  CheckInv'
  <2> DEFINE top == open[Len(open)]
             frame == [top EXCEPT !.stmt = "IfFalse"]
  <2>1. /\ open \in Seq(Frames) /\ open # <<>> /\ top.stmt = "IfTrue"
    BY <1>12 DEF IfElse, Inside, CheckInv, TypeOKCheck
  <2>2. top \in Frames
    BY <2>1
  <2>3. frame \in Frames /\ frame.stmt = "IfFalse"
    BY <2>2 DEF Frames, Blocks
  <2>4. open' = [open EXCEPT ![Len(open)] = frame]
    BY <1>12 DEF IfElse
  <2>5. rejected' \in BOOLEAN /\ UNCHANGED <<vars, inRisk, scopes>>
    BY <1>12 DEF IfElse, CheckInv, TypeOKCheck
  <2> HIDE DEF frame
  <2> QED
    BY <2>1, <2>3, <2>4, <2>5, ChangeKeeps
<1>13. ASSUME MemBegin
       PROVE  CheckInv'
  <2>1. /\ Block("Mem") \in Frames /\ Block("Mem").stmt = "Mem"
        /\ rejected \in BOOLEAN
    BY BlockType DEF Blocks, CheckInv, TypeOKCheck
  <2> QED
    BY <1>13, <2>1, BeginKeeps DEF MemBegin
<1>14. ASSUME MemEnd
       PROVE  CheckInv'
  BY <1>14, EndKeeps DEF MemEnd
<1>15. CASE UNCHANGED checkVars
  BY <1>15, PlainKeeps DEF checkVars, CheckInv, TypeOKCheck
<1> QED
  BY <1>1, <1>2, <1>3, <1>4, <1>5, <1>6, <1>7, <1>8, <1>9, <1>10, <1>11, <1>12,
     <1>13, <1>14, <1>15 DEF NextCheck, AsyncEnd

\* The invariant holds in every program that the checker walks.
THEOREM CheckInvAlways == SpecCheck => []CheckInv
<1>1. InitCheck => CheckInv
  BY CheckInvInit
<1>2. CheckInv /\ [NextCheck]_checkVars => CheckInv'
  BY CheckInvNext
<1> QED
  BY <1>1, <1>2, PTL DEF SpecCheck

\* The state of the checker keeps its shape, whatever the program.
THEOREM TypeCorrectCheck == SpecCheck => []TypeOKCheck
<1>1. CheckInv => TypeOKCheck
  BY DEF CheckInv
<1> QED
  BY <1>1, CheckInvAlways, PTL

\* For all names, types and values, and every nesting of functions and blocks,
\* the checker's map is what lexical scoping by functions says.
THEOREM ScopesCorrect == SpecCheck => []ScopesAreFunctions
<1>1. CheckInv => ScopesAreFunctions
  BY DEF CheckInv
<1> QED
  BY <1>1, CheckInvAlways, PTL

\* In no program does the risk flag outlive the last risk block around.
THEOREM RiskCorrect == SpecCheck => []RiskNeedsMem
<1>1. CheckInv => RiskNeedsMem
  BY DEF CheckInv
<1> QED
  BY <1>1, CheckInvAlways, PTL

(***************************************************************************)
(* Labels.  JumpsAreRight is not inductive.  An activation owes the labels  *)
(* that the text jumps to and that its end still has to place; they are     *)
(* unplaced, no other activation owes them, and every label jumped to is    *)
(* placed or owed.  A loop keeps the labels of the loop around it.          *)
(***************************************************************************)
TypeMaps == [Names -> Types \union {NoType}]
FuncActivations == [node : {"Func"}, saved : TypeMaps]
IfActivations == [node : {"IfTrue", "IfFalse"}, false : Labels, end : Labels]
LoopActivations == [node : {"Loop"}, start : Labels, end : Labels,
                    savedBreak : 0 .. MaxLabels, savedContinue : 0 .. MaxLabels]
Activations == FuncActivations \union IfActivations \union LoopActivations

GenTypes ==
  /\ varTypes \in TypeMaps
  /\ labelIdx \in 0 .. MaxLabels
  /\ breakLabel \in 0 .. MaxLabels
  /\ continueLabel \in 0 .. MaxLabels
  /\ pending \in Seq(Activations)
  /\ placed \in [Labels -> Nat]
  /\ jumped \subseteq Labels

\* The activation a has to place the label l.
Owes(a, l) ==
  \/ a.node = "IfTrue" /\ l \in {a.false, a.end}
  \/ a.node \in {"IfFalse", "Loop"} /\ l = a.end

OutermostFunc == \A i \in 1 .. Len(pending) : pending[i].node = "Func" => i = 1

\* Labels are placed once, those that were not made never.
PlacedOnce ==
  \A l \in Labels : placed[l] <= 1 /\ (l > labelIdx => placed[l] = 0)

OwedLabels ==
  \A i \in 1 .. Len(pending), l \in Labels :
    Owes(pending[i], l) =>
      /\ l <= labelIdx /\ placed[l] = 0
      /\ \A j \in 1 .. Len(pending) : Owes(pending[j], l) => j = i

FalseIsNotEnd ==
  \A i \in 1 .. Len(pending) :
    pending[i].node = "IfTrue" => pending[i].false # pending[i].end

JumpedLabels ==
  \A l \in jumped :
    placed[l] = 1 \/ \E i \in 1 .. Len(pending) : Owes(pending[i], l)

StartsPlaced ==
  \A i \in 1 .. Len(pending) :
    pending[i].node = "Loop" => placed[pending[i].start] = 1

\* Of the first d activations of p, the innermost loop has the labels b and c.
Innermost(p, d, b, c) ==
  \/ /\ \A i \in 1 .. d : p[i].node # "Loop"
     /\ b = NoLabel /\ c = NoLabel
  \/ \E i \in 1 .. d : /\ p[i].node = "Loop"
                       /\ \A j \in i + 1 .. d : p[j].node # "Loop"
                       /\ b = p[i].end /\ c = p[i].start

LoopsChain ==
  /\ Innermost(pending, Len(pending), breakLabel, continueLabel)
  /\ \A k \in 1 .. Len(pending) :
       pending[k].node = "Loop" =>
         Innermost(pending, k - 1, pending[k].savedBreak, pending[k].savedContinue)

LabelsInv ==
  /\ OutermostFunc /\ PlacedOnce /\ OwedLabels /\ FalseIsNotEnd
  /\ JumpedLabels /\ StartsPlaced

GenInv == GenTypes /\ LabelsInv /\ LoopsChain

\* What is innermost depends on the first d activations only.
LEMMA InnermostSame ==
  ASSUME NEW p, NEW q, NEW d, NEW b, NEW c,
         \A i \in 1 .. d : /\ (p[i].node = "Loop") <=> (q[i].node = "Loop")
                           /\ p[i].node = "Loop" => p[i] = q[i],
         Innermost(p, d, b, c)
  PROVE  Innermost(q, d, b, c)
<1>1. CASE \A i \in 1 .. d : p[i].node # "Loop"
  BY <1>1 DEF Innermost
<1>2. CASE \E i \in 1 .. d : p[i].node = "Loop"
  <2>1. PICK i \in 1 .. d : /\ p[i].node = "Loop"
                            /\ \A j \in i + 1 .. d : p[j].node # "Loop"
                            /\ b = p[i].end /\ c = p[i].start
    BY <1>2 DEF Innermost
  <2>2. q[i].node = "Loop" /\ b = q[i].end /\ c = q[i].start
    BY <2>1
  <2>3. ASSUME NEW j \in i + 1 .. d
        PROVE  q[j].node # "Loop"
    BY <2>1
  <2> QED
    BY <2>2, <2>3 DEF Innermost
<1> QED
  BY <1>1, <1>2

\* An activation that is no loop changes nothing on top of d others, and a
\* loop is the innermost one.
LEMMA InnermostPush ==
  ASSUME NEW p, NEW d \in Nat, NEW b, NEW c
  PROVE  /\ p[d + 1].node # "Loop" /\ Innermost(p, d, b, c) => Innermost(p, d + 1, b, c)
         /\ p[d + 1].node # "Loop" /\ Innermost(p, d + 1, b, c) => Innermost(p, d, b, c)
         /\ p[d + 1].node = "Loop" => Innermost(p, d + 1, p[d + 1].end, p[d + 1].start)
<1>1. ASSUME p[d + 1].node # "Loop", Innermost(p, d, b, c)
      PROVE  Innermost(p, d + 1, b, c)
  BY <1>1 DEF Innermost
<1>2. ASSUME p[d + 1].node # "Loop", Innermost(p, d + 1, b, c)
      PROVE  Innermost(p, d, b, c)
  BY <1>2 DEF Innermost
<1>3. ASSUME p[d + 1].node = "Loop"
      PROVE  Innermost(p, d + 1, p[d + 1].end, p[d + 1].start)
  BY <1>3 DEF Innermost
<1> QED
  BY <1>1, <1>2, <1>3

\* The kinds of activations are told apart by their node.
LEMMA ActivationKinds ==
  ASSUME NEW a \in Activations
  PROVE  /\ a.node \in {"Func", "IfTrue", "IfFalse", "Loop"}
         /\ a.node = "Func" => a \in FuncActivations
         /\ a.node \in {"IfTrue", "IfFalse"} => a \in IfActivations
         /\ a.node = "Loop" => a \in LoopActivations
BY DEF Activations, FuncActivations, IfActivations, LoopActivations

\* The innermost activation, and what the ends of bodies leave.
LEMMA LeaveActivation ==
  ASSUME GenTypes, pending # <<>>, Leave, NEW d, d = Len(pending) - 1
  PROVE  /\ d \in Nat /\ Len(pending) = d + 1 /\ Len(pending') = d
         /\ Top = pending[d + 1] /\ Top \in Activations
         /\ pending' \in Seq(Activations)
         /\ \A i \in 1 .. d : pending'[i] = pending[i]
<1>1. pending \in Seq(Activations)
  BY DEF GenTypes
<1>2. pending' = SubSeq(pending, 1, d)
  BY DEF Leave
<1>3. /\ pending' \in Seq(Activations) /\ Len(pending') = d
      /\ \A i \in 1 .. d : pending'[i] = pending[i]
      /\ Len(pending) \in Nat \ {0}
  BY <1>1, <1>2, DropLast
<1> QED
  BY <1>1, <1>3 DEF Top

\* An activation begins.
LEMMA EnterActivation ==
  ASSUME GenTypes, NEW a \in Activations, Enter(a), NEW d, d = Len(pending)
  PROVE  /\ d \in Nat /\ Len(pending') = d + 1
         /\ pending' \in Seq(Activations)
         /\ pending'[d + 1] = a
         /\ \A i \in 1 .. d : pending'[i] = pending[i]
<1>1. pending \in Seq(Activations) /\ pending' = Append(pending, a)
  BY DEF GenTypes, Enter
<1> QED
  BY <1>1

\* A new loop, or another activation, keeps the chain of loops.
LEMMA LoopsChainEnter ==
  ASSUME GenTypes, LoopsChain, NEW a \in Activations, Enter(a),
         \/ /\ a.node # "Loop"
            /\ UNCHANGED <<breakLabel, continueLabel>>
         \/ /\ a.node = "Loop"
            /\ a.savedBreak = breakLabel /\ a.savedContinue = continueLabel
            /\ breakLabel' = a.end /\ continueLabel' = a.start
  PROVE  LoopsChain'
<1> DEFINE d == Len(pending)
<1>1. /\ d \in Nat /\ Len(pending') = d + 1 /\ pending'[d + 1] = a
      /\ \A i \in 1 .. d : pending'[i] = pending[i]
  BY EnterActivation
<1>2. /\ Innermost(pending, d, breakLabel, continueLabel)
      /\ \A k \in 1 .. d :
           pending[k].node = "Loop" =>
             Innermost(pending, k - 1, pending[k].savedBreak, pending[k].savedContinue)
  BY DEF LoopsChain
<1> HIDE DEF d
<1>3. Innermost(pending', d, breakLabel, continueLabel)
  BY <1>1, <1>2, InnermostSame
<1>4. Innermost(pending', d + 1, breakLabel', continueLabel')
  BY <1>1, <1>3, InnermostPush
<1>5. ASSUME NEW k \in 1 .. d + 1, pending'[k].node = "Loop"
      PROVE  Innermost(pending', k - 1, pending'[k].savedBreak, pending'[k].savedContinue)
  <2>1. CASE k = d + 1
    BY <1>1, <1>3, <1>5, <2>1
  <2>2. CASE k \in 1 .. d
    <3>1. Innermost(pending, k - 1, pending[k].savedBreak, pending[k].savedContinue)
      BY <1>1, <1>2, <1>5, <2>2
    <3>2. \A i \in 1 .. k - 1 : pending'[i] = pending[i]
      BY <1>1, <2>2
    <3>3. Innermost(pending', k - 1, pending[k].savedBreak, pending[k].savedContinue)
      BY <3>1, <3>2, InnermostSame
    <3> QED
      BY <1>1, <2>2, <3>3
  <2> QED
    BY <1>1, <2>1, <2>2
<1> QED
  BY <1>1, <1>4, <1>5 DEF LoopsChain

\* An activation ends; a loop puts back the labels around it.
LEMMA LoopsChainLeave ==
  ASSUME GenTypes, LoopsChain, pending # <<>>, Leave,
         \/ /\ Top.node # "Loop"
            /\ UNCHANGED <<breakLabel, continueLabel>>
         \/ /\ Top.node = "Loop"
            /\ breakLabel' = Top.savedBreak /\ continueLabel' = Top.savedContinue
  PROVE  LoopsChain'
<1> DEFINE d == Len(pending) - 1
<1>1. /\ d \in Nat /\ Len(pending) = d + 1 /\ Len(pending') = d
      /\ Top = pending[d + 1]
      /\ \A i \in 1 .. d : pending'[i] = pending[i]
  BY LeaveActivation
<1>2. /\ Innermost(pending, d + 1, breakLabel, continueLabel)
      /\ \A k \in 1 .. d + 1 :
           pending[k].node = "Loop" =>
             Innermost(pending, k - 1, pending[k].savedBreak, pending[k].savedContinue)
  BY <1>1 DEF LoopsChain
<1> HIDE DEF d
<1>3. Innermost(pending, d, breakLabel', continueLabel')
  <2>1. CASE Top.node # "Loop"
    BY <1>1, <1>2, <2>1, InnermostPush
  <2>2. CASE Top.node = "Loop"
    <3>1. d + 1 \in 1 .. d + 1 /\ (d + 1) - 1 = d
      BY <1>1
    <3> QED
      BY <1>1, <1>2, <2>2, <3>1
  <2> QED
    BY <2>1, <2>2
<1>4. Innermost(pending', d, breakLabel', continueLabel')
  BY <1>1, <1>3, InnermostSame
<1>5. ASSUME NEW k \in 1 .. d, pending'[k].node = "Loop"
      PROVE  Innermost(pending', k - 1, pending'[k].savedBreak, pending'[k].savedContinue)
  <2>1. Innermost(pending, k - 1, pending[k].savedBreak, pending[k].savedContinue)
    BY <1>1, <1>2, <1>5
  <2>2. \A i \in 1 .. k - 1 : pending'[i] = pending[i]
    BY <1>1
  <2>3. Innermost(pending', k - 1, pending[k].savedBreak, pending[k].savedContinue)
    BY <2>1, <2>2, InnermostSame
  <2> QED
    BY <1>1, <2>3
<1> QED
  BY <1>1, <1>4, <1>5 DEF LoopsChain


\* Three new labels are labels of the program.
LEMMA MadeLabels ==
  ASSUME GenTypes, NewLabels(3)
  PROVE  /\ labelIdx \in Nat /\ labelIdx' = labelIdx + 3 /\ labelIdx' \in 0 .. MaxLabels
         /\ \A k \in 1 .. 3 : labelIdx + k \in Labels
BY LabelsAssumption DEF GenTypes, NewLabels, Labels

\* genIf up to the True body.
LEMMA GenIfKeeps ==
  ASSUME GenInv, NEW left, NEW right, GenIf(left, right)
  PROVE  GenInv'
<1> DEFINE t == labelIdx + 1
           f == labelIdx + 2
           e == labelIdx + 3
           a == [node |-> "IfTrue", false |-> f, end |-> e]
           d == Len(pending)
<1>1. GenTypes /\ LabelsInv /\ LoopsChain
  BY DEF GenInv
<1>2. /\ labelIdx \in Nat /\ labelIdx' = e /\ labelIdx' \in 0 .. MaxLabels
      /\ t \in Labels /\ f \in Labels /\ e \in Labels
      /\ t # f /\ f # e /\ t # e
      /\ t > labelIdx /\ f > labelIdx /\ e > labelIdx
      /\ t <= e /\ f <= e
  BY <1>1, MadeLabels DEF GenIf
<1>3. /\ Enter(a) /\ jumped' = jumped \union {t, f}
      /\ placed' = [placed EXCEPT ![t] = @ + 1]
      /\ UNCHANGED <<varTypes, breakLabel, continueLabel>>
  BY DEF GenIf, JumpTo, Place
<1>4. a \in Activations /\ a.node = "IfTrue" /\ a.false = f /\ a.end = e
  BY <1>2 DEF Activations, IfActivations
<1> HIDE DEF a
<1>5. /\ d \in Nat /\ Len(pending') = d + 1
      /\ pending' \in Seq(Activations)
      /\ pending'[d + 1] = a
      /\ \A i \in 1 .. d : pending'[i] = pending[i]
  BY <1>1, <1>3, <1>4, EnterActivation
<1>6. LoopsChain'
  BY <1>1, <1>3, <1>4, LoopsChainEnter
<1>7. GenTypes'
  BY <1>1, <1>2, <1>3, <1>5 DEF GenTypes
<1>8. /\ placed'[t] = 1
      /\ \A l \in Labels : l # t => placed'[l] = placed[l]
  BY <1>1, <1>2, <1>3 DEF GenTypes, LabelsInv, PlacedOnce
<1> HIDE DEF t, f, e, d
<1>9. LabelsInv'
  <2>1. OutermostFunc'
    BY <1>1, <1>4, <1>5 DEF LabelsInv, OutermostFunc, d
  <2>2. PlacedOnce'
    BY <1>1, <1>2, <1>8 DEF LabelsInv, PlacedOnce, Labels
  <2>3. \A l \in Labels : Owes(a, l) <=> l \in {f, e}
    BY <1>4 DEF Owes
  <2>4. OwedLabels'
    <3>1. ASSUME NEW i \in 1 .. d, NEW l \in Labels, Owes(pending[i], l)
          PROVE  l <= labelIdx /\ l # t /\ ~Owes(a, l)
      <4>1. l <= labelIdx
        BY <1>1, <3>1 DEF LabelsInv, OwedLabels, d
      <4>2. l # t /\ l # f /\ l # e
        BY <1>2, <4>1 DEF Labels
      <4> QED
        BY <2>3, <4>1, <4>2
    <3>2. \A l \in Labels : Owes(a, l) => placed[l] = 0 /\ l # t /\ l <= e
      BY <1>1, <1>2, <2>3 DEF LabelsInv, PlacedOnce
    <3>3. ASSUME NEW i \in 1 .. d + 1, NEW l \in Labels, Owes(pending'[i], l)
          PROVE  /\ l <= labelIdx' /\ placed'[l] = 0
                 /\ \A j \in 1 .. d + 1 : Owes(pending'[j], l) => j = i
      <4>1. CASE i = d + 1
        <5>1. Owes(a, l)
          BY <1>5, <3>3, <4>1
        <5>2. l <= labelIdx' /\ placed'[l] = 0
          BY <1>2, <1>8, <3>2, <5>1
        <5>3. \A j \in 1 .. d : ~Owes(pending'[j], l)
          BY <1>5, <3>1, <5>1
        <5> QED
          BY <1>5, <4>1, <5>2, <5>3
      <4>2. CASE i \in 1 .. d
        <5>1. l <= labelIdx /\ l # t /\ ~Owes(a, l) /\ Owes(pending[i], l)
          BY <1>5, <3>1, <3>3, <4>2
        <5>2. placed[l] = 0 /\ \A j \in 1 .. d : Owes(pending[j], l) => j = i
          BY <1>1, <4>2, <5>1 DEF LabelsInv, OwedLabels, d
        <5> QED
          BY <1>2, <1>5, <1>8, <5>1, <5>2 DEF Labels
      <4> QED
        BY <1>5, <4>1, <4>2
    <3> QED
      BY <1>5, <3>3 DEF OwedLabels
  <2>5. FalseIsNotEnd'
    BY <1>1, <1>2, <1>4, <1>5 DEF LabelsInv, FalseIsNotEnd, d
  <2>6. JumpedLabels'
    <3>1. ASSUME NEW l \in jumped
          PROVE  placed'[l] = 1 \/ \E i \in 1 .. d + 1 : Owes(pending'[i], l)
      BY <1>1, <1>5, <1>8 DEF LabelsInv, JumpedLabels, GenTypes, d
    <3>2. placed'[t] = 1 /\ Owes(pending'[d + 1], f)
      BY <1>2, <1>5, <1>8, <2>3
    <3> QED
      BY <1>3, <1>5, <3>1, <3>2 DEF JumpedLabels
  <2>7. StartsPlaced'
    <3>1. ASSUME NEW i \in 1 .. d, pending[i].node = "Loop"
          PROVE  pending[i].start # t /\ pending[i].start \in Labels /\ placed[pending[i].start] = 1
      <4>1. pending[i] \in LoopActivations
        BY <1>1, <1>5, <3>1, ActivationKinds DEF GenTypes, d
      <4> QED
        BY <1>1, <1>2, <3>1, <4>1 DEF LabelsInv, StartsPlaced, PlacedOnce, LoopActivations, d
    <3> QED
      BY <1>4, <1>5, <1>8, <3>1 DEF StartsPlaced
  <2> QED
    BY <2>1, <2>2, <2>4, <2>5, <2>6, <2>7 DEF LabelsInv
<1> QED
  BY <1>6, <1>7, <1>9 DEF GenInv

\* genLoop up to the body.
LEMMA GenLoopKeeps ==
  ASSUME GenInv, NEW left, NEW right, GenLoop(left, right)
  PROVE  GenInv'
<1> DEFINE s == labelIdx + 1
           b == labelIdx + 2
           e == labelIdx + 3
           a == [node |-> "Loop", start |-> s, end |-> e,
                 savedBreak |-> breakLabel, savedContinue |-> continueLabel]
           d == Len(pending)
<1>1. GenTypes /\ LabelsInv /\ LoopsChain
  BY DEF GenInv
<1>2. /\ labelIdx \in Nat /\ labelIdx' = e /\ labelIdx' \in 0 .. MaxLabels
      /\ s \in Labels /\ b \in Labels /\ e \in Labels
      /\ s # b /\ b # e /\ s # e
      /\ s > labelIdx /\ b > labelIdx /\ e > labelIdx
      /\ s <= e /\ b <= e
  BY <1>1, MadeLabels DEF GenLoop
<1>3. /\ Enter(a) /\ jumped' = jumped \union {b, e}
      /\ placed' = [placed EXCEPT ![s] = @ + 1, ![b] = @ + 1]
      /\ breakLabel' = e /\ continueLabel' = s
      /\ UNCHANGED varTypes
  BY DEF GenLoop, JumpTo
<1>4. /\ a \in Activations /\ a.node = "Loop" /\ a.start = s /\ a.end = e
      /\ a.savedBreak = breakLabel /\ a.savedContinue = continueLabel
  BY <1>1, <1>2 DEF Activations, LoopActivations, GenTypes
<1> HIDE DEF a
<1>5. /\ d \in Nat /\ Len(pending') = d + 1
      /\ pending' \in Seq(Activations)
      /\ pending'[d + 1] = a
      /\ \A i \in 1 .. d : pending'[i] = pending[i]
  BY <1>1, <1>3, <1>4, EnterActivation
<1>6. LoopsChain'
  BY <1>1, <1>3, <1>4, LoopsChainEnter
<1>7. GenTypes'
  <2>1. breakLabel' \in 0 .. MaxLabels /\ continueLabel' \in 0 .. MaxLabels
    BY <1>2, <1>3, LabelsAssumption DEF Labels
  <2>2. placed' \in [Labels -> Nat] /\ jumped' \subseteq Labels
    BY <1>1, <1>2, <1>3 DEF GenTypes
  <2> QED
    BY <1>1, <1>2, <1>3, <1>5, <2>1, <2>2 DEF GenTypes
<1>8. /\ placed'[s] = 1 /\ placed'[b] = 1
      /\ \A l \in Labels : l # s /\ l # b => placed'[l] = placed[l]
  <2>1. placed \in [Labels -> Nat] /\ placed[s] = 0 /\ placed[b] = 0
    BY <1>1, <1>2 DEF GenTypes, LabelsInv, PlacedOnce
  <2> QED
    BY <1>2, <1>3, <2>1
<1> HIDE DEF s, b, e, d
<1>9. LabelsInv'
  <2>1. OutermostFunc'
    BY <1>1, <1>4, <1>5 DEF LabelsInv, OutermostFunc, d
  <2>2. PlacedOnce'
    BY <1>1, <1>2, <1>8 DEF LabelsInv, PlacedOnce, Labels
  <2>3. \A l \in Labels : Owes(a, l) <=> l = e
    BY <1>4 DEF Owes
  <2>4. OwedLabels'
    <3>1. ASSUME NEW i \in 1 .. d, NEW l \in Labels, Owes(pending[i], l)
          PROVE  l <= labelIdx /\ l # s /\ l # b /\ ~Owes(a, l)
      <4>1. l <= labelIdx
        BY <1>1, <3>1 DEF LabelsInv, OwedLabels, d
      <4>2. l # s /\ l # b /\ l # e
        BY <1>2, <4>1 DEF Labels
      <4> QED
        BY <2>3, <4>1, <4>2
    <3>2. \A l \in Labels : Owes(a, l) => placed[l] = 0 /\ l # s /\ l # b /\ l <= e
      BY <1>1, <1>2, <2>3 DEF LabelsInv, PlacedOnce
    <3>3. ASSUME NEW i \in 1 .. d + 1, NEW l \in Labels, Owes(pending'[i], l)
          PROVE  /\ l <= labelIdx' /\ placed'[l] = 0
                 /\ \A j \in 1 .. d + 1 : Owes(pending'[j], l) => j = i
      <4>1. CASE i = d + 1
        <5>1. Owes(a, l)
          BY <1>5, <3>3, <4>1
        <5>2. l <= labelIdx' /\ placed'[l] = 0
          BY <1>2, <1>8, <3>2, <5>1
        <5>3. \A j \in 1 .. d : ~Owes(pending'[j], l)
          BY <1>5, <3>1, <5>1
        <5> QED
          BY <1>5, <4>1, <5>2, <5>3
      <4>2. CASE i \in 1 .. d
        <5>1. /\ l <= labelIdx /\ l # s /\ l # b /\ ~Owes(a, l)
              /\ Owes(pending[i], l)
          BY <1>5, <3>1, <3>3, <4>2
        <5>2. placed[l] = 0 /\ \A j \in 1 .. d : Owes(pending[j], l) => j = i
          BY <1>1, <4>2, <5>1 DEF LabelsInv, OwedLabels, d
        <5> QED
          BY <1>2, <1>5, <1>8, <5>1, <5>2 DEF Labels
      <4> QED
        BY <1>5, <4>1, <4>2
    <3> QED
      BY <1>5, <3>3 DEF OwedLabels
  <2>5. FalseIsNotEnd'
    BY <1>1, <1>2, <1>4, <1>5 DEF LabelsInv, FalseIsNotEnd, d
  <2>6. JumpedLabels'
    <3>1. ASSUME NEW l \in jumped
          PROVE  placed'[l] = 1 \/ \E i \in 1 .. d + 1 : Owes(pending'[i], l)
      BY <1>1, <1>5, <1>8 DEF LabelsInv, JumpedLabels, GenTypes, d
    <3>2. placed'[b] = 1 /\ \E i \in 1 .. d + 1 : Owes(pending'[i], e)
      BY <1>2, <1>5, <1>8, <2>3
    <3>3. \A l \in jumped' : l \in jumped \/ l = b \/ l = e
      BY <1>3
    <3> QED
      BY <1>5, <3>1, <3>2, <3>3 DEF JumpedLabels
  <2>7. StartsPlaced'
    <3>1. ASSUME NEW i \in 1 .. d, pending[i].node = "Loop"
          PROVE  placed'[pending[i].start] = 1
      <4>1. pending[i] \in LoopActivations
        BY <1>1, <1>5, <3>1, ActivationKinds DEF GenTypes, d
      <4>2. pending[i].start \in Labels /\ placed[pending[i].start] = 1
        BY <1>1, <3>1, <4>1 DEF LabelsInv, StartsPlaced, LoopActivations, d
      <4> QED
        BY <1>8, <4>2
    <3>2. placed'[a.start] = 1
      BY <1>4, <1>8
    <3> QED
      BY <1>5, <3>1, <3>2 DEF StartsPlaced
  <2> QED
    BY <2>1, <2>2, <2>4, <2>5, <2>6, <2>7 DEF LabelsInv
<1> QED
  BY <1>6, <1>7, <1>9 DEF GenInv

\* The end of an if or a loop places the label that was owed; what it jumps
\* to has been placed.
LEMMA EndKeepsLabels ==
  ASSUME GenInv, pending # <<>>, Top.node \in {"IfFalse", "Loop"},
         Leave, Place(Top.end), UNCHANGED labelIdx,
         jumped \subseteq jumped', \A l \in jumped' \ jumped : placed[l] = 1,
         jumped' \subseteq Labels
  PROVE  LabelsInv' /\ placed' \in [Labels -> Nat] /\ pending' \in Seq(Activations)
<1> DEFINE d == Len(pending) - 1
           e == Top.end
<1>1. GenTypes /\ LabelsInv
  BY DEF GenInv
<1>2. /\ d \in Nat /\ Len(pending) = d + 1 /\ Len(pending') = d
      /\ Top = pending[d + 1] /\ Top \in Activations
      /\ pending' \in Seq(Activations)
      /\ \A i \in 1 .. d : pending'[i] = pending[i]
  BY <1>1, LeaveActivation
<1> HIDE DEF d
<1>3. e \in Labels
  BY <1>2, ActivationKinds DEF IfActivations, LoopActivations
<1>4. \A l \in Labels : Owes(Top, l) <=> l = e
  BY DEF Owes
<1>5. /\ e <= labelIdx /\ placed[e] = 0
      /\ \A i \in 1 .. d : ~Owes(pending[i], e)
  <2>1. d + 1 \in 1 .. Len(pending) /\ Owes(pending[d + 1], e)
    BY <1>2, <1>3, <1>4
  <2> QED
    BY <1>1, <1>2, <1>3, <2>1 DEF LabelsInv, OwedLabels
<1> HIDE DEF e
<1>6. /\ placed' \in [Labels -> Nat] /\ placed'[e] = 1
      /\ \A l \in Labels : l # e => placed'[l] = placed[l]
  <2>1. placed' = [placed EXCEPT ![e] = @ + 1]
    BY DEF Place, e
  <2>2. placed \in [Labels -> Nat]
    BY <1>1 DEF GenTypes
  <2> QED
    BY <1>3, <1>5, <2>1, <2>2
<1>7. OutermostFunc'
  <2>1. ASSUME NEW i \in 1 .. d, pending'[i].node = "Func"
        PROVE  i = 1
    BY <1>1, <1>2, <2>1 DEF LabelsInv, OutermostFunc
  <2> QED
    BY <1>2, <2>1 DEF OutermostFunc
<1>8. PlacedOnce'
  <2>1. ASSUME NEW l \in Labels
        PROVE  placed'[l] <= 1 /\ (l > labelIdx => placed'[l] = 0)
    <3>1. placed[l] <= 1 /\ (l > labelIdx => placed[l] = 0)
      BY <1>1 DEF LabelsInv, PlacedOnce
    <3>2. l = e => ~(l > labelIdx)
      BY <1>1, <1>3, <1>5 DEF GenTypes, Labels
    <3> QED
      BY <1>6, <3>1, <3>2
  <2> QED
    BY <2>1 DEF PlacedOnce
<1>9. OwedLabels'
  <2>1. ASSUME NEW i \in 1 .. d, NEW l \in Labels, Owes(pending'[i], l)
        PROVE  /\ l <= labelIdx' /\ placed'[l] = 0
               /\ \A j \in 1 .. d : Owes(pending'[j], l) => j = i
    <3>1. Owes(pending[i], l) /\ l # e
      BY <1>2, <1>5, <2>1
    <3>2. /\ l <= labelIdx /\ placed[l] = 0
          /\ \A j \in 1 .. d : Owes(pending[j], l) => j = i
      BY <1>1, <1>2, <3>1 DEF LabelsInv, OwedLabels
    <3> QED
      BY <1>2, <1>6, <3>1, <3>2
  <2> QED
    BY <1>2, <2>1 DEF OwedLabels
<1>10. FalseIsNotEnd'
  BY <1>1, <1>2 DEF LabelsInv, FalseIsNotEnd
<1>11. JumpedLabels'
  <2>1. ASSUME NEW l \in jumped'
        PROVE  placed'[l] = 1 \/ \E i \in 1 .. d : Owes(pending'[i], l)
    <3>1. l \in Labels
      OBVIOUS
    <3>2. placed[l] = 1 \/ \E i \in 1 .. d + 1 : Owes(pending[i], l)
      BY <1>1, <1>2 DEF LabelsInv, JumpedLabels
    <3>3. CASE l = e
      BY <1>6, <3>3
    <3>4. CASE l # e
      BY <1>2, <1>4, <1>6, <3>1, <3>2, <3>4
    <3> QED
      BY <3>3, <3>4
  <2> QED
    BY <1>2, <2>1 DEF JumpedLabels
<1>12. StartsPlaced'
  <2>1. ASSUME NEW i \in 1 .. d, pending[i].node = "Loop"
        PROVE  placed'[pending[i].start] = 1
    <3>1. pending[i] \in LoopActivations
      BY <1>1, <1>2, <2>1, ActivationKinds DEF GenTypes
    <3>2. pending[i].start \in Labels /\ placed[pending[i].start] = 1
      BY <1>1, <1>2, <2>1, <3>1 DEF LabelsInv, StartsPlaced, LoopActivations
    <3> QED
      BY <1>5, <1>6, <3>2
  <2> QED
    BY <1>2, <2>1 DEF StartsPlaced
<1> QED
  BY <1>2, <1>6, <1>7, <1>8, <1>9, <1>10, <1>11, <1>12 DEF LabelsInv

\* genIf after the False body.
LEMMA GenIfEndKeeps ==
  ASSUME GenInv, GenIfEnd
  PROVE  GenInv'
<1>1. GenTypes /\ LoopsChain
  BY DEF GenInv
<1>2. /\ pending # <<>> /\ Top.node = "IfFalse" /\ Leave /\ Place(Top.end)
      /\ UNCHANGED <<varTypes, labelIdx, breakLabel, continueLabel, jumped>>
  BY DEF GenIfEnd
<1>3. LabelsInv' /\ placed' \in [Labels -> Nat] /\ pending' \in Seq(Activations)
  BY <1>1, <1>2, EndKeepsLabels DEF GenTypes
<1>4. GenTypes'
  BY <1>1, <1>2, <1>3 DEF GenTypes
<1>5. LoopsChain'
  BY <1>1, <1>2, LoopsChainLeave
<1> QED
  BY <1>3, <1>4, <1>5 DEF GenInv

\* genLoop after the body.
LEMMA GenLoopEndKeeps ==
  ASSUME GenInv, GenLoopEnd
  PROVE  GenInv'
<1>1. GenTypes /\ LabelsInv /\ LoopsChain
  BY DEF GenInv
<1>2. /\ pending # <<>> /\ Top.node = "Loop" /\ Leave /\ Place(Top.end)
      /\ jumped' = jumped \union {Top.start}
      /\ breakLabel' = Top.savedBreak /\ continueLabel' = Top.savedContinue
      /\ UNCHANGED <<varTypes, labelIdx>>
  BY DEF GenLoopEnd, JumpTo
<1>3. /\ Top \in LoopActivations
      /\ Top = pending[Len(pending)] /\ Len(pending) \in 1 .. Len(pending)
  BY <1>1, <1>2, LeaveActivation, ActivationKinds
<1>4. /\ Top.start \in Labels /\ placed[Top.start] = 1
      /\ Top.savedBreak \in 0 .. MaxLabels /\ Top.savedContinue \in 0 .. MaxLabels
  BY <1>1, <1>2, <1>3 DEF LabelsInv, StartsPlaced, LoopActivations
<1>5. /\ jumped \subseteq jumped' /\ jumped' \subseteq Labels
      /\ \A l \in jumped' \ jumped : placed[l] = 1
  BY <1>1, <1>2, <1>4 DEF GenTypes
<1>6. LabelsInv' /\ placed' \in [Labels -> Nat] /\ pending' \in Seq(Activations)
  BY <1>2, <1>5, EndKeepsLabels
<1>7. GenTypes'
  BY <1>1, <1>2, <1>4, <1>5, <1>6 DEF GenTypes
<1>8. LoopsChain'
  BY <1>1, <1>2, LoopsChainLeave
<1> QED
  BY <1>6, <1>7, <1>8 DEF GenInv

\* genIf between the bodies.
LEMMA GenElseKeeps ==
  ASSUME GenInv, GenElse
  PROVE  GenInv'
<1> DEFINE d == Len(pending)
           a == [Top EXCEPT !.node = "IfFalse"]
           f == Top.false
           e == Top.end
<1>1. GenTypes /\ LabelsInv /\ LoopsChain
  BY DEF GenInv
<1>2. /\ pending # <<>> /\ Top.node = "IfTrue"
      /\ jumped' = jumped \union {e}
      /\ placed' = [placed EXCEPT ![f] = @ + 1]
      /\ UNCHANGED <<varTypes, labelIdx, breakLabel, continueLabel>>
  BY DEF GenElse, JumpTo, Place
<1>3. pending \in Seq(Activations) /\ d \in Nat \ {0} /\ Top = pending[d]
  BY <1>1, <1>2 DEF GenTypes, Top
<1>4. Top \in Activations
  BY <1>3
<1>5. Top \in IfActivations
  BY <1>2, <1>4, ActivationKinds
<1>6. f \in Labels /\ e \in Labels
  BY <1>5 DEF IfActivations
<1>7. /\ a \in Activations
      /\ a.node = "IfFalse" /\ a.end = e
  BY <1>5 DEF IfActivations, Activations
<1>8. pending' = [pending EXCEPT ![d] = a]
  BY DEF GenElse, Top
<1> HIDE DEF a
<1>9. /\ pending' \in Seq(Activations) /\ Len(pending') = d /\ pending'[d] = a
      /\ \A i \in 1 .. d : i # d => pending'[i] = pending[i]
  BY <1>3, <1>7, <1>8
<1>10. /\ \A l \in Labels : Owes(Top, l) <=> l \in {f, e}
       /\ \A l \in Labels : Owes(a, l) <=> l = e
       /\ f # e
  BY <1>1, <1>2, <1>3, <1>7 DEF Owes, LabelsInv, FalseIsNotEnd
<1>11. /\ f <= labelIdx /\ placed[f] = 0
       /\ \A i \in 1 .. d : i # d => ~Owes(pending[i], f)
  <2>1. d \in 1 .. d /\ Owes(pending[d], f)
    BY <1>3, <1>6, <1>10
  <2> QED
    BY <1>1, <1>6, <2>1 DEF LabelsInv, OwedLabels
<1>12. /\ placed' \in [Labels -> Nat] /\ placed'[f] = 1
       /\ \A l \in Labels : l # f => placed'[l] = placed[l]
  <2>1. placed \in [Labels -> Nat]
    BY <1>1 DEF GenTypes
  <2> QED
    BY <1>2, <1>6, <1>11, <2>1
<1>13. \A i \in 1 .. d, l \in Labels :
         Owes(pending'[i], l) <=> Owes(pending[i], l) /\ l # f
  <2>1. ASSUME NEW i \in 1 .. d, NEW l \in Labels
        PROVE  Owes(pending'[i], l) <=> Owes(pending[i], l) /\ l # f
    <3>1. CASE i = d
      BY <1>3, <1>9, <1>10, <3>1
    <3>2. CASE i # d
      BY <1>9, <1>11, <3>2
    <3> QED
      BY <3>1, <3>2
  <2> QED
    BY <2>1
<1>14. GenTypes'
  BY <1>1, <1>2, <1>6, <1>9, <1>12 DEF GenTypes
<1> HIDE DEF f, e, d
<1>15. LabelsInv'
  <2>1. OutermostFunc'
    <3>1. ASSUME NEW i \in 1 .. d, pending'[i].node = "Func"
          PROVE  i = 1
      <4>1. i # d
        BY <1>7, <1>9, <3>1
      <4> QED
        BY <1>1, <1>9, <3>1, <4>1 DEF LabelsInv, OutermostFunc, d
    <3> QED
      BY <1>9, <3>1 DEF OutermostFunc
  <2>2. PlacedOnce'
    <3>1. ASSUME NEW l \in Labels
          PROVE  placed'[l] <= 1 /\ (l > labelIdx => placed'[l] = 0)
      <4>1. placed[l] <= 1 /\ (l > labelIdx => placed[l] = 0)
        BY <1>1 DEF LabelsInv, PlacedOnce
      <4>2. l = f => ~(l > labelIdx)
        BY <1>1, <1>6, <1>11 DEF GenTypes, Labels
      <4> QED
        BY <1>12, <4>1, <4>2
    <3> QED
      BY <1>2, <3>1 DEF PlacedOnce
  <2>3. OwedLabels'
    <3>1. ASSUME NEW i \in 1 .. d, NEW l \in Labels, Owes(pending'[i], l)
          PROVE  /\ l <= labelIdx' /\ placed'[l] = 0
                 /\ \A j \in 1 .. d : Owes(pending'[j], l) => j = i
      <4>1. Owes(pending[i], l) /\ l # f
        BY <1>13, <3>1
      <4>2. /\ l <= labelIdx /\ placed[l] = 0
            /\ \A j \in 1 .. d : Owes(pending[j], l) => j = i
        BY <1>1, <4>1 DEF LabelsInv, OwedLabels, d
      <4> QED
        BY <1>2, <1>12, <1>13, <4>1, <4>2
    <3> QED
      BY <1>9, <3>1 DEF OwedLabels
  <2>4. FalseIsNotEnd'
    <3>1. ASSUME NEW i \in 1 .. d, pending'[i].node = "IfTrue"
          PROVE  pending'[i].false # pending'[i].end
      <4>1. i # d
        BY <1>7, <1>9, <3>1
      <4> QED
        BY <1>1, <1>9, <3>1, <4>1 DEF LabelsInv, FalseIsNotEnd, d
    <3> QED
      BY <1>9, <3>1 DEF FalseIsNotEnd
  <2>5. JumpedLabels'
    <3>1. ASSUME NEW l \in jumped
          PROVE  placed'[l] = 1 \/ \E i \in 1 .. d : Owes(pending'[i], l)
      <4>1. l \in Labels
        BY <1>1 DEF GenTypes
      <4>2. placed[l] = 1 \/ \E i \in 1 .. d : Owes(pending[i], l)
        BY <1>1 DEF LabelsInv, JumpedLabels, d
      <4> QED
        BY <1>12, <1>13, <4>1, <4>2
    <3>2. \E i \in 1 .. d : Owes(pending'[i], e)
      BY <1>3, <1>6, <1>9, <1>10
    <3>3. \A l \in jumped' : l \in jumped \/ l = e
      BY <1>2
    <3> QED
      BY <1>9, <3>1, <3>2, <3>3 DEF JumpedLabels
  <2>6. StartsPlaced'
    <3>1. ASSUME NEW i \in 1 .. d, pending'[i].node = "Loop"
          PROVE  placed'[pending'[i].start] = 1
      <4>1. i # d /\ pending'[i] = pending[i]
        BY <1>7, <1>9, <3>1
      <4>2. pending[i] \in LoopActivations
        BY <1>3, <3>1, <4>1, ActivationKinds DEF d
      <4>3. pending[i].start \in Labels /\ placed[pending[i].start] = 1
        BY <1>1, <3>1, <4>1, <4>2 DEF LabelsInv, StartsPlaced, LoopActivations, d
      <4> QED
        BY <1>11, <1>12, <4>1, <4>3
    <3> QED
      BY <1>9, <3>1 DEF StartsPlaced
  <2> QED
    BY <2>1, <2>2, <2>3, <2>4, <2>5, <2>6 DEF LabelsInv
<1>16. LoopsChain'
  <2>1. \A i \in 1 .. d : /\ (pending[i].node = "Loop") <=> (pending'[i].node = "Loop")
                          /\ pending[i].node = "Loop" => pending[i] = pending'[i]
    BY <1>2, <1>3, <1>7, <1>9
  <2>2. Innermost(pending', d, breakLabel', continueLabel')
    BY <1>1, <1>2, <2>1, InnermostSame DEF LoopsChain, d
  <2>3. ASSUME NEW k \in 1 .. d, pending'[k].node = "Loop"
        PROVE  Innermost(pending', k - 1, pending'[k].savedBreak, pending'[k].savedContinue)
    <3>1. pending[k].node = "Loop" /\ pending'[k] = pending[k]
      BY <2>1, <2>3
    <3>2. Innermost(pending, k - 1, pending[k].savedBreak, pending[k].savedContinue)
      BY <1>1, <3>1 DEF LoopsChain, d
    <3>3. \A i \in 1 .. k - 1 : i \in 1 .. d
      BY <1>3
    <3>4. Innermost(pending', k - 1, pending[k].savedBreak, pending[k].savedContinue)
      BY <2>1, <3>2, <3>3, InnermostSame
    <3> QED
      BY <3>1, <3>4
  <2> QED
    BY <1>9, <2>2, <2>3 DEF LoopsChain
<1> QED
  BY <1>14, <1>15, <1>16 DEF GenInv

\* A step that may note a type or jump to the label of a loop that is open, and
\* leaves the rest as it is.
LEMMA JumpKeeps ==
  ASSUME GenInv, NEW l, jumped' = jumped \union ({l} \ {NoLabel}),
         l \in {NoLabel, breakLabel, continueLabel}, varTypes' \in TypeMaps,
         UNCHANGED <<labelIdx, breakLabel, continueLabel, pending, placed>>
  PROVE  GenInv'
<1>1. GenTypes /\ LabelsInv /\ LoopsChain
  BY DEF GenInv
<1>2. CASE l = NoLabel
  <2>1. jumped' = jumped
    BY <1>2
  <2>2. GenTypes' /\ LoopsChain'
    BY <1>1, <2>1 DEF GenTypes, LoopsChain
  <2>3. LabelsInv'
    BY <1>1, <2>1 DEF LabelsInv, OutermostFunc, PlacedOnce, OwedLabels,
                     FalseIsNotEnd, JumpedLabels, StartsPlaced
  <2> QED
    BY <2>2, <2>3 DEF GenInv
<1>3. CASE l # NoLabel
  <2>1. Innermost(pending, Len(pending), breakLabel, continueLabel)
    BY <1>1 DEF LoopsChain
  <2>2. PICK i \in 1 .. Len(pending) :
          pending[i].node = "Loop" /\ l \in {pending[i].start, pending[i].end}
    BY <1>3, <2>1 DEF Innermost
  <2>3. pending[i] \in LoopActivations
    BY <1>1, <2>2, ActivationKinds DEF GenTypes
  <2>4. l \in Labels
    BY <2>2, <2>3 DEF LoopActivations
  <2>5. placed[l] = 1 \/ Owes(pending[i], l)
    BY <1>1, <2>2 DEF LabelsInv, StartsPlaced, Owes
  <2>6. GenTypes' /\ LoopsChain'
    BY <1>1, <2>4 DEF GenTypes, LoopsChain
  <2>7. JumpedLabels'
    <3>1. \A k \in jumped' : k \in jumped \/ k = l
      OBVIOUS
    <3> QED
      BY <1>1, <2>5, <3>1 DEF LabelsInv, JumpedLabels
  <2>8. LabelsInv'
    BY <1>1, <2>7 DEF LabelsInv, OutermostFunc, PlacedOnce, OwedLabels,
                      FalseIsNotEnd, StartsPlaced
  <2> QED
    BY <2>6, <2>8 DEF GenInv
<1> QED
  BY <1>2, <1>3

\* The types that a function begins with.
LEMMA ParametersTyped ==
  ASSUME NEW params \in Parameters, NEW map \in TypeMaps
  PROVE  [n \in Names |-> IF n \in DOMAIN params THEN params[n] ELSE map[n]] \in TypeMaps
<1>1. PICK D \in SUBSET Names : params \in [D -> Types]
  BY DEF Parameters
<1>2. \A n \in DOMAIN params : params[n] \in Types
  BY <1>1
<1> QED
  BY <1>2 DEF TypeMaps

\* genFunc up to the body: the labels of the function before are forgotten.
LEMMA GenFuncKeeps ==
  ASSUME GenInv, NEW params \in Parameters, GenFunc(params)
  PROVE  GenInv'
<1> DEFINE a == [node |-> "Func", saved |-> varTypes]
<1>1. GenTypes /\ LoopsChain
  BY DEF GenInv
<1>2. /\ pending = <<>> /\ Enter(a) /\ jumped' = {}
      /\ placed' = [l \in Labels |-> 0]
      /\ UNCHANGED <<labelIdx, breakLabel, continueLabel>>
  BY DEF GenFunc
<1>3. a \in Activations /\ a.node = "Func"
  BY <1>1 DEF Activations, FuncActivations, GenTypes
<1> HIDE DEF a
<1>4. Len(pending') = 1 /\ pending'[1] = a /\ pending' \in Seq(Activations)
  <2>1. Len(pending) = 0
    BY <1>2
  <2>2. /\ Len(pending') = Len(pending) + 1 /\ pending'[Len(pending) + 1] = a
        /\ pending' \in Seq(Activations)
    BY <1>1, <1>2, <1>3, EnterActivation
  <2> QED
    BY <2>1, <2>2
<1>5. varTypes' \in TypeMaps
  BY <1>1, ParametersTyped DEF GenFunc, GenTypes
<1>6. GenTypes'
  BY <1>1, <1>2, <1>4, <1>5 DEF GenTypes
<1>7. LoopsChain'
  BY <1>1, <1>2, <1>3, LoopsChainEnter
<1>8. \A i \in 1 .. Len(pending'), l \in Labels :
        i = 1 /\ pending'[i].node = "Func" /\ ~Owes(pending'[i], l)
  BY <1>3, <1>4 DEF Owes
<1>9. LabelsInv'
  <2>1. OutermostFunc'
    BY <1>4 DEF OutermostFunc
  <2>2. PlacedOnce' /\ JumpedLabels'
    BY <1>2 DEF PlacedOnce, JumpedLabels
  <2>3. OwedLabels'
    BY <1>8 DEF OwedLabels
  <2>4. FalseIsNotEnd' /\ StartsPlaced'
    BY <1>3, <1>4 DEF FalseIsNotEnd, StartsPlaced
  <2> QED
    BY <2>1, <2>2, <2>3, <2>4 DEF LabelsInv
<1> QED
  BY <1>6, <1>7, <1>9 DEF GenInv

\* genFunc after the body; nothing is pending then.
LEMMA GenFuncEndKeeps ==
  ASSUME GenInv, GenFuncEnd
  PROVE  GenInv' /\ pending' = <<>> /\ varTypes' = Top.saved
<1> DEFINE d == Len(pending) - 1
<1>1. GenTypes /\ LabelsInv /\ LoopsChain
  BY DEF GenInv
<1>2. /\ pending # <<>> /\ Top.node = "Func" /\ Leave /\ varTypes' = Top.saved
      /\ UNCHANGED <<labelIdx, breakLabel, continueLabel, placed, jumped>>
  BY DEF GenFuncEnd
<1>3. /\ d \in Nat /\ Len(pending) = d + 1 /\ Len(pending') = d
      /\ Top = pending[d + 1] /\ Top \in Activations
      /\ pending' \in Seq(Activations)
  BY <1>1, <1>2, LeaveActivation
<1> HIDE DEF d
<1>4. d = 0 /\ Len(pending) = 1 /\ Top = pending[1]
  <2>1. d + 1 = 1
    BY <1>1, <1>2, <1>3 DEF LabelsInv, OutermostFunc
  <2>2. d = 0 /\ Len(pending) = 1
    BY <1>3, <2>1
  <2> QED
    BY <1>3, <2>1, <2>2
<1>5. pending' = <<>> /\ Len(pending') = 0
  <2>1. pending' = SubSeq(pending, 1, 0)
    BY <1>2, <1>4 DEF Leave
  <2>2. pending \in Seq(Activations)
    BY <1>1 DEF GenTypes
  <2> QED
    BY <2>1, <2>2
<1>6. Top.saved \in TypeMaps
  BY <1>2, <1>3, ActivationKinds DEF FuncActivations
<1>7. GenTypes'
  BY <1>1, <1>2, <1>3, <1>6 DEF GenTypes
<1>8. LoopsChain'
  BY <1>1, <1>2, LoopsChainLeave
<1>9. LabelsInv'
  <2>1. \A i \in 1 .. Len(pending), l \in Labels : ~Owes(pending[i], l)
    <3>1. \A i \in 1 .. Len(pending) : i = 1
      BY <1>4
    <3>2. \A i \in 1 .. Len(pending) : pending[i].node = "Func"
      BY <1>2, <1>4, <3>1
    <3> QED
      BY <3>2 DEF Owes
  <2>2. \A l \in jumped : placed[l] = 1
    BY <1>1, <2>1 DEF LabelsInv, JumpedLabels, GenTypes
  <2>3. PlacedOnce' /\ JumpedLabels'
    BY <1>1, <1>2, <2>2 DEF LabelsInv, PlacedOnce, JumpedLabels
  <2> QED
    BY <1>5, <2>3 DEF LabelsInv, OutermostFunc, OwedLabels, FalseIsNotEnd, StartsPlaced
<1> QED
  BY <1>2, <1>5, <1>7, <1>8, <1>9 DEF GenInv

\* The initial state of the generator.
LEMMA GenInvInit ==
  ASSUME InitGen
  PROVE  GenInv
<1>1. GenTypes
  BY LabelsAssumption DEF InitGen, GenTypes, TypeMaps, NoLabel
<1>2. LabelsInv
  BY DEF InitGen, LabelsInv, OutermostFunc, PlacedOnce, OwedLabels, FalseIsNotEnd,
         JumpedLabels, StartsPlaced
<1>3. LoopsChain
  BY DEF InitGen, LoopsChain, Innermost
<1> QED
  BY <1>1, <1>2, <1>3 DEF GenInv

\* Once the program is rejected the generator is not going to be called.
LEMMA NotCalledKeeps ==
  ASSUME NotCalled
  PROVE  GenInv'
<1>1. GenTypes'
  BY LabelsAssumption DEF NotCalled, GenTypes, TypeMaps, NoLabel
<1>2. LabelsInv'
  BY DEF NotCalled, LabelsInv, OutermostFunc, PlacedOnce, OwedLabels, FalseIsNotEnd,
         JumpedLabels, StartsPlaced
<1>3. LoopsChain'
  BY DEF NotCalled, LoopsChain, Innermost
<1> QED
  BY <1>1, <1>2, <1>3 DEF GenInv

\* What the generator does next once it is in a function, or when it is not called.
GenInside ==
  \/ NotCalled
  \/ \E n \in Names, t \in Types, e \in Exprs : GenVariable(n, t, e)
  \/ \E by, uses : GenAccess(by, uses)
  \/ \E left, right \in Operands : GenIf(left, right) \/ GenLoop(left, right)
  \/ GenFuncEnd \/ GenElse \/ GenIfEnd \/ GenLoopEnd
  \/ GenBreak \/ GenContinue \/ GenOther

GenStep == GenInside \/ \E params \in Parameters : GenFunc(params)

\* Each of its steps keeps the invariant.
LEMMA GenInvNext ==
  ASSUME GenInv, GenStep \/ UNCHANGED genVars
  PROVE  GenInv'
<1>0. GenTypes
  BY DEF GenInv
<1>1. CASE NotCalled
  BY <1>1, NotCalledKeeps
<1>2. ASSUME NEW params \in Parameters, GenFunc(params)
      PROVE  GenInv'
  BY <1>2, GenFuncKeeps
<1>3. ASSUME NEW n \in Names, NEW t \in Types, NEW e \in Exprs, GenVariable(n, t, e)
      PROVE  GenInv'
  <2>1. varTypes' \in TypeMaps
    BY <1>0, <1>3 DEF GenVariable, GenTypes, TypeMaps
  <2>2. jumped' = jumped \union ({NoLabel} \ {NoLabel})
    BY <1>3 DEF GenVariable
  <2>3. UNCHANGED <<labelIdx, breakLabel, continueLabel, pending, placed>>
    BY <1>3 DEF GenVariable
  <2> QED
    BY <2>1, <2>2, <2>3, JumpKeeps
<1>4. ASSUME UNCHANGED <<varTypes, labelIdx, breakLabel, continueLabel, pending, placed, jumped>>
      PROVE  GenInv'
  <2>1. varTypes' \in TypeMaps
    BY <1>0, <1>4 DEF GenTypes
  <2>2. jumped' = jumped \union ({NoLabel} \ {NoLabel})
    BY <1>4
  <2> QED
    BY <1>4, <2>1, <2>2, JumpKeeps
<1>5. CASE GenBreak
  <2>1. varTypes' \in TypeMaps
    BY <1>0, <1>5 DEF GenTypes, GenBreak
  <2>2. jumped' = jumped \union ({breakLabel} \ {NoLabel})
    BY <1>5 DEF GenBreak, JumpTo
  <2>3. UNCHANGED <<labelIdx, breakLabel, continueLabel, pending, placed>>
    BY <1>5 DEF GenBreak
  <2> QED
    BY <2>1, <2>2, <2>3, JumpKeeps
<1>6. CASE GenContinue
  <2>1. varTypes' \in TypeMaps
    BY <1>0, <1>6 DEF GenTypes, GenContinue
  <2>2. jumped' = jumped \union ({continueLabel} \ {NoLabel})
    BY <1>6 DEF GenContinue, JumpTo
  <2>3. UNCHANGED <<labelIdx, breakLabel, continueLabel, pending, placed>>
    BY <1>6 DEF GenContinue
  <2> QED
    BY <2>1, <2>2, <2>3, JumpKeeps
<1>7. ASSUME NEW by, NEW uses, GenAccess(by, uses)
      PROVE  GenInv'
  BY <1>4, <1>7 DEF GenAccess
<1>8. CASE GenOther
  BY <1>4, <1>8 DEF GenOther
<1>9. CASE UNCHANGED genVars
  BY <1>4, <1>9 DEF genVars
<1>10. ASSUME NEW left \in Operands, NEW right \in Operands,
              GenIf(left, right) \/ GenLoop(left, right)
       PROVE  GenInv'
  BY <1>10, GenIfKeeps, GenLoopKeeps
<1> QED
  BY <1>1, <1>2, <1>3, <1>5, <1>6, <1>7, <1>8, <1>9, <1>10, GenFuncEndKeeps,
     GenElseKeeps, GenIfEndKeeps, GenLoopEndKeeps DEF GenStep, GenInside

\* The invariant has JumpsAreRight in it.
LEMMA GenInvGives ==
  ASSUME GenInv
  PROVE  JumpsAreRight
<1>1. GenTypes /\ LabelsInv /\ LoopsChain
  BY DEF GenInv
<1>2. JumpsLand
  <2>1. ASSUME pending = <<>>, NEW l \in jumped
        PROVE  placed[l] = 1
    BY <1>1, <2>1 DEF LabelsInv, JumpedLabels
  <2> QED
    BY <1>1, <2>1 DEF JumpsLand, LabelsInv, PlacedOnce
<1>3. InnermostLoop
  <2>1. Innermost(pending, Len(pending), breakLabel, continueLabel)
    BY <1>1 DEF LoopsChain
  <2>2. CASE \A i \in 1 .. Len(pending) : pending[i].node # "Loop"
    BY <2>1, <2>2 DEF Innermost, InnermostLoop, Loops
  <2>3. CASE \E i \in 1 .. Len(pending) : pending[i].node = "Loop"
    <3>1. PICK i \in 1 .. Len(pending) :
            /\ pending[i].node = "Loop"
            /\ \A j \in i + 1 .. Len(pending) : pending[j].node # "Loop"
            /\ breakLabel = pending[i].end /\ continueLabel = pending[i].start
      BY <2>1, <2>3 DEF Innermost
    <3>2. Len(pending) \in Nat
      BY <1>1 DEF GenTypes
    <3>3. i \in Loops /\ \A j \in Loops : j <= i
      BY <3>1, <3>2 DEF Loops
    <3> QED
      BY <3>1, <3>3 DEF InnermostLoop
  <2> QED
    BY <2>2, <2>3
<1> QED
  BY <1>2, <1>3 DEF JumpsAreRight

(***************************************************************************)
(* The front end walks like its two parts.                                 *)
(***************************************************************************)

\* Every step is one of the checker, or leaves the checker alone.
LEMMA FrontChecks ==
  ASSUME NextFront
  PROVE  NextCheck \/ UNCHANGED checkVars
<1>1. ASSUME NEW n \in Names, NEW t \in Types, NEW e \in Exprs,
             Variable(n, t, e) \/ Mutation(n, t, e)
      PROVE  NextCheck
  BY <1>1 DEF Variable, Mutation, NextCheck
<1>2. ASSUME NEW n \in Names, Incr(n) \/ Await(n) \/ Share(n)
      PROVE  NextCheck \/ UNCHANGED checkVars
  BY <1>2 DEF Incr, Await, Share, CheckNothing, NextCheck
<1>3. ASSUME NEW e \in Exprs, Return(e) \/ ExprStatement(e)
      PROVE  NextCheck
  BY <1>3 DEF Return, ExprStatement, NextCheck
<1>4. ASSUME NEW params \in Parameters, Func(params)
      PROVE  NextCheck
  BY <1>4 DEF Func, NextCheck
<1>5. ASSUME NEW left \in Operands, NEW right \in Operands,
             If(left, right) \/ Loop(left, right)
      PROVE  NextCheck
  BY <1>5 DEF If, Loop, NextCheck
<1>6. ASSUME NEW shares \in SUBSET Names, Async(shares)
      PROVE  NextCheck
  BY <1>6 DEF Async, NextCheck
<1>7. ASSUME EndFunc \/ Else \/ EndIf \/ EndLoop
      PROVE  NextCheck
  BY <1>7 DEF EndFunc, Else, EndIf, EndLoop, NextCheck
<1>8. ASSUME Mem \/ EndMem \/ EndAsync \/ Error \/ EndError
      PROVE  NextCheck
  BY <1>8 DEF Mem, EndMem, EndAsync, Error, EndError, NextCheck
<1>9. ASSUME Break \/ Continue \/ Other
      PROVE  UNCHANGED checkVars
  BY <1>9 DEF Break, Continue, Other, CheckNothing
<1>10. ASSUME \/ \E e \in Exprs : Call(e)
              \/ \E index, value \in Exprs : ArrayStore(index, value)
       PROVE  UNCHANGED checkVars
  BY <1>10 DEF Call, ArrayStore, CheckNothing
<1> QED
  BY <1>1, <1>2, <1>3, <1>4, <1>5, <1>6, <1>7, <1>8, <1>9, <1>10 DEF NextFront

\* The generator, in every step.
LEMMA FrontGenerates ==
  ASSUME NextFront
  PROVE  GenStep
<1>1. ASSUME NEW n \in Names, NEW t \in Types, NEW e \in Exprs, Variable(n, t, e)
      PROVE  GenStep
  BY <1>1 DEF Variable, Gen, GenStep, GenInside
<1>2. ASSUME NEW by, NEW uses, Gen(GenAccess(by, uses))
      PROVE  GenStep
  BY <1>2 DEF Gen, GenStep, GenInside
<1>3. ASSUME NEW n \in Names, Incr(n) \/ Await(n) \/ Share(n)
      PROVE  GenStep
  BY <1>2, <1>3 DEF Incr, Await, Share, Gen, GenStep, GenInside
<1>4. ASSUME NEW e \in Exprs, ExprStatement(e)
      PROVE  GenStep
  BY <1>4 DEF ExprStatement, Gen, GenStep, GenInside
<1>5. ASSUME NEW params \in Parameters, Func(params)
      PROVE  GenStep
  BY <1>5 DEF Func, GenStep, GenInside
<1>6. ASSUME NEW left \in Operands, NEW right \in Operands,
             If(left, right) \/ Loop(left, right)
      PROVE  GenStep
  BY <1>6 DEF If, Loop, Gen, GenStep, GenInside
<1>7. ASSUME NEW shares \in SUBSET Names, Async(shares)
      PROVE  GenStep
  BY <1>7 DEF Async, Gen, GenStep, GenInside
<1>8. ASSUME EndFunc \/ Else \/ EndIf \/ EndLoop
      PROVE  GenStep
  BY <1>8 DEF EndFunc, Else, EndIf, EndLoop, Gen, GenStep, GenInside
<1>9. ASSUME Mem \/ EndMem \/ EndAsync \/ Error \/ EndError
      PROVE  GenStep
  BY <1>9 DEF Mem, EndMem, EndAsync, Error, EndError, Gen, GenStep, GenInside
<1>10. ASSUME Break \/ Continue \/ Other
       PROVE  GenStep
  BY <1>10 DEF Break, Continue, Other, Gen, GenStep, GenInside
<1>11. ASSUME \/ \E n \in Names, t \in Types, e \in Exprs : Mutation(n, t, e)
              \/ \E e \in Exprs : Return(e) \/ Call(e)
              \/ \E index, value \in Exprs : ArrayStore(index, value)
       PROVE  GenStep
  BY <1>2, <1>11 DEF Mutation, Return, Call, ArrayStore
<1> QED
  BY <1>1, <1>3, <1>4, <1>5, <1>6, <1>7, <1>8, <1>9, <1>10, <1>11 DEF NextFront

\* The front end implements the checker: running the generator beside it does
\* not change what the checker does, so that what is proved of it holds here.
THEOREM FrontImplementsCheck == SpecFront => SpecCheck
<1>1. InitFront => InitCheck
  BY DEF InitFront
<1>2. [NextFront]_frontVars => [NextCheck]_checkVars
  BY FrontChecks DEF frontVars
<1> QED
  BY <1>1, <1>2, PTL DEF SpecFront, SpecCheck

\* The invariant of the labels holds in every program.
LEMMA GenInvAlways == SpecFront => []GenInv
<1>1. InitFront => GenInv
  BY GenInvInit DEF InitFront
<1>2. GenInv /\ [NextFront]_frontVars => GenInv'
  BY GenInvNext, FrontGenerates DEF frontVars
<1> QED
  BY <1>1, <1>2, PTL DEF SpecFront

\* In every program, however deep its ifs and loops are nested and whether or
\* not the checker stops in the middle: a label is placed once, every jump of
\* a complete function lands in it, and break and continue go to the innermost loop.
THEOREM JumpsCorrect == SpecFront => []JumpsAreRight
<1>1. GenInv => JumpsAreRight
  BY GenInvGives
<1> QED
  BY <1>1, GenInvAlways, PTL


(***************************************************************************)
(* Widths.  AccessWidths is not inductive: the widths agree for all names   *)
(* that the generator has a type for, and not only for those it uses.       *)
(* In a function within the function the checker goes on and the generator  *)
(* does not: what agrees is the map that the outermost such function saved. *)
(***************************************************************************)
FuncAt(k) == k \in 1 .. Len(open) /\ open[k].stmt = "Func"
Nested(k) == FuncAt(k) /\ k # 1

NoTypes(map) == \A n \in Names : map[n] = NoType

\* Nothing has a type outside of functions, nor once the program is rejected.
TypesCleared == rejected \/ ~FuncAt(1) => NoTypes(varTypes)

Agree(types, out, map) ==
  \A n \in Names :
    types[n] # NoType /\ n \notin out /\ Known(map[n]) =>
      Width(types[n]) = WidthOfKind(map[n])

WidthsAgree ==
  /\ (\A k \in Nat : ~Nested(k)) => Agree(varTypes, dropped, vars)
  /\ \A k \in Nat :
       Nested(k) /\ (\A j \in Nat : Nested(j) => k <= j) =>
         Agree(varTypes, dropped, open[k].saved)

SavedNothing ==
  \A i \in 1 .. Len(pending) : pending[i].node = "Func" => NoTypes(pending[i].saved)

AccessIsTrue ==
  /\ access.uses # {} => \A k \in Nat : ~Nested(k)
  /\ \A u \in access.uses :
       u.name \in Names /\ (u.op \in Sized => u.width = Width(varTypes[u.name]))

WidthInv == TypesCleared /\ WidthsAgree /\ SavedNothing /\ AccessIsTrue

\* isPtr64 is true of the kinds that take 64 bits.
LEMMA KindWidth ==
  ASSUME NEW t, Known(KindOf(t))
  PROVE  Width(t) = WidthOfKind(KindOf(t))
BY DEF Known, KindOf, Width, WidthOfKind, Scalars, Arrays

\* Where statements are generated, no function is open but the outermost.
LEMMA GeneratedMeans ==
  ASSUME CheckInv, Generated
  PROVE  FuncAt(1) /\ \A k \in Nat : ~Nested(k)
<1>1. Len(open) \in Nat \ {0} /\ open[1].stmt = "Func"
  BY DEF CheckInv, TypeOKCheck, Generated
<1>2. \A i \in 2 .. Len(open) : open[i].stmt # "Func"
  BY DEF Generated
<1> QED
  BY <1>1, <1>2 DEF FuncAt, Nested

\* A generator that is not called has nothing that could disagree.
LEMMA NotCalledWidths ==
  ASSUME NotCalled
  PROVE  WidthInv'
<1>1. \A n \in Names : varTypes'[n] = NoType
  BY DEF NotCalled
<1>2. TypesCleared' /\ WidthsAgree'
  BY <1>1 DEF TypesCleared, WidthsAgree, Agree, NoTypes
<1>3. SavedNothing' /\ AccessIsTrue'
  BY DEF NotCalled, SavedNothing, AccessIsTrue, NoAccess
<1> QED
  BY <1>2, <1>3 DEF WidthInv

\* What activations of functions have saved does not change.
LEMMA SavedInside ==
  ASSUME GenInv, SavedNothing, GenInside
  PROVE  SavedNothing'
<1>1. GenTypes
  BY DEF GenInv
<1>2. CASE NotCalled
  BY <1>2 DEF NotCalled, SavedNothing
<1>3. CASE UNCHANGED pending
  BY <1>3 DEF SavedNothing
<1>4. ASSUME NEW a \in Activations, a.node # "Func", Enter(a)
      PROVE  SavedNothing'
  <2> DEFINE d == Len(pending)
  <2>1. /\ d \in Nat /\ Len(pending') = d + 1 /\ pending'[d + 1] = a
        /\ \A i \in 1 .. d : pending'[i] = pending[i]
    BY <1>1, <1>4, EnterActivation
  <2>2. ASSUME NEW i \in 1 .. d + 1, pending'[i].node = "Func"
        PROVE  i \in 1 .. d /\ pending'[i] = pending[i]
    BY <1>4, <2>1, <2>2
  <2> QED
    BY <2>1, <2>2 DEF SavedNothing
<1>5. ASSUME pending # <<>>, Leave
      PROVE  SavedNothing'
  <2>1. \A i \in 1 .. Len(pending') : i \in 1 .. Len(pending) /\ pending'[i] = pending[i]
    BY <1>1, <1>5, LeaveActivation
  <2> QED
    BY <2>1 DEF SavedNothing
<1>6. ASSUME NEW left, NEW right, GenIf(left, right)
      PROVE  SavedNothing'
  <2> DEFINE a == [node |-> "IfTrue", false |-> labelIdx + 2, end |-> labelIdx + 3]
  <2>1. a \in Activations /\ a.node # "Func"
    BY <1>1, <1>6, MadeLabels DEF GenIf, Activations, IfActivations
  <2>2. Enter(a)
    BY <1>6 DEF GenIf
  <2> QED
    BY <1>4, <2>1, <2>2
<1>7. ASSUME NEW left, NEW right, GenLoop(left, right)
      PROVE  SavedNothing'
  <2> DEFINE a == [node |-> "Loop", start |-> labelIdx + 1, end |-> labelIdx + 3,
                   savedBreak |-> breakLabel, savedContinue |-> continueLabel]
  <2>1. a \in Activations /\ a.node # "Func"
    BY <1>1, <1>7, MadeLabels DEF GenLoop, GenTypes, Activations, LoopActivations
  <2>2. Enter(a)
    BY <1>7 DEF GenLoop
  <2> QED
    BY <1>4, <2>1, <2>2
<1>8. CASE GenElse
  <2> DEFINE d == Len(pending)
             a == [Top EXCEPT !.node = "IfFalse"]
  <2>1. pending \in Seq(Activations) /\ d \in Nat \ {0} /\ Top = pending[d]
    BY <1>1, <1>8 DEF GenTypes, GenElse, Top
  <2>2. Top \in IfActivations
    BY <1>8, <2>1, ActivationKinds DEF GenElse
  <2>3. a \in Activations /\ a.node = "IfFalse"
    BY <2>2 DEF IfActivations, Activations
  <2>4. pending' = [pending EXCEPT ![d] = a]
    BY <1>8 DEF GenElse, Top
  <2> HIDE DEF a
  <2>5. /\ Len(pending') = d
        /\ \A i \in 1 .. d : pending'[i] = IF i = d THEN a ELSE pending[i]
    BY <2>1, <2>3, <2>4
  <2> QED
    BY <2>3, <2>5 DEF SavedNothing
<1>9. GenFuncEnd \/ GenIfEnd \/ GenLoopEnd => pending # <<>> /\ Leave
  BY DEF GenFuncEnd, GenIfEnd, GenLoopEnd
<1>10. GenBreak \/ GenContinue \/ GenOther => UNCHANGED pending
  BY DEF GenBreak, GenContinue, GenOther
<1>11. /\ \A n \in Names, t \in Types, e \in Exprs :
            GenVariable(n, t, e) => UNCHANGED pending
       /\ \A by, uses : GenAccess(by, uses) => UNCHANGED pending
  BY DEF GenVariable, GenAccess
<1> QED
  BY <1>2, <1>3, <1>5, <1>6, <1>7, <1>8, <1>9, <1>10, <1>11 DEF GenInside


\* The functions among the open statements stay as they are.
SameFuncs ==
  \A k \in Nat : /\ FuncAt(k)' <=> FuncAt(k)
                 /\ FuncAt(k) => open'[k].saved = open[k].saved

\* They do while the open statements stay.
LEMMA OpenSame ==
  ASSUME UNCHANGED open
  PROVE  SameFuncs
BY DEF SameFuncs, FuncAt

\* A statement that is no function begins.
LEMMA OpenMore ==
  ASSUME CheckInv, NEW frame \in Frames, frame.stmt # "Func", Push(frame)
  PROVE  SameFuncs
<1> DEFINE d == Len(open)
<1>1. open \in Seq(Frames) /\ open' = Append(open, frame)
  BY DEF CheckInv, TypeOKCheck, Push
<1>2. /\ d \in Nat /\ Len(open') = d + 1 /\ open'[d + 1] = frame
      /\ \A k \in 1 .. d : open'[k] = open[k]
  BY <1>1
<1> HIDE DEF d
<1>3. ASSUME NEW k \in Nat
      PROVE  /\ FuncAt(k)' <=> FuncAt(k)
             /\ FuncAt(k) => open'[k].saved = open[k].saved
  <2>1. CASE k = d + 1
    BY <1>2, <2>1 DEF FuncAt, d
  <2>2. CASE k # d + 1
    BY <1>2, <2>2 DEF FuncAt, d
  <2> QED
    BY <2>1, <2>2
<1> QED
  BY <1>3 DEF SameFuncs

\* One ends.
LEMMA OpenLess ==
  ASSUME CheckInv, NEW stmt, stmt # "Func", Pop(stmt)
  PROVE  SameFuncs
<1> DEFINE d == Len(open) - 1
<1>1. /\ open \in Seq(Frames) /\ open # <<>>
      /\ open[Len(open)].stmt = stmt
      /\ open' = SubSeq(open, 1, d)
  BY DEF CheckInv, TypeOKCheck, Pop, Inside
<1>2. /\ d \in Nat /\ Len(open) = d + 1 /\ Len(open') = d
      /\ \A k \in 1 .. d : open'[k] = open[k]
  <2>1. d = Len(open) - 1
    OBVIOUS
  <2> HIDE DEF d
  <2>2. /\ Len(open') = d
        /\ \A k \in 1 .. d : open'[k] = open[k]
        /\ Len(open) \in Nat \ {0}
    BY <1>1, <2>1, DropLast
  <2> QED
    BY <2>1, <2>2
<1> HIDE DEF d
<1>3. ASSUME NEW k \in Nat
      PROVE  /\ FuncAt(k)' <=> FuncAt(k)
             /\ FuncAt(k) => open'[k].saved = open[k].saved
  <2>1. CASE k = d + 1
    <3>1. k \notin 1 .. Len(open') /\ open[k].stmt # "Func"
      BY <1>1, <1>2, <2>1
    <3> QED
      BY <3>1 DEF FuncAt
  <2>2. CASE k # d + 1
    BY <1>2, <2>2 DEF FuncAt
  <2> QED
    BY <2>1, <2>2
<1> QED
  BY <1>3 DEF SameFuncs

\* One changes: the second body of an If, or a share of an Async that was seen.
LEMMA FuncsUnchanged ==
  ASSUME Len(open') = Len(open),
         \A k \in 1 .. Len(open) : open[k].stmt = "Func" \/ open'[k].stmt = "Func" =>
                                     open'[k] = open[k]
  PROVE  SameFuncs
<1>1. ASSUME NEW k \in Nat
      PROVE  /\ FuncAt(k)' <=> FuncAt(k)
             /\ FuncAt(k) => open'[k].saved = open[k].saved
  BY Zenon DEF FuncAt
<1> QED
  BY <1>1, Zenon DEF SameFuncs

\* In the code the change is one to the innermost statement.
LEMMA OpenChanged ==
  ASSUME CheckInv, NEW frame, frame.stmt # "Func",
         open # <<>>, open[Len(open)].stmt # "Func",
         open' = [open EXCEPT ![Len(open)] = frame]
  PROVE  SameFuncs
<1>1. open \in Seq(Frames)
  BY DEF CheckInv, TypeOKCheck
<1>2. /\ Len(open') = Len(open)
      /\ \A k \in 1 .. Len(open) : open'[k] = IF k = Len(open) THEN frame ELSE open[k]
  BY <1>1
<1>3. \A k \in 1 .. Len(open) : open[k].stmt = "Func" \/ open'[k].stmt = "Func" =>
                                  open'[k] = open[k]
  BY <1>2, Zenon
<1> QED
  BY <1>2, <1>3, FuncsUnchanged, Zenon

\* The parts of the generator that touch no type and access no variable.
GenQuiet ==
  \/ GenElse \/ GenIfEnd \/ GenLoopEnd
  \/ GenBreak \/ GenContinue \/ GenOther

\* With any other statement of the generator the widths stay as they are.
LEMMA QuietWidths ==
  ASSUME GenInv, WidthInv, SameFuncs, UNCHANGED vars, Same,
         \/ rejected' /\ NotCalled
         \/ ~rejected' /\ GenQuiet
  PROVE  WidthInv'
<1>1. CASE NotCalled
  BY <1>1, NotCalledWidths
<1>2. CASE ~rejected' /\ GenQuiet
  <2>1. UNCHANGED <<varTypes, dropped>> /\ access' = NoAccess
    BY <1>2 DEF GenQuiet, GenElse, GenIfEnd, GenLoopEnd, GenBreak, GenContinue,
                GenOther, Silent, Same
  <2>2. SavedNothing'
    BY <1>2, SavedInside DEF WidthInv, GenQuiet, GenInside
  <2>3. TypesCleared'
    <3>1. FuncAt(1)' <=> FuncAt(1)
      BY DEF SameFuncs
    <3> QED
      BY <1>2, <2>1, <3>1 DEF WidthInv, TypesCleared, NoTypes
  <2>4. WidthsAgree'
    <3>1. \A k \in Nat : Nested(k)' <=> Nested(k)
      BY DEF SameFuncs, Nested
    <3>2. (\A k \in Nat : ~Nested(k)) => Agree(varTypes', dropped', vars')
      BY <2>1 DEF WidthInv, WidthsAgree
    <3>3. ASSUME NEW k \in Nat, Nested(k), \A j \in Nat : Nested(j) => k <= j
          PROVE  Agree(varTypes', dropped', open'[k].saved)
      BY <2>1, <3>3 DEF WidthInv, WidthsAgree, SameFuncs, Nested
    <3> QED
      BY <3>1, <3>2, <3>3 DEF WidthsAgree
  <2> QED
    BY <2>1, <2>2, <2>3, <2>4 DEF WidthInv, AccessIsTrue, NoAccess
<1> QED
  BY <1>1, <1>2


\* A use has the width of the type that is noted for the name.
LEMMA UsesAreTrue ==
  ASSUME NEW by, NEW types, NEW uses, Access(by, types, uses)
  PROVE  \A u \in access'.uses :
           u.name \in Names /\ (u.op \in Sized => u.width = Width(types[u.name]))
<1>1. CASE uses \intersect Uses = {}
  BY <1>1 DEF Access, NoAccess
<1>2. CASE uses \intersect Uses # {}
  <2>1. ASSUME NEW u \in access'.uses
        PROVE  u.name \in Names /\ (u.op \in Sized => u.width = Width(types[u.name]))
    <3>1. PICK v \in uses \intersect Uses :
            u = [op |-> v.op, name |-> v.name,
                 width |-> IF v.op \in Sized THEN Width(types[v.name]) ELSE 64]
      BY <1>2, <2>1 DEF Access
    <3>2. v.name \in Names
      BY DEF Uses
    <3> QED
      BY <3>1, <3>2
  <2> QED
    BY <2>1
<1> QED
  BY <1>1, <1>2

\* A statement that uses variables, where statements are generated, with the
\* types that are noted.
LEMMA AccessKeepsWidths ==
  ASSUME CheckInv, WidthInv, SameFuncs, UNCHANGED <<vars, varTypes>>, Same, SavedNothing',
         ~rejected', Generated, NEW by, NEW uses, Access(by, varTypes, uses)
  PROVE  WidthInv'
<1>1. FuncAt(1) /\ \A k \in Nat : ~Nested(k)
  BY GeneratedMeans
<1>2. UNCHANGED dropped
  BY DEF Same
<1>3. FuncAt(1)' /\ \A k \in Nat : ~Nested(k)'
  BY <1>1 DEF SameFuncs, Nested
<1>4. TypesCleared'
  BY <1>3 DEF TypesCleared
<1>5. WidthsAgree'
  BY <1>1, <1>2, <1>3 DEF WidthInv, WidthsAgree
<1>6. AccessIsTrue'
  BY <1>3, UsesAreTrue DEF AccessIsTrue
<1> QED
  BY <1>4, <1>5, <1>6 DEF WidthInv

\* A mutation, an increment, a store to an array, a return or a call.
LEMMA AccessWidthsKept ==
  ASSUME CheckInv, GenInv, WidthInv, UNCHANGED <<vars, open>>, Same,
         NEW by, NEW uses, Gen(GenAccess(by, uses))
  PROVE  WidthInv'
<1>1. CASE rejected' /\ NotCalled
  BY <1>1, NotCalledWidths
<1>2. CASE ~rejected' /\ Generated /\ GenAccess(by, uses)
  <2>1. /\ UNCHANGED <<varTypes, pending>> /\ Access(by, varTypes, uses)
    BY <1>2 DEF GenAccess
  <2>2. SavedNothing'
    BY <2>1 DEF WidthInv, SavedNothing
  <2> QED
    BY <1>2, <2>1, <2>2, OpenSame, AccessKeepsWidths
<1>3. CASE ~rejected' /\ GenOther
  BY <1>3, OpenSame, QuietWidths DEF GenQuiet
<1> QED
  BY <1>1, <1>2, <1>3 DEF Gen

\* An If or a Loop, which load the operands of the condition.
LEMMA BranchWidths ==
  ASSUME CheckInv, GenInv, WidthInv, SameFuncs, UNCHANGED vars, Same,
         NEW left \in Operands, NEW right \in Operands,
         Gen(GenIf(left, right)) \/ Gen(GenLoop(left, right))
  PROVE  WidthInv'
<1>1. CASE rejected' /\ NotCalled
  BY <1>1, NotCalledWidths
<1>2. CASE ~rejected' /\ Generated /\ (GenIf(left, right) \/ GenLoop(left, right))
  <2>1. SavedNothing'
    BY <1>2, SavedInside DEF WidthInv, GenInside
  <2>2. UNCHANGED varTypes /\ \E by, uses : Access(by, varTypes, uses)
    BY <1>2 DEF GenIf, GenLoop
  <2> QED
    BY <1>2, <2>1, <2>2, AccessKeepsWidths
<1>3. CASE ~rejected' /\ GenOther
  BY <1>3, QuietWidths DEF GenQuiet
<1> QED
  BY <1>1, <1>2, <1>3 DEF Gen

\* A declaration: both maps take the new type, or neither does in a function
\* within the function, or the name is dropped in an Error body.
LEMMA VariableWidths ==
  ASSUME CheckInv, GenInv, WidthInv, NEW n \in Names, NEW t \in Types, NEW e \in Exprs,
         Variable(n, t, e)
  PROVE  WidthInv'
<1>1. /\ vars' = [vars EXCEPT ![n] = KindOf(t)] /\ UNCHANGED open
      /\ Gen(GenVariable(n, t, e))
      /\ dropped' = CASE rejected'  -> {}
                      [] ~rejected' /\ Generated   -> dropped \ {n}
                      [] ~rejected' /\ InErrorBody -> dropped \union {n}
                      [] OTHER -> dropped
  BY DEF Variable, CheckVariable, Declare
<1>2. \A k \in Nat : (FuncAt(k)' <=> FuncAt(k)) /\ (Nested(k)' <=> Nested(k))
  BY <1>1 DEF FuncAt, Nested
<1>3. vars \in [Names -> Kinds \union {Undeclared}] /\ varTypes \in TypeMaps
  BY DEF CheckInv, TypeOKCheck, Maps, GenInv, GenTypes
<1>4. /\ vars'[n] = KindOf(t)
      /\ \A m \in Names : m # n => vars'[m] = vars[m]
  BY <1>1, <1>3
<1>5. CASE rejected' /\ NotCalled
  BY <1>5, NotCalledWidths
<1>6. CASE ~rejected' /\ Generated /\ GenVariable(n, t, e)
  <2>1. FuncAt(1) /\ \A k \in Nat : ~Nested(k)
    BY <1>6, GeneratedMeans
  <2>2. dropped' = dropped \ {n}
    <3>1. ~InErrorBody
      BY <1>6 DEF Generated, InErrorBody
    <3> QED
      BY <1>1, <1>6, <3>1
  <2>3. /\ varTypes'[n] = t
        /\ \A m \in Names : m # n => varTypes'[m] = varTypes[m]
    <3>1. varTypes' = [varTypes EXCEPT ![n] = t]
      BY <1>6 DEF GenVariable
    <3> QED
      BY <1>3, <3>1 DEF TypeMaps
  <2>4. Agree(varTypes', dropped', vars')
    <3>1. Agree(varTypes, dropped, vars)
      BY <2>1 DEF WidthInv, WidthsAgree
    <3>2. Known(KindOf(t)) => Width(t) = WidthOfKind(KindOf(t))
      BY KindWidth
    <3>3. ASSUME NEW m \in Names, varTypes'[m] # NoType, m \notin dropped', Known(vars'[m])
          PROVE  Width(varTypes'[m]) = WidthOfKind(vars'[m])
      <4>1. CASE m = n
        BY <1>4, <2>3, <3>2, <3>3, <4>1
      <4>2. CASE m # n
        BY <1>4, <2>2, <2>3, <3>1, <3>3, <4>2 DEF Agree
      <4> QED
        BY <4>1, <4>2
    <3> QED
      BY <3>3 DEF Agree
  <2>5. WidthsAgree'
    BY <1>2, <2>1, <2>4 DEF WidthsAgree
  <2>6. TypesCleared'
    BY <1>2, <1>6, <2>1 DEF TypesCleared
  <2>7. SavedNothing'
    BY <1>6 DEF WidthInv, SavedNothing, GenVariable
  <2>8. AccessIsTrue'
    <3>1. \/ access' = NoAccess
          \/ Access("Variable", varTypes', Reads[e] \union {Use("init", n)})
      BY <1>6 DEF GenVariable, Silent
    <3>2. \A u \in access'.uses :
            u.name \in Names /\ (u.op \in Sized => u.width = Width(varTypes'[u.name]))
      BY <3>1, UsesAreTrue DEF NoAccess
    <3> QED
      BY <1>2, <2>1, <3>2 DEF AccessIsTrue
  <2> QED
    BY <2>5, <2>6, <2>7, <2>8 DEF WidthInv
<1>7. CASE ~rejected' /\ ~Generated /\ GenOther
  <2>1. UNCHANGED <<varTypes, pending>> /\ access' = NoAccess
    BY <1>7 DEF GenOther, Silent
  <2>2. dropped' = IF InErrorBody THEN dropped \union {n} ELSE dropped
    BY <1>1, <1>7
  <2>3. TypesCleared' /\ SavedNothing' /\ AccessIsTrue'
    BY <1>2, <1>7, <2>1 DEF WidthInv, TypesCleared, NoTypes, SavedNothing, AccessIsTrue,
                            NoAccess
  <2>4. \A map : Agree(varTypes, dropped, map) => Agree(varTypes, dropped', map)
    BY <2>2 DEF Agree
  <2>5. ASSUME NEW k \in Nat, Nested(k), \A j \in Nat : Nested(j) => k <= j
        PROVE  Agree(varTypes', dropped', open'[k].saved)
    BY <1>1, <2>1, <2>4, <2>5 DEF WidthInv, WidthsAgree
  <2>6. ASSUME \A k \in Nat : ~Nested(k)
        PROVE  Agree(varTypes', dropped', vars')
    <3>1. CASE ~FuncAt(1)
      BY <1>7, <2>1, <3>1 DEF WidthInv, TypesCleared, NoTypes, Agree
    <3>2. CASE FuncAt(1)
      <4>1. open \in Seq(Frames) /\ open # <<>> /\ open[1].stmt = "Func"
        BY <3>2 DEF CheckInv, TypeOKCheck, FuncAt
      <4>2. \A i \in 2 .. Len(open) : open[i].stmt # "Func"
        BY <2>6, <4>1 DEF Nested, FuncAt
      <4>3. InErrorBody
        BY <1>7, <4>1, <4>2 DEF Generated, InErrorBody
      <4>4. dropped' = dropped \union {n}
        BY <2>2, <4>3
      <4>5. Agree(varTypes, dropped, vars)
        BY <2>6 DEF WidthInv, WidthsAgree
      <4> QED
        BY <1>4, <2>1, <4>4, <4>5 DEF Agree
    <3> QED
      BY <3>1, <3>2
  <2>7. WidthsAgree'
    BY <1>2, <2>5, <2>6 DEF WidthsAgree
  <2> QED
    BY <2>3, <2>7 DEF WidthInv
<1> QED
  BY <1>1, <1>5, <1>6, <1>7 DEF Gen


\* A function begins: the first one with the types of its parameters, one
\* within it on the checker's side only.
LEMMA FuncWidths ==
  ASSUME CheckInv, GenInv, WidthInv, NEW params \in Parameters, Func(params)
  PROVE  WidthInv'
<1> DEFINE d == Len(open)
           frame == [Block("Func") EXCEPT !.saved = vars]
<1>1. /\ open \in Seq(Frames) /\ open' = Append(open, frame)
      /\ vars \in Maps /\ UNCHANGED rejected
  BY DEF CheckInv, TypeOKCheck, Func, FuncBegin, Push
<1>2. frame \in Frames /\ frame.stmt = "Func" /\ frame.saved = vars
  BY <1>1 DEF Block, Frames
<1> HIDE DEF frame
<1>3. /\ d \in Nat /\ Len(open') = d + 1 /\ open'[d + 1] = frame
      /\ \A k \in 1 .. d : open'[k] = open[k]
  BY <1>1, <1>2
<1>4. \A k \in Nat : FuncAt(k)' <=> (FuncAt(k) \/ k = d + 1)
  BY <1>2, <1>3 DEF FuncAt
<1>5. \A k \in Nat : FuncAt(k) => k \in 1 .. d /\ open'[k] = open[k]
  BY <1>3 DEF FuncAt
<1>6. CASE rejected /\ NotCalled
  BY <1>6, NotCalledWidths
<1>7. CASE ~rejected /\ open = <<>> /\ GenFunc(params) /\ dropped' = {}
  <2>1. d = 0 /\ FuncAt(1)' /\ \A k \in Nat : ~Nested(k)'
    BY <1>4, <1>5, <1>7 DEF Nested
  <2>2. \A n \in Names : varTypes[n] = NoType
    BY <1>7 DEF WidthInv, TypesCleared, NoTypes, FuncAt
  <2>3. /\ \A n \in Names : varTypes'[n] = IF n \in DOMAIN params THEN params[n] ELSE NoType
        /\ \A n \in Names : n \in DOMAIN params => vars'[n] = KindOf(params[n])
        /\ Access("Func", varTypes', {Use("init", n) : n \in DOMAIN params})
    BY <1>7, <2>2 DEF GenFunc, Func, FuncBegin
  <2>4. Agree(varTypes', dropped', vars')
    <3>1. ASSUME NEW n \in Names, varTypes'[n] # NoType, Known(vars'[n])
          PROVE  Width(varTypes'[n]) = WidthOfKind(vars'[n])
      <4>1. n \in DOMAIN params /\ varTypes'[n] = params[n] /\ vars'[n] = KindOf(params[n])
        BY <2>3, <3>1
      <4> QED
        BY <3>1, <4>1, KindWidth
    <3> QED
      BY <3>1 DEF Agree
  <2>5. TypesCleared' /\ WidthsAgree' /\ AccessIsTrue'
    BY <1>1, <1>7, <2>1, <2>3, <2>4, UsesAreTrue DEF TypesCleared, WidthsAgree, AccessIsTrue
  <2>6. SavedNothing'
    <3> DEFINE a == [node |-> "Func", saved |-> varTypes]
    <3>1. GenTypes
      BY DEF GenInv
    <3>2. a \in Activations
      BY <3>1 DEF GenTypes, Activations, FuncActivations
    <3>3. pending = <<>> /\ Enter(a)
      BY <1>7 DEF GenFunc
    <3>4. a.saved = varTypes
      OBVIOUS
    <3> HIDE DEF a
    <3>5. Len(pending) = 0
      BY <3>3
    <3>6. Len(pending') = 1 /\ pending'[1] = a
      <4>1. Len(pending') = Len(pending) + 1 /\ pending'[Len(pending) + 1] = a
        BY <3>1, <3>2, <3>3, EnterActivation
      <4> QED
        BY <3>5, <4>1
    <3> QED
      BY <2>2, <3>4, <3>6 DEF SavedNothing, NoTypes
  <2> QED
    BY <2>5, <2>6 DEF WidthInv
<1>8. CASE ~rejected /\ open # <<>> /\ GenOther /\ UNCHANGED dropped
  <2>1. UNCHANGED <<varTypes, pending>> /\ access' = NoAccess
    BY <1>8 DEF GenOther, Silent
  <2>2. d \in Nat \ {0} /\ (FuncAt(1)' <=> FuncAt(1))
    BY <1>1, <1>4, <1>8
  <2>3. TypesCleared' /\ SavedNothing' /\ AccessIsTrue'
    BY <1>1, <2>1, <2>2 DEF WidthInv, TypesCleared, NoTypes, SavedNothing, AccessIsTrue,
                            NoAccess
  <2>4. \A k \in Nat : Nested(k)' <=> (Nested(k) \/ k = d + 1)
    <3>1. d + 1 # 1
      BY <2>2
    <3> QED
      BY <1>4, <3>1 DEF Nested
  <2>5. ASSUME NEW k \in Nat, Nested(k)', \A j \in Nat : Nested(j)' => k <= j
        PROVE  Agree(varTypes', dropped', open'[k].saved)
    <3>1. CASE Nested(k)
      <4>1. \A j \in Nat : Nested(j) => k <= j
        BY <2>4, <2>5
      <4>2. Agree(varTypes, dropped, open[k].saved) /\ open'[k] = open[k]
        BY <1>5, <3>1, <4>1 DEF WidthInv, WidthsAgree, Nested
      <4> QED
        BY <1>8, <2>1, <4>2
    <3>2. CASE ~Nested(k)
      <4>1. k = d + 1 /\ open'[k].saved = vars
        BY <1>2, <1>3, <2>4, <2>5, <3>2
      <4>2. \A j \in Nat : ~Nested(j)
        <5>1. \A j \in Nat : Nested(j) => j < d + 1 /\ d + 1 <= j
          BY <1>3, <1>5, <2>4, <2>5, <4>1 DEF Nested
        <5> QED
          BY <1>3, <5>1
      <4>3. Agree(varTypes, dropped, vars)
        BY <4>2 DEF WidthInv, WidthsAgree
      <4> QED
        BY <1>8, <2>1, <4>1, <4>3
    <3> QED
      BY <3>1, <3>2
  <2>6. WidthsAgree'
    <3>1. \E k \in Nat : Nested(k)'
      BY <1>3, <2>4
    <3> QED
      BY <2>5, <3>1 DEF WidthsAgree
  <2> QED
    BY <2>3, <2>6 DEF WidthInv
<1> QED
  BY <1>1, <1>6, <1>7, <1>8 DEF Func

\* A function ends, and the checker is back at the map it saved.
LEMMA EndFuncWidths ==
  ASSUME CheckInv, GenInv, WidthInv, EndFunc
  PROVE  WidthInv'
<1> DEFINE d == Len(open) - 1
<1>1. /\ open \in Seq(Frames) /\ open # <<>>
      /\ open[Len(open)].stmt = "Func"
      /\ open' = SubSeq(open, 1, d)
      /\ vars' = open[Len(open)].saved
      /\ UNCHANGED rejected
  BY DEF CheckInv, TypeOKCheck, EndFunc, FuncEnd, Pop, Inside
<1>2. /\ d \in Nat /\ Len(open) = d + 1 /\ Len(open') = d
      /\ \A k \in 1 .. d : open'[k] = open[k]
  <2>1. d = Len(open) - 1
    OBVIOUS
  <2> HIDE DEF d
  <2>2. /\ Len(open') = d
        /\ \A k \in 1 .. d : open'[k] = open[k]
        /\ Len(open) \in Nat \ {0}
    BY <1>1, <2>1, DropLast
  <2> QED
    BY <2>1, <2>2
<1> HIDE DEF d
<1>3. FuncAt(d + 1) /\ vars' = open[d + 1].saved
  BY <1>1, <1>2 DEF FuncAt
<1>4. \A k \in Nat : FuncAt(k)' <=> FuncAt(k) /\ k # d + 1
  BY <1>2 DEF FuncAt
<1>5. \A k \in Nat : FuncAt(k) => k \in 1 .. d + 1 /\ (k # d + 1 => open'[k] = open[k])
  BY <1>2 DEF FuncAt
<1>6. CASE rejected' /\ NotCalled
  BY <1>6, NotCalledWidths
<1>7. CASE ~rejected' /\ Generated /\ GenFuncEnd
  <2>1. pending' = <<>> /\ varTypes' = Top.saved
    BY <1>7, GenFuncEndKeeps
  <2>2. pending # <<>> /\ Top.node = "Func" /\ access' = NoAccess
    BY <1>7 DEF GenFuncEnd, Silent
  <2>3. Top = pending[Len(pending)] /\ Len(pending) \in 1 .. Len(pending)
    BY <2>2 DEF Top, GenInv, GenTypes
  <2>4. \A n \in Names : varTypes'[n] = NoType
    BY <2>1, <2>2, <2>3 DEF WidthInv, SavedNothing, NoTypes
  <2>5. TypesCleared' /\ WidthsAgree'
    BY <2>4 DEF TypesCleared, NoTypes, WidthsAgree, Agree
  <2>6. SavedNothing' /\ AccessIsTrue'
    BY <2>1, <2>2 DEF SavedNothing, AccessIsTrue, NoAccess
  <2> QED
    BY <2>5, <2>6 DEF WidthInv
<1>8. CASE ~rejected' /\ ~Generated /\ GenOther
  <2>1. UNCHANGED <<varTypes, pending, dropped>> /\ access' = NoAccess
    BY <1>8 DEF GenOther, Silent, EndFunc, Same
  <2>2. SavedNothing' /\ AccessIsTrue'
    BY <2>1 DEF WidthInv, SavedNothing, AccessIsTrue, NoAccess
  <2>3. CASE d = 0
    <3>1. Generated
      BY <1>1, <1>2, <2>3 DEF Generated
    <3> QED
      BY <1>8, <3>1
  <2>4. CASE d # 0
    <3>1. Nested(d + 1) /\ d + 1 \in Nat /\ (FuncAt(1)' <=> FuncAt(1))
      BY <1>2, <1>3, <1>4, <2>4 DEF Nested
    <3>2. TypesCleared'
      BY <1>1, <2>1, <3>1 DEF WidthInv, TypesCleared, NoTypes
    <3>3. \A k \in Nat : Nested(k)' <=> Nested(k) /\ k # d + 1
      BY <1>4 DEF Nested
    <3>4. \A k \in Nat : Nested(k) => k <= d + 1
      BY <1>5 DEF Nested
    <3>5. ASSUME \A k \in Nat : ~Nested(k)'
          PROVE  Agree(varTypes', dropped', vars')
      <4>1. \A j \in Nat : Nested(j) => d + 1 <= j
        BY <1>2, <3>3, <3>5
      <4> QED
        BY <1>3, <2>1, <3>1, <4>1 DEF WidthInv, WidthsAgree
    <3>6. ASSUME NEW k \in Nat, Nested(k)', \A j \in Nat : Nested(j)' => k <= j
          PROVE  Agree(varTypes', dropped', open'[k].saved)
      <4>1. Nested(k) /\ k # d + 1 /\ k <= d + 1
        BY <3>3, <3>4, <3>6
      <4>2. \A j \in Nat : Nested(j) => k <= j
        BY <3>3, <3>6, <4>1
      <4>3. open'[k] = open[k]
        BY <1>5, <4>1 DEF Nested
      <4> QED
        BY <2>1, <4>1, <4>2, <4>3 DEF WidthInv, WidthsAgree
    <3>7. WidthsAgree'
      BY <3>5, <3>6 DEF WidthsAgree
    <3> QED
      BY <2>2, <3>2, <3>7 DEF WidthInv
  <2> QED
    BY <2>3, <2>4
<1> QED
  BY <1>6, <1>7, <1>8 DEF EndFunc, Gen


\* Any other statement of the checker: the functions stay, and so do the kinds.
CheckQuiet ==
  \/ \E stmt \in {"Loop", "Error"} : BlockBegin(stmt)
  \/ \E stmt \in {"Loop", "Error", "IfFalse", "Async"} : BlockEnd(stmt)
  \/ \E left, right \in Operands : IfBegin(left, right)
  \/ \E shares \in SUBSET Names : AsyncBegin(shares)
  \/ \E n \in Names : CheckAwait(n) \/ CheckShare(n)
  \/ IfElse \/ MemBegin \/ MemEnd \/ CheckNothing

\* Each of them leaves the functions and the map of kinds alone.
LEMMA CheckQuietSame ==
  ASSUME CheckInv, CheckQuiet
  PROVE  SameFuncs /\ UNCHANGED vars
<1>1. ASSUME NEW stmt \in Blocks, Push(Block(stmt))
      PROVE  SameFuncs
  <2>1. Block(stmt) \in Frames /\ Block(stmt).stmt # "Func"
    BY BlockType DEF Blocks
  <2> QED
    BY <1>1, <2>1, OpenMore
<1>2. ASSUME NEW stmt \in {"Loop", "Error"}, BlockBegin(stmt)
      PROVE  SameFuncs /\ UNCHANGED vars
  BY <1>1, <1>2 DEF BlockBegin, Blocks
<1>3. ASSUME NEW stmt \in {"Loop", "Error", "IfFalse", "Async"}, BlockEnd(stmt)
      PROVE  SameFuncs /\ UNCHANGED vars
  <2>1. stmt # "Func"
    OBVIOUS
  <2> QED
    BY <1>3, <2>1, OpenLess DEF BlockEnd
<1>4. ASSUME NEW left \in Operands, NEW right \in Operands, IfBegin(left, right)
      PROVE  SameFuncs /\ UNCHANGED vars
  BY <1>1, <1>4 DEF IfBegin, Blocks
<1>5. ASSUME NEW shares \in SUBSET Names, AsyncBegin(shares)
      PROVE  SameFuncs /\ UNCHANGED vars
  <2> DEFINE frame == [Block("Async") EXCEPT !.shares = shares, !.unseen = shares]
  <2>1. /\ frame \in Frames /\ frame.stmt # "Func"
    BY DEF Block, Blocks, Frames, Maps, NoNames
  <2>2. Push(frame) /\ UNCHANGED vars
    BY <1>5 DEF AsyncBegin
  <2> HIDE DEF frame
  <2> QED
    BY <2>1, <2>2, OpenMore
<1>6. ASSUME NEW n \in Names, CheckAwait(n)
      PROVE  SameFuncs /\ UNCHANGED vars
  BY <1>6, OpenSame DEF CheckAwait
<1>7. ASSUME NEW n \in Names, CheckShare(n)
      PROVE  SameFuncs /\ UNCHANGED vars
  <2>1. CASE UNCHANGED open
    BY <1>7, <2>1, OpenSame DEF CheckShare
  <2>2. CASE Inside("Async")
    <3> DEFINE top == open[Len(open)]
               frame == [top EXCEPT !.unseen = @ \ {n}]
    <3>1. open \in Seq(Frames) /\ open # <<>> /\ top.stmt = "Async"
      BY <2>2 DEF Inside, CheckInv, TypeOKCheck
    <3>2. top \in Frames
      BY <3>1
    <3>3. frame.stmt = "Async"
      BY <3>1, <3>2 DEF Frames
    <3>4. open' = [open EXCEPT ![Len(open)] = frame]
      BY <1>7, <2>2 DEF CheckShare
    <3> HIDE DEF frame
    <3> QED
      BY <1>7, <3>1, <3>3, <3>4, OpenChanged DEF CheckShare
  <2> QED
    BY <1>7, <2>1, <2>2 DEF CheckShare
<1>8. ASSUME IfElse
      PROVE  SameFuncs /\ UNCHANGED vars
  <2> DEFINE top == open[Len(open)]
             frame == [top EXCEPT !.stmt = "IfFalse"]
  <2>1. open \in Seq(Frames) /\ open # <<>> /\ top.stmt = "IfTrue"
    BY <1>8 DEF IfElse, Inside, CheckInv, TypeOKCheck
  <2>2. top \in Frames
    BY <2>1
  <2>3. frame.stmt = "IfFalse"
    BY <2>2 DEF Frames
  <2>4. open' = [open EXCEPT ![Len(open)] = frame]
    BY <1>8 DEF IfElse
  <2> HIDE DEF frame
  <2> QED
    BY <1>8, <2>1, <2>3, <2>4, OpenChanged DEF IfElse
<1>9. ASSUME MemBegin
      PROVE  SameFuncs /\ UNCHANGED vars
  BY <1>1, <1>9 DEF MemBegin, Blocks
<1>10. ASSUME MemEnd
       PROVE  SameFuncs /\ UNCHANGED vars
  <2>1. "Mem" # "Func"
    OBVIOUS
  <2> QED
    BY <1>10, <2>1, OpenLess DEF MemEnd
<1>11. ASSUME CheckNothing
       PROVE  SameFuncs /\ UNCHANGED vars
  BY <1>11, OpenSame DEF CheckNothing, checkVars
<1> QED
  BY <1>2, <1>3, <1>4, <1>5, <1>6, <1>7, <1>8, <1>9, <1>10, <1>11 DEF CheckQuiet

\* The statements that use no variable in the text.
LEMMA OtherWidths ==
  ASSUME CheckInv, GenInv, WidthInv,
         \/ Else \/ EndIf \/ EndLoop \/ Break \/ Continue \/ Other
         \/ Mem \/ EndMem \/ EndAsync \/ Error \/ EndError
         \/ \E shares \in SUBSET Names : Async(shares)
         \/ \E n \in Names : Await(n) \/ Share(n)
  PROVE  WidthInv'
<1>1. CheckQuiet
  BY DEF CheckQuiet, Else, EndIf, EndLoop, Break, Continue, Other, Mem, EndMem,
         EndAsync, AsyncEnd, Error, EndError, Async, Await, Share
<1>2. Same
  BY DEF Else, EndIf, EndLoop, Break, Continue, Other, Mem, EndMem,
         EndAsync, Error, EndError, Async, Await, Share
<1>3. \/ rejected' /\ NotCalled
      \/ ~rejected' /\ GenQuiet
  BY DEF Gen, GenQuiet, Else, EndIf, EndLoop, Break, Continue, Other, Mem, EndMem,
         EndAsync, Error, EndError, Async, Await, Share
<1> QED
  BY <1>1, <1>2, <1>3, CheckQuietSame, QuietWidths

\* Every step of the front end keeps the widths.
LEMMA WidthInvNext ==
  ASSUME CheckInv, GenInv, WidthInv, NextFront \/ UNCHANGED frontVars
  PROVE  WidthInv'
<1>1. ASSUME NEW n \in Names, NEW t \in Types, NEW e \in Exprs, Variable(n, t, e)
      PROVE  WidthInv'
  BY <1>1, VariableWidths
<1>2. ASSUME \/ \E n \in Names, t \in Types, e \in Exprs : Mutation(n, t, e)
             \/ \E n \in Names : Incr(n)
             \/ \E index, value \in Exprs : ArrayStore(index, value)
             \/ \E e \in Exprs : Return(e) \/ Call(e)
      PROVE  WidthInv'
  <2>1. UNCHANGED <<vars, open>> /\ Same
    BY <1>2 DEF Mutation, CheckMutation, Incr, ArrayStore, Return, CheckExprStatement,
                Call, CheckNothing, checkVars
  <2>2. \E by, uses : Gen(GenAccess(by, uses))
    BY <1>2 DEF Mutation, Incr, ArrayStore, Return, Call
  <2> QED
    BY <2>1, <2>2, AccessWidthsKept
<1>3. ASSUME NEW left \in Operands, NEW right \in Operands, If(left, right) \/ Loop(left, right)
      PROVE  WidthInv'
  <2>1. CheckQuiet
    BY <1>3 DEF CheckQuiet, If, Loop
  <2>2. Same /\ (Gen(GenIf(left, right)) \/ Gen(GenLoop(left, right)))
    BY <1>3 DEF If, Loop
  <2> QED
    BY <2>1, <2>2, CheckQuietSame, BranchWidths
<1>4. ASSUME NEW e \in Exprs, ExprStatement(e)
      PROVE  WidthInv'
  <2>1. UNCHANGED <<vars, open>> /\ Same
    BY <1>4 DEF ExprStatement, CheckExprStatement
  <2>2. \/ rejected' /\ NotCalled
        \/ ~rejected' /\ GenQuiet
    BY <1>4 DEF ExprStatement, Gen, GenQuiet
  <2> QED
    BY <2>1, <2>2, OpenSame, QuietWidths
<1>5. ASSUME NEW params \in Parameters, Func(params)
      PROVE  WidthInv'
  BY <1>5, FuncWidths
<1>6. CASE UNCHANGED frontVars
  <2>1. UNCHANGED <<vars, rejected, open, varTypes, pending, access, dropped>>
    BY <1>6 DEF frontVars, checkVars, genVars
  <2> QED
    BY <2>1 DEF WidthInv, TypesCleared, WidthsAgree, SavedNothing, AccessIsTrue, FuncAt, Nested
<1>7. CASE EndFunc
  BY <1>7, EndFuncWidths
<1> QED
  BY <1>1, <1>2, <1>3, <1>4, <1>5, <1>6, <1>7, OtherWidths DEF NextFront

\* Nothing has a type before the first function.
LEMMA WidthInvInit ==
  ASSUME InitFront
  PROVE  WidthInv
<1>1. /\ open = <<>> /\ pending = <<>> /\ access = NoAccess
      /\ \A n \in Names : varTypes[n] = NoType
  BY DEF InitFront, InitCheck, InitGen
<1> QED
  BY <1>1 DEF WidthInv, TypesCleared, NoTypes, WidthsAgree, Agree, SavedNothing, AccessIsTrue,
              NoAccess

\* For all programs: while the checker has not rejected it, the text initialises,
\* stores to and loads a variable with the width of the kind that the checker has
\* for it, in statements, values, arguments and conditions, through any nesting of
\* functions, Error bodies and declarations that hide others.  The address that a
\* dereference follows is not among them.
THEOREM AccessWidthsCorrect == SpecFront => []AccessWidths
<1>1. InitFront => WidthInv
  BY WidthInvInit
<1>2. CheckInv /\ GenInv /\ WidthInv /\ [NextFront]_frontVars => WidthInv'
  BY WidthInvNext
<1>3. WidthInv => AccessWidths
  <2> SUFFICES ASSUME WidthInv, NEW u \in access.uses, u.op \in Sized,
                      varTypes[u.name] # NoType, u.name \notin dropped, Known(vars[u.name])
               PROVE  u.width = WidthOfKind(vars[u.name])
    BY DEF AccessWidths
  <2>1. u.name \in Names /\ u.width = Width(varTypes[u.name])
    BY DEF WidthInv, AccessIsTrue
  <2>2. Agree(varTypes, dropped, vars)
    BY DEF WidthInv, AccessIsTrue, WidthsAgree
  <2> QED
    BY <2>1, <2>2 DEF Agree
<1> QED
  BY <1>1, <1>2, <1>3, FrontImplementsCheck, CheckInvAlways, GenInvAlways, PTL DEF SpecFront

=============================================================================
