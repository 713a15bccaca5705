---------------------------- MODULE PipelineProofs ----------------------------
(***************************************************************************)
(* The compiler driver with Echo, for every project, every sequence of      *)
(* runs, edits and interrupts, and every set of things that fail.           *)
(***************************************************************************)
EXTENDS Pipeline, SequenceTheorems, WellFoundedInduction, TLAPS

(***************************************************************************)
(* What Echo finds in a program.                                           *)
(***************************************************************************)

\* Induction on numbers, by the least one that is an exception.
LEMMA LeastNat ==
  ASSUME NEW T \in SUBSET Nat, T # {}
  PROVE  \E m \in T : \A k \in T : m <= k
<1> DEFINE R == OpToRel(<, Nat)
<1>1. IsWellFoundedOn(R, Nat)
  BY NatLessThanWellFounded
<1>2. PICK m \in T : \A k \in T : ~ (<<k, m>> \in R)
  <2> HIDE DEF R
  <2> QED BY <1>1, WFMin
<1>3. \A k \in T : ~(k < m)
  BY <1>2 DEF OpToRel
<1> QED
  BY <1>3

\* One turn of the loop over s, from what g has of the turns before it.
Turn(s, T, g, i) ==
  IF i = 0 THEN <<>>
  ELSE IF s[i] \in T THEN Append(g[i - 1], s[i]) ELSE g[i - 1]

\* The recursion has a value: if there were none for some number of turns, there
\* would be a least one, and the value for one turn less is easily gone on with.
LEMMA KeepingIsDefined ==
  ASSUME NEW S, NEW s \in Seq(S), NEW T
  PROVE  Keeping(s, T) = [i \in 0 .. Len(s) |-> Turn(s, T, Keeping(s, T), i)]
<1> DEFINE V(g, i) == Turn(s, T, g, i)
           Upto(g, n) == g = [i \in 0 .. n |-> V(g, i)]
           Bad == {n \in Nat : ~ \E g : Upto(g, n)}
<1>1. Len(s) \in Nat
  BY LenProperties
<1>2. Bad = {}
  <2> SUFFICES ASSUME Bad # {} PROVE FALSE
    OBVIOUS
  <2>1. PICK m \in Bad : \A k \in Bad : m <= k
    BY LeastNat
  <2>2. CASE m = 0
    <3> DEFINE g == [i \in 0 .. 0 |-> <<>>]
    <3>1. Upto(g, 0)
      BY DEF Turn
    <3> QED
      BY <2>2, <3>1
  <2>3. CASE m # 0
    <3>1. m - 1 \in Nat /\ m - 1 \notin Bad
      <4>1. m \in Nat
        BY <2>1
      <4>2. m - 1 \in Nat /\ ~(m <= m - 1)
        BY <4>1, <2>3
      <4> HIDE DEF Bad
      <4> QED
        BY <4>2, <2>1
    <3>2. PICK h : Upto(h, m - 1)
      BY <3>1
    <3> DEFINE g == [i \in 0 .. m |-> IF i = m THEN V(h, m) ELSE h[i]]
    <3>3. ASSUME NEW i \in 0 .. m
          PROVE  g[i] = V(g, i)
      <4>1. CASE i = 0
        BY <4>1, <3>2, <2>3 DEF Turn
      <4>2. CASE i # 0
        <5>1. i - 1 \in 0 .. m /\ i - 1 # m /\ g[i - 1] = h[i - 1]
          BY <4>2
        <5>2. CASE i = m
          BY <5>1, <5>2, <4>2 DEF Turn
        <5>3. CASE i # m
          <6>1. i \in 0 .. m - 1
            BY <5>3
          <6>2. h[i] = V(h, i)
            BY <6>1, <3>2
          <6> QED
            BY <5>1, <5>3, <6>2, <4>2 DEF Turn
        <5> QED
          BY <5>2, <5>3
      <4> QED
        BY <4>1, <4>2
    <3>4. Upto(g, m)
      <4>1. g = [i \in 0 .. m |-> g[i]]
        OBVIOUS
      <4> HIDE DEF g, V
      <4> QED
        BY <4>1, <3>3
    <3> QED
      BY <3>4, <2>1
  <2> QED
    BY <2>2, <2>3
<1>3. \E g : Upto(g, Len(s))
  BY <1>1, <1>2
<1>4. Keeping(s, T) = CHOOSE g : Upto(g, Len(s))
  BY DEF Keeping, Turn
<1>5. Upto(Keeping(s, T), Len(s))
  <2> HIDE DEF Upto
  <2> QED BY <1>3, <1>4
<1> QED
  BY <1>5

\* What a loop keeps is a sequence of what it was to keep.
LEMMA KeptType ==
  ASSUME NEW S, NEW s \in Seq(S), NEW T
  PROVE  Kept(s, T) \in Seq(S \intersect T)
<1> DEFINE f == Keeping(s, T)
           Bad == {n \in Nat : n <= Len(s) /\ f[n] \notin Seq(S \intersect T)}
<1>1. Len(s) \in Nat
  BY LenProperties
<1>2. ASSUME NEW i \in 0 .. Len(s)
      PROVE  f[i] = Turn(s, T, f, i)
  <2>1. f = [j \in 0 .. Len(s) |-> Turn(s, T, f, j)]
    BY KeepingIsDefined
  <2> HIDE DEF f
  <2> QED
    BY <2>1
<1> HIDE DEF f
<1>3. Bad = {}
  <2> SUFFICES ASSUME Bad # {} PROVE FALSE
    OBVIOUS
  <2>1. PICK m \in Bad : \A k \in Bad : m <= k
    BY LeastNat
  <2>2. m \in 0 .. Len(s) /\ f[m] \notin Seq(S \intersect T)
    <3>1. m \in Nat /\ m <= Len(s) /\ f[m] \notin Seq(S \intersect T)
      BY <2>1
    <3>2. m \in 0 .. Len(s)
      BY <3>1, <1>1
    <3> QED
      BY <3>1, <3>2
  <2>3. f[m] = Turn(s, T, f, m)
    BY <2>2, <1>2
  <2>4. m # 0
    BY <2>2, <2>3, EmptySeq DEF Turn
  <2>5. m - 1 \in Nat /\ m - 1 <= Len(s) /\ ~(m <= m - 1)
    BY <2>2, <2>4, <1>1
  <2>6. m - 1 \notin Bad
    <3> HIDE DEF Bad
    <3> QED BY <2>1, <2>5
  <2>7. f[m - 1] \in Seq(S \intersect T)
    BY <2>5, <2>6
  <2>8. s[m] \in S
    BY <2>2, <2>4, <1>1, ElementOfSeq
  <2>9. s[m] \in T => Append(f[m - 1], s[m]) \in Seq(S \intersect T)
    BY <2>7, <2>8, AppendProperties
  <2> QED
    BY <2>2, <2>3, <2>4, <2>7, <2>9 DEF Turn
<1>4. Len(s) \notin Bad
  BY <1>3
<1>5. Len(s) <= Len(s)
  BY <1>1
<1> QED
  BY <1>1, <1>4, <1>5 DEF Kept, f

Entries(file) == {r \in ReportEntry : r.file = file}

\* What Scan and ScanProject append for a file are entries for that file.
LEMMA RisksAreEntries ==
  ASSUME NEW file \in STRING, NEW s \in Sources
  PROVE  Risks(file, s) \in Seq(Entries(file))
<1> DEFINE Blocks == [line : Nat, in : Seq(STRING)]
           found == Kept(s.risks, {block \in Range(s.risks) : Found(block)})
           e(i) == [file |-> file, line |-> found[i].line]
<1>1. s.risks \in Seq(Blocks)
  BY EchoAssumption
<1>2. found \in Seq(Blocks)
  <2> DEFINE F == {block \in Range(s.risks) : Found(block)}
  <2>1. found \in Seq(Blocks \intersect F)
    BY <1>1, KeptType
  <2> HIDE DEF F, found, Blocks
  <2>2. Blocks \intersect F \subseteq Blocks
    OBVIOUS
  <2> QED
    BY <2>1, <2>2, SeqMonotonic
<1> HIDE DEF found
<1>3. Len(found) \in Nat /\ found \in [1 .. Len(found) -> Blocks] /\ DOMAIN found = 1 .. Len(found)
  BY <1>2, LenProperties
<1>4. \A i \in 1 .. Len(found) : e(i) \in Entries(file)
  BY <1>3 DEF Entries, ReportEntry
<1>5. [i \in 1 .. Len(found) |-> e(i)] \in [1 .. Len(found) -> Entries(file)]
  BY <1>4
<1>6. [i \in 1 .. Len(found) |-> e(i)] \in Seq(Entries(file))
  <2> HIDE DEF e
  <2> QED BY <1>3, <1>5, SeqDef
<1> QED
  BY <1>3, <1>6 DEF Risks, found
\* In a report they are entries of any kind.
LEMMA RisksAreReported ==
  ASSUME NEW file \in STRING, NEW s \in Sources
  PROVE  Risks(file, s) \in Seq(ReportEntry)
<1> DEFINE E == Entries(file)
<1>1. Risks(file, s) \in Seq(E)
  BY RisksAreEntries
<1>2. E \subseteq ReportEntry
  BY DEF Entries
<1> HIDE DEF E
<1> QED
  BY <1>1, <1>2, SeqMonotonic

\* A program with blocks that Echo sees has one that is reported under the name that
\* it was scanned under.
LEMMA RiskIsNamed ==
  ASSUME NEW file \in STRING, NEW s \in Sources, Risks(file, s) # <<>>
  PROVE  \E r \in Range(Risks(file, s)) : r.file = file
<1> DEFINE E == Entries(file)
           q == Risks(file, s)
<1>1. q \in Seq(E)
  BY RisksAreEntries
<1> HIDE DEF E, q
<1>2. Len(q) \in Nat \ {0} /\ DOMAIN q = 1 .. Len(q)
  BY <1>1, EmptySeq, LenProperties DEF q
<1>3. 1 \in DOMAIN q /\ q[1] \in E
  BY <1>1, <1>2, ElementOfSeq
<1> QED
  BY <1>3 DEF E, Entries, q, Range

\* What was reported stays when more is reported.
LEMMA ConcatKeeps ==
  ASSUME NEW S, NEW s \in Seq(S), NEW u \in Seq(S)
  PROVE  s \o u \in Seq(S) /\ Range(s) \subseteq Range(s \o u)
<1>1. s \o u \in Seq(S) /\ Len(s \o u) = Len(s) + Len(u)
      /\ \A i \in 1 .. Len(s) : (s \o u)[i] = s[i]
  BY ConcatProperties
<1>2. Len(s) \in Nat /\ Len(u) \in Nat /\ DOMAIN s = 1 .. Len(s)
      /\ DOMAIN (s \o u) = 1 .. Len(s \o u)
  BY <1>1, LenProperties
<1>3. DOMAIN s \subseteq DOMAIN (s \o u)
  BY <1>1, <1>2
<1> QED
  BY <1>1, <1>2, <1>3 DEF Range

\* Glob lists files of the directory.
LEMMA GlobType ==
  ASSUME NEW T
  PROVE  Kept(Files, T) \in Seq(Range(Files))
<1>1. Files \in Seq(STRING)
  BY EchoAssumption
<1>2. Len(Files) \in Nat /\ Files \in [1 .. Len(Files) -> STRING] /\ DOMAIN Files = 1 .. Len(Files)
  BY <1>1, LenProperties
<1>3. Files \in [1 .. Len(Files) -> Range(Files)]
  BY <1>2 DEF Range
<1>4. Files \in Seq(Range(Files))
  BY <1>2, <1>3, SeqDef
<1>5. Kept(Files, T) \in Seq(Range(Files) \intersect T)
  BY <1>4, KeptType
<1>6. Range(Files) \intersect T \subseteq Range(Files)
  OBVIOUS
<1> QED
  BY <1>5, <1>6, SeqMonotonic

\* File names are strings.
LEMMA NamesAreStrings == Range(Files) \subseteq STRING /\ Target \in Range(Files) /\ Stem \in STRING
<1>1. Files \in Seq(STRING)
  BY EchoAssumption
<1>2. \A i \in DOMAIN Files : Files[i] \in STRING
  BY <1>1, LenProperties, ElementOfSeq
<1> QED
  BY <1>2, EchoAssumption DEF Range

(***************************************************************************)
(* The inductive invariant, one part for each thing that a run carries     *)
(* from one of its passes to the next.                                     *)
(***************************************************************************)

Passes == {"transpile", "cell", "frontend", "imports", "bir", "backend", "scan", "glob",
           "read", "report", "prompt", "caigen", "convert", "exit"}
BeforeImports == {"transpile", "cell", "frontend", "imports"}
Past(stage) == pc \notin {"idle", "transpile", "cell", "frontend"} \union stage

EhoFile == [reports : Seq(ReportEntry), safe : SUBSET Range(Files)]

Types ==
  /\ pc \in Passes \union {"idle"}
  /\ pc # "idle" => code = "running" /\ prog \in Sources
  /\ pc = "idle" => code \in {"0", "1", "killed"}
  /\ disk \in [Range(Files) -> Sources \union {Absent, Unreadable}]
  /\ art \in [Artefacts -> Sources \union {Empty, Absent}]
  /\ reports \in Seq(ReportEntry) /\ safe \subseteq Range(Files)
  /\ listed \in Seq(Range(Files)) /\ next \in Nat \ {0}
  /\ eho \in EhoFile \union {Absent}
  /\ errors \in BOOLEAN /\ final \in BOOLEAN /\ runs \in Nat

\* What was written is what was there, until no pass can turn the program down.
Rejects ==
  /\ pc \in BeforeImports => before = <<art, eho>>
  /\ Past({}) => prog.flaws \intersect {"manyParser", "types"} = {}
  /\ Past({"imports"}) => prog.imports \subseteq deps
  /\ RejectedTouchesNothing

\* A run without errors has met no flaw but those of the converter, and a run that
\* ends without errors has built, was asked not to, or was refused.
Builds ==
  /\ Past({}) /\ ~errors => prog.flaws \intersect (Flaws \ {"symbol"}) = {}
  /\ pc = "convert" => art["cai"] = prog
  /\ final /\ pc # "idle" =>
       /\ pc \in {"scan", "glob", "read", "report", "exit"}
       /\ art["cai"] = prog /\ art["out"] = prog /\ "symbol" \notin prog.flaws
  /\ pc = "exit" /\ ~errors => final \/ options.irOnly \/ options.dumpCFG \/ answer = "no"
  /\ SuccessIsBuilt

\* From Scan to Report, the reports have the entries of the program itself; from
\* Report on, project.eho has them.
Reports ==
  /\ pc \in {"glob", "read", "report"} => Range(Risks(Stem, prog)) \subseteq Range(reports)
  /\ pc = "report" => \A i \in DOMAIN reports : reports[i].file \notin safe
  /\ pc = "exit" /\ final /\ Works("eho") => Listed(Stem, prog)
  /\ ReportIsTrue

\* No code is generated for a program with blocks that Echo sees but on consent.
Asks == pc \in {"caigen", "convert"} => answer = "yes" \/ Risks(Stem, prog) = <<>>

Inv == Types /\ Rejects /\ Builds /\ Reports /\ Asks

-----------------------------------------------------------------------------
\* The types hold at first.
LEMMA TypesInit == Init => Types
<1> SUFFICES ASSUME Init PROVE Types
  OBVIOUS
<1>1. reports \in Seq(ReportEntry) /\ listed \in Seq(Range(Files))
  BY EmptySeq DEF Init
<1>2. disk \in [Range(Files) -> Sources \union {Absent, Unreadable}]
  BY PipelineAssumption DEF Init
<1>3. art \in [Artefacts -> Sources \union {Empty, Absent}]
  BY DEF Init
<1>4. errors \in BOOLEAN /\ final \in BOOLEAN
  BY DEF Init
<1>5. next \in Nat \ {0} /\ runs \in Nat
  BY DEF Init
<1>6. pc = "idle" /\ code = "0" /\ safe = {} /\ eho = Absent
  BY DEF Init
<1> QED
  BY <1>1, <1>2, <1>3, <1>4, <1>5, <1>6 DEF Types

\* What EchoRead appends.
LEMMA ReadNextType ==
  ASSUME Types, ReadNext
  PROVE  reports' \in Seq(ReportEntry) /\ Range(reports) \subseteq Range(reports')
<1>1. CASE reports' = reports
  BY <1>1 DEF Types
<1>2. CASE reports' # reports
  <2>1. next \in 1 .. Len(listed)
    <3>1. Len(listed) \in Nat
      BY LenProperties DEF Types
    <3> QED
      BY <3>1 DEF Types, ReadNext
  <2>2. listed[next] \in STRING
    <3>1. listed[next] \in Range(Files)
      BY <2>1, ElementOfSeq DEF Types
    <3> QED
      BY <3>1, NamesAreStrings
  <2>3. disk[listed[next]] \in Sources
        /\ reports' = reports \o Risks(listed[next], disk[listed[next]])
    BY <1>2 DEF ReadNext
  <2> QED
    BY <2>2, <2>3, RisksAreReported, ConcatKeeps DEF Types
<1> QED
  BY <1>1, <1>2

\* Every step keeps the types.
LEMMA TypesStep == Types /\ [Next]_vars => Types'
<1> SUFFICES ASSUME Types, [Next]_vars PROVE Types'
  OBVIOUS
<1> USE DEF Types, Passes, Exit, Goto, runVars, userVars, echoVars
<1>1. CASE Start
  <2>1. \/ pc' = "idle" /\ code' = "1"
        \/ pc' \in {"cell", "transpile"} /\ code' = "running" /\ prog' \in Sources
    BY <1>1 DEF Start
  <2>2. runs' \in Nat
    BY <1>1 DEF Start
  <2>3. errors' \in BOOLEAN /\ final' \in BOOLEAN
    BY <1>1 DEF Start
  <2>4. UNCHANGED <<disk, reports, safe, listed, next, eho, art>>
    BY <1>1 DEF Start
  <2>5. /\ pc' \in Passes \union {"idle"}
        /\ pc' # "idle" => code' = "running" /\ prog' \in Sources
        /\ pc' = "idle" => code' \in {"0", "1", "killed"}
    BY <2>1
  <2> QED
    BY <2>2, <2>3, <2>4, <2>5
<1>2. CASE Transpile
  BY <1>2, NamesAreStrings DEF Transpile
<1>3. CASE LoadCell
  BY <1>3 DEF LoadCell
<1>4. CASE RunFrontend
  BY <1>4 DEF RunFrontend
<1>5. CASE CheckImports
  BY <1>5 DEF CheckImports
<1>6. CASE WriteBIR
  BY <1>6 DEF WriteBIR, AfterBackend, Artefacts
<1>7. CASE RunBackend
  BY <1>7 DEF RunBackend, AfterBackend, Artefacts
<1>8. CASE EchoScan
  <2>1. reports' \in Seq(ReportEntry) /\ listed' \in Seq(Range(Files))
    BY <1>8, RisksAreReported, NamesAreStrings, EmptySeq DEF EchoScan, Scan
  <2> QED
    BY <1>8, <2>1 DEF EchoScan, Scan
<1>9. CASE EchoGlob
  <2>1. listed' \in Seq(Range(Files))
    BY <1>9, GlobType DEF EchoGlob, Glob
  <2> QED
    BY <1>9, <2>1 DEF EchoGlob, Glob
<1>10. CASE EchoRead
  <2>1. reports' \in Seq(ReportEntry)
    BY <1>10, ReadNextType DEF EchoRead
  <2> QED
    BY <1>10, <2>1 DEF EchoRead, ReadNext
<1>11. CASE EchoSafe
  <2>1. Range(listed) \subseteq Range(Files)
    BY LenProperties, ElementOfSeq DEF Range
  <2> QED
    BY <1>11, <2>1 DEF EchoSafe, CollectSafe
<1>12. CASE EchoReport
  BY <1>12 DEF EchoReport, Report, EhoFile
<1>13. CASE GenerateCAIIR
  BY <1>13 DEF GenerateCAIIR, Artefacts
<1>14. CASE RunConverter
  BY <1>14 DEF RunConverter, Artefacts
<1>15. CASE Finish
  BY <1>15, EmptySeq DEF Finish, EchoGone
<1>16. CASE Answer
  BY <1>16 DEF Answer
<1>17. CASE Interrupt
  BY <1>17, EmptySeq DEF Interrupt, EchoGone
<1>18. CASE Edit
  BY <1>18, PipelineAssumption DEF Edit
<1>19. CASE UNCHANGED vars
  BY <1>19 DEF vars
<1> QED
  BY <1>1, <1>2, <1>3, <1>4, <1>5, <1>6, <1>7, <1>8, <1>9, <1>10, <1>11, <1>12, <1>13, <1>14,
     <1>15, <1>16, <1>17, <1>18, <1>19 DEF Next, Step

\* Every step keeps what a rejected run leaves alone.
LEMMA RejectsStep == Types /\ Rejects /\ [Next]_vars => Rejects'
<1> SUFFICES ASSUME Types, Rejects, [Next]_vars PROVE Rejects'
  OBVIOUS
<1> USE DEF Rejects, RejectedTouchesNothing, Past, BeforeImports, Exit, Goto, runVars, userVars,
            echoVars
<1>1. CASE Start
  BY <1>1 DEF Start
<1>2. CASE Transpile
  BY <1>2 DEF Transpile
<1>3. CASE LoadCell
  BY <1>3 DEF LoadCell
<1>4. CASE RunFrontend
  BY <1>4 DEF RunFrontend
<1>5. CASE CheckImports
  BY <1>5 DEF CheckImports
<1>6. CASE WriteBIR
  BY <1>6 DEF WriteBIR, AfterBackend
<1>7. CASE RunBackend
  BY <1>7 DEF RunBackend, AfterBackend
<1>8. CASE EchoScan
  BY <1>8 DEF EchoScan
<1>9. CASE EchoGlob
  BY <1>9 DEF EchoGlob
<1>10. CASE EchoRead
  BY <1>10 DEF EchoRead
<1>11. CASE EchoSafe
  BY <1>11 DEF EchoSafe
<1>12. CASE EchoReport
  BY <1>12 DEF EchoReport
<1>13. CASE GenerateCAIIR
  BY <1>13 DEF GenerateCAIIR
<1>14. CASE RunConverter
  BY <1>14 DEF RunConverter
<1>15. CASE Finish
  <2>1. ~(prog.flaws \intersect {"manyParser", "types"} # {} \/ ~(prog.imports \subseteq deps))
    BY <1>15 DEF Finish
  <2> QED
    BY <1>15, <2>1 DEF Finish
<1>16. CASE Answer
  BY <1>16 DEF Answer
<1>17. CASE Interrupt
  BY <1>17 DEF Interrupt
<1>18. CASE Edit
  BY <1>18 DEF Edit
<1>19. CASE UNCHANGED vars
  BY <1>19 DEF vars
<1> QED
  BY <1>1, <1>2, <1>3, <1>4, <1>5, <1>6, <1>7, <1>8, <1>9, <1>10,
     <1>11, <1>12, <1>13, <1>14, <1>15, <1>16, <1>17, <1>18, <1>19 DEF Next, Step

\* Every step keeps what a run without errors has done.
LEMMA BuildsStep == Types /\ Rejects /\ Builds /\ [Next]_vars => Builds'
<1> SUFFICES ASSUME Types, Rejects, Builds, [Next]_vars PROVE Builds'
  OBVIOUS
<1> USE DEF Builds, SuccessIsBuilt, Past, BeforeImports, Exit, Goto, runVars, userVars, echoVars
<1>1. CASE Start
  <2>1. pc' \in {"idle", "cell", "transpile"} /\ code' # "0" /\ ~final'
    BY <1>1 DEF Start
  <2> QED
    BY <2>1
<1>2. CASE Transpile
  BY <1>2 DEF Transpile
<1>3. CASE LoadCell
  <2>1. pc = "cell" /\ pc' = "frontend" /\ code' # "0" /\ UNCHANGED final
    BY <1>3 DEF LoadCell, Types
  <2> QED
    BY <2>1
<1>4. CASE RunFrontend
  <2>1. ~errors' => prog.flaws \intersect (Flaws \ {"symbol"}) = {}
    BY <1>4 DEF RunFrontend
  <2>2. pc = "frontend" /\ pc' \in {"imports", "idle"} /\ code' # "0"
    BY <1>4 DEF RunFrontend, Types
  <2>3. UNCHANGED <<prog, final>>
    BY <1>4 DEF RunFrontend
  <2> QED
    BY <2>1, <2>2, <2>3
<1>5. CASE CheckImports
  <2>1. pc = "imports" /\ pc' \in {"bir", "idle"} /\ code' # "0"
    BY <1>5 DEF CheckImports, Types
  <2>2. UNCHANGED <<prog, final>> /\ (~errors' => ~errors)
    BY <1>5 DEF CheckImports
  <2> QED
    BY <2>1, <2>2
<1>6. CASE WriteBIR
  <2>1. /\ pc = "bir" /\ pc' \in {"exit", "scan", "backend"} /\ code' # "0"
        /\ UNCHANGED <<prog, options, errors, final>>
    BY <1>6 DEF WriteBIR, AfterBackend, Types
  <2>2. pc' = "exit" => options.dumpCFG
    BY <1>6 DEF WriteBIR, AfterBackend
  <2> QED
    BY <2>1, <2>2
<1>7. CASE RunBackend
  <2>1. /\ pc = "backend" /\ pc' \in {"exit", "scan"} /\ code' # "0"
        /\ UNCHANGED <<prog, options, errors, final>>
    BY <1>7 DEF RunBackend, AfterBackend, Types
  <2>2. pc' = "exit" => options.dumpCFG
    BY <1>7 DEF RunBackend, AfterBackend
  <2> QED
    BY <2>1, <2>2
<1>8. CASE EchoScan
  BY <1>8 DEF EchoScan
<1>9. CASE EchoGlob
  BY <1>9 DEF EchoGlob
<1>10. CASE EchoRead
  BY <1>10 DEF EchoRead
<1>11. CASE EchoSafe
  <2>1. pc = "read" /\ pc' = "report" /\ code' # "0"
    BY <1>11 DEF EchoSafe, Types
  <2>2. UNCHANGED <<prog, final, errors, art>>
    BY <1>11 DEF EchoSafe
  <2> QED
    BY <2>1, <2>2
<1>12. CASE EchoReport
  <2>1. pc = "report" /\ code' # "0" /\ pc' \in {"exit", "prompt", "caigen"} /\ (pc' = "exit" <=> final)
    BY <1>12 DEF EchoReport, Types
  <2>2. UNCHANGED <<prog, final, errors, art>>
    BY <1>12 DEF EchoReport
  <2> QED
    BY <2>1, <2>2
<1>13. CASE GenerateCAIIR
  <2>1. pc = "caigen" /\ pc' \in {"exit", "convert"} /\ code' # "0" /\ UNCHANGED <<prog, final, options, answer>>
    BY <1>13 DEF GenerateCAIIR, Types
  <2>2. CASE Works("cai")
    BY <1>13, <2>1, <2>2 DEF GenerateCAIIR, Types, Artefacts
  <2>3. CASE ~ Works("cai")
    <3>1. errors' /\ pc' = "exit"
      BY <1>13, <2>3 DEF GenerateCAIIR
    <3> QED
      BY <2>1, <3>1
  <2> QED
    BY <2>2, <2>3
<1>14. CASE RunConverter
  <2>1. pc = "convert" /\ pc' \in {"exit", "scan"} /\ code' # "0" /\ UNCHANGED <<prog, options, answer>>
    BY <1>14 DEF RunConverter, Types
  <2>2. art["cai"] = prog /\ ~final
    BY <2>1
  <2>3. CASE Converts
    <3>1. pc' = "scan" /\ (errors' <=> errors) /\ art' = [art EXCEPT !["out"] = art["cai"]]
      BY <1>14, <2>3 DEF RunConverter
    <3>2. art'["out"] = prog /\ art'["cai"] = prog /\ "symbol" \notin prog.flaws
      BY <2>2, <2>3, <3>1 DEF Types, Artefacts, Converts
    <3> QED
      BY <2>1, <3>1, <3>2
  <2>4. CASE ~ Converts
    <3>1. errors' /\ pc' = "exit" /\ ~final'
      BY <1>14, <2>2, <2>4 DEF RunConverter
    <3> QED
      BY <2>1, <3>1
  <2> QED
    BY <2>3, <2>4
<1>15. CASE Finish
  <2>1. /\ pc = "exit" /\ pc' = "idle"
        /\ UNCHANGED <<prog, options, errors, final, answer, art, deps>>
    BY <1>15 DEF Finish
  <2>2. SuccessIsBuilt'
    <3> SUFFICES ASSUME code' = "0", ~options.irOnly, ~options.dumpCFG, answer # "no"
                 PROVE  /\ art["out"] = prog /\ art["cai"] = prog
                        /\ prog.flaws = {} /\ prog.imports \subseteq deps
      BY <2>1
    <3>1. ~errors
      BY <1>15 DEF Finish
    <3>2. final
      BY <2>1, <3>1
    <3>3. prog.flaws \subseteq Flaws
      BY <2>1, PipelineAssumption DEF Types
    <3>4. "symbol" \notin prog.flaws /\ art["cai"] = prog /\ art["out"] = prog
      BY <2>1, <3>2
    <3>5. prog.flaws \intersect (Flaws \ {"symbol"}) = {}
      BY <2>1, <3>1
    <3> QED
      BY <2>1, <3>3, <3>4, <3>5 DEF Rejects
  <2> QED
    BY <2>1, <2>2
<1>16. CASE Answer
  <2>1. /\ pc = "prompt" /\ pc' \in {"exit", "caigen"} /\ code' # "0"
        /\ UNCHANGED <<prog, options, errors, final>>
    BY <1>16 DEF Answer, Types
  <2>2. pc' = "exit" => answer' = "no"
    BY <1>16 DEF Answer
  <2> QED
    BY <2>1, <2>2
<1>17. CASE Interrupt
  BY <1>17 DEF Interrupt
<1>18. CASE Edit
  BY <1>18 DEF Edit
<1>19. CASE UNCHANGED vars
  BY <1>19 DEF vars
<1> QED
  BY <1>1, <1>2, <1>3, <1>4, <1>5, <1>6, <1>7, <1>8, <1>9, <1>10,
     <1>11, <1>12, <1>13, <1>14, <1>15, <1>16, <1>17, <1>18, <1>19 DEF Next, Step

\* Every step keeps what the report says.
LEMMA ReportsStep == Types /\ Builds /\ Reports /\ [Next]_vars => Reports'
<1> SUFFICES ASSUME Types, Builds, Reports, [Next]_vars PROVE Reports'
  OBVIOUS
<1> USE DEF Reports, ReportIsTrue, QuestionIsBacked, ReportCoversBinary, SafeOrRisky, Listed, Works,
            Exit, Goto, runVars, userVars, echoVars
<1>1. CASE Start
  <2>1. pc' \in {"idle", "cell", "transpile"} /\ code' # "0" /\ eho' = eho
    BY <1>1 DEF Start
  <2> QED
    BY <2>1
<1>2. CASE Transpile
  <2>1. /\ pc = "transpile" /\ pc' \in {"cell", "idle"} /\ code' # "0"
        /\ UNCHANGED <<eho, prog, broken, final>>
    BY <1>2 DEF Transpile, Types
  <2> QED
    BY <2>1
<1>3. CASE LoadCell
  <2>1. /\ pc = "cell" /\ pc' = "frontend" /\ code' # "0"
        /\ UNCHANGED <<eho, prog, broken, final>>
    BY <1>3 DEF LoadCell, Types
  <2> QED
    BY <2>1
<1>4. CASE RunFrontend
  <2>1. /\ pc = "frontend" /\ pc' \in {"imports", "idle"} /\ code' # "0"
        /\ UNCHANGED <<eho, prog, broken, final>>
    BY <1>4 DEF RunFrontend, Types
  <2> QED
    BY <2>1
<1>5. CASE CheckImports
  <2>1. /\ pc = "imports" /\ pc' \in {"bir", "idle"} /\ code' # "0"
        /\ UNCHANGED <<eho, prog, broken, final>>
    BY <1>5 DEF CheckImports, Types
  <2> QED
    BY <2>1
<1>6. CASE WriteBIR
  <2>1. /\ pc = "bir" /\ pc' \in {"exit", "scan", "backend"} /\ code' # "0" /\ ~final'
        /\ UNCHANGED eho
    BY <1>6 DEF WriteBIR, AfterBackend, Types, Builds
  <2> QED
    BY <2>1
<1>7. CASE RunBackend
  <2>1. /\ pc = "backend" /\ pc' \in {"exit", "scan"} /\ code' # "0" /\ ~final'
        /\ UNCHANGED eho
    BY <1>7 DEF RunBackend, AfterBackend, Types, Builds
  <2> QED
    BY <2>1
<1>8. CASE EchoScan
  <2>1. pc' = "glob" /\ code' # "0" /\ UNCHANGED <<eho, prog>> /\ reports' = Risks(Stem, prog)
    BY <1>8 DEF EchoScan, Scan, Types
  <2> QED
    BY <2>1
<1>9. CASE EchoGlob
  <2>1. pc = "glob" /\ pc' = "read" /\ code' # "0" /\ UNCHANGED <<eho, prog, reports>>
    BY <1>9 DEF EchoGlob, Glob, Types
  <2> QED
    BY <2>1
<1>10. CASE EchoRead
  <2>1. pc = "read" /\ pc' = "read" /\ code' # "0" /\ UNCHANGED <<eho, prog>>
    BY <1>10 DEF EchoRead, Types
  <2>2. Range(reports) \subseteq Range(reports')
    BY <1>10, ReadNextType DEF EchoRead
  <2>3. Range(Risks(Stem, prog)) \subseteq Range(reports')
    BY <2>1, <2>2
  <2> QED
    BY <2>1, <2>3
<1>11. CASE EchoSafe
  <2>1. pc = "read" /\ pc' = "report" /\ code' # "0" /\ UNCHANGED <<eho, prog, reports>>
    BY <1>11 DEF EchoSafe, CollectSafe, Types
  <2>2. \A i \in DOMAIN reports : reports[i].file \notin safe'
    BY <1>11 DEF EchoSafe, CollectSafe, ReportedFiles
  <2>3. \A i \in DOMAIN reports' : reports'[i].file \notin safe'
    BY <2>1, <2>2
  <2> QED
    BY <2>1, <2>3
<1>12. CASE EchoReport
  <2>1. /\ pc = "report" /\ pc' \in {"exit", "prompt", "caigen"} /\ code' # "0"
        /\ UNCHANGED <<prog, broken, final>>
    BY <1>12 DEF EchoReport, Types
  <2>2. CASE Works("eho")
    <3>1. eho' = [reports |-> reports, safe |-> safe]
      BY <1>12, <2>2 DEF EchoReport, Report
    <3>2. eho' # Absent
      BY <3>1, EchoAssumption DEF Types
    <3>3. eho'.reports = reports /\ eho'.safe = safe
      BY <3>1
    <3>4. Listed(Stem, prog)'
      BY <2>1, <3>2, <3>3
    <3>5. SafeOrRisky'
      BY <2>1, <3>3
    <3> QED
      BY <2>1, <3>4, <3>5
  <2>3. CASE ~ Works("eho")
    <3>1. UNCHANGED eho
      BY <1>12, <2>3 DEF EchoReport, Report
    <3>2. SafeOrRisky'
      BY <3>1
    <3> QED
      BY <2>1, <2>3, <3>2
  <2> QED
    BY <2>2, <2>3
<1>13. CASE GenerateCAIIR
  <2>1. /\ pc = "caigen" /\ pc' \in {"exit", "convert"} /\ code' # "0" /\ ~final'
        /\ UNCHANGED eho
    BY <1>13 DEF GenerateCAIIR, Types, Builds
  <2> QED
    BY <2>1
<1>14. CASE RunConverter
  <2>1. /\ pc = "convert" /\ pc' \in {"exit", "scan"} /\ code' # "0" /\ (pc' = "exit" => ~final')
        /\ UNCHANGED eho
    BY <1>14 DEF RunConverter, Types, Builds
  <2> QED
    BY <2>1
<1>15. CASE Finish
  <2>1. pc = "exit" /\ pc' = "idle" /\ UNCHANGED <<eho, prog, broken, final, art>>
    BY <1>15 DEF Finish
  <2>2. ReportCoversBinary'
    <3> SUFFICES ASSUME final, Works("eho") PROVE art["out"] \in Sources /\ Listed(Stem, art["out"])
      BY <2>1
    <3>1. art["out"] = prog /\ prog \in Sources
      BY <2>1 DEF Builds, Types
    <3> QED
      BY <2>1, <3>1
  <2>3. SafeOrRisky'
    BY <2>1
  <2> QED
    BY <2>1, <2>2, <2>3
<1>16. CASE Answer
  <2>1. /\ pc = "prompt" /\ pc' \in {"exit", "caigen"} /\ code' # "0" /\ ~final'
        /\ UNCHANGED eho
    BY <1>16 DEF Answer, Types, Builds
  <2> QED
    BY <2>1
<1>17. CASE Interrupt
  <2>1. pc' = "idle" /\ code' = "killed" /\ eho' = eho
    BY <1>17 DEF Interrupt
  <2> QED
    BY <2>1
<1>18. CASE Edit
  <2>1. UNCHANGED <<eho, pc, prog, broken, final, art, code, reports, safe>>
    BY <1>18 DEF Edit
  <2> QED
    BY <2>1
<1>19. CASE UNCHANGED vars
  BY <1>19 DEF vars
<1> QED
  BY <1>1, <1>2, <1>3, <1>4, <1>5, <1>6, <1>7, <1>8, <1>9, <1>10,
     <1>11, <1>12, <1>13, <1>14, <1>15, <1>16, <1>17, <1>18, <1>19 DEF Next, Step

\* Every step keeps the consent.
LEMMA AsksStep == Types /\ Reports /\ Asks /\ [Next]_vars => Asks'
<1> SUFFICES ASSUME Types, Reports, Asks, [Next]_vars PROVE Asks'
  OBVIOUS
<1> USE DEF Asks, Exit, Goto, runVars, userVars, echoVars
<1>1. CASE Start
  BY <1>1 DEF Start
<1>2. CASE Transpile
  BY <1>2 DEF Transpile
<1>3. CASE LoadCell
  BY <1>3 DEF LoadCell
<1>4. CASE RunFrontend
  BY <1>4 DEF RunFrontend
<1>5. CASE CheckImports
  BY <1>5 DEF CheckImports
<1>6. CASE WriteBIR
  BY <1>6 DEF WriteBIR, AfterBackend
<1>7. CASE RunBackend
  BY <1>7 DEF RunBackend, AfterBackend
<1>8. CASE EchoScan
  BY <1>8 DEF EchoScan
<1>9. CASE EchoGlob
  BY <1>9 DEF EchoGlob
<1>10. CASE EchoRead
  BY <1>10 DEF EchoRead
<1>11. CASE EchoSafe
  BY <1>11 DEF EchoSafe
<1>12. CASE EchoReport
  <2>1. pc = "report" /\ UNCHANGED prog
    BY <1>12 DEF EchoReport
  <2>2. ASSUME pc' \in {"caigen", "convert"} PROVE Risks(Stem, prog) = <<>>
    <3> SUFFICES ASSUME Risks(Stem, prog) # <<>> PROVE FALSE
      OBVIOUS
    <3>1. PICK r \in Range(Risks(Stem, prog)) : r.file = Stem
      BY <2>1, RiskIsNamed, NamesAreStrings DEF Types
    <3>2. r \in Range(reports)
      BY <2>1 DEF Reports
    <3>3. HasCurrentFileRisk
      BY <3>1, <3>2 DEF HasCurrentFileRisk, Range
    <3> QED
      BY <1>12, <2>2, <3>3 DEF EchoReport
  <2> QED
    BY <2>1, <2>2
<1>13. CASE GenerateCAIIR
  BY <1>13 DEF GenerateCAIIR
<1>14. CASE RunConverter
  BY <1>14 DEF RunConverter
<1>15. CASE Finish
  BY <1>15 DEF Finish
<1>16. CASE Answer
  <2>1. pc' \in {"exit", "caigen"} /\ (pc' = "caigen" => answer' = "yes")
    BY <1>16 DEF Answer
  <2> QED
    BY <2>1
<1>17. CASE Interrupt
  BY <1>17 DEF Interrupt
<1>18. CASE Edit
  BY <1>18 DEF Edit
<1>19. CASE UNCHANGED vars
  BY <1>19 DEF vars
<1> QED
  BY <1>1, <1>2, <1>3, <1>4, <1>5, <1>6, <1>7, <1>8, <1>9, <1>10,
     <1>11, <1>12, <1>13, <1>14, <1>15, <1>16, <1>17, <1>18, <1>19 DEF Next, Step

-----------------------------------------------------------------------------
\* The invariant holds at first, and every step keeps it.
LEMMA InvInit == Init => Inv
<1> SUFFICES ASSUME Init PROVE Inv
  OBVIOUS
<1>1. Types
  BY TypesInit
<1>2. pc = "idle" /\ code = "0" /\ runs = 0 /\ ~final /\ eho = Absent
  BY DEF Init
<1>3. Rejects
  BY <1>2 DEF Rejects, RejectedTouchesNothing, Past, BeforeImports
<1>4. Builds
  BY <1>2 DEF Builds, SuccessIsBuilt, Past
<1>5. Reports
  BY <1>2 DEF Reports, ReportIsTrue, QuestionIsBacked, ReportCoversBinary, SafeOrRisky
<1>6. Asks
  BY <1>2 DEF Asks
<1> QED
  BY <1>1, <1>3, <1>4, <1>5, <1>6 DEF Inv

LEMMA InvStep == Inv /\ [Next]_vars => Inv'
  BY TypesStep, RejectsStep, BuildsStep, ReportsStep, AsksStep DEF Inv

\* The invariant is one of every behaviour.
LEMMA InvCorrect == Spec => []Inv
  BY InvInit, InvStep, PTL DEF Spec

\* For every project, dependencies, breakages and edits: a report that the developer is
\* pointed to, or that is there after a build, has each block that Echo sees in the
\* program, and calls no file safe that it reports on (echo.go, pipeline.go).
THEOREM ReportIsTrueCorrect == Spec => []ReportIsTrue
<1>1. Inv => ReportIsTrue
  BY DEF Inv, Reports
<1> QED
  BY <1>1, InvCorrect, PTL

\* For every project, dependencies, breakages and edits: exit status 0 of a run that was
\* to build means that the .cai and the .out are those of the program that was read and
\* that no pass objected to it (cmd/main.go, frontend.go, pipeline.go).
THEOREM SuccessIsBuiltCorrect == Spec => []SuccessIsBuilt
<1>1. Inv => SuccessIsBuilt
  BY DEF Inv, Builds
<1> QED
  BY <1>1, InvCorrect, PTL

\* For every project, dependencies, breakages and edits: a program that is turned down
\* by the parser, the type checker or project.cel leaves no trace in the artefacts.
THEOREM RejectedCorrect == Spec => []RejectedTouchesNothing
<1>1. Inv => RejectedTouchesNothing
  BY DEF Inv, Rejects
<1> QED
  BY <1>1, InvCorrect, PTL

\* The step that makes the binary is one of the converter, whose program was consented
\* to, or has no block that Echo sees.
LEMMA ConsentStep ==
  Inv /\ [Next]_vars =>
    [art'["out"] # art["out"] /\ art'["out"] \in Sources
       => answer = "yes" \/ Risks(Stem, art'["out"]) = <<>>]_vars
<1> SUFFICES ASSUME Inv, [Next]_vars, art'["out"] # art["out"], art'["out"] \in Sources
             PROVE  answer = "yes" \/ Risks(Stem, art'["out"]) = <<>>
  OBVIOUS
<1>1. Types /\ Builds /\ Asks
  BY DEF Inv
<1> USE <1>1 DEF Types, Artefacts, Exit, Goto, runVars, userVars, echoVars
<1>2. CASE Start
  BY <1>2 DEF Start
<1>3. CASE Transpile
  BY <1>3 DEF Transpile
<1>4. CASE LoadCell
  BY <1>4 DEF LoadCell
<1>5. CASE RunFrontend
  BY <1>5 DEF RunFrontend
<1>6. CASE CheckImports
  BY <1>6 DEF CheckImports
<1>7. CASE WriteBIR
  BY <1>7 DEF WriteBIR, AfterBackend
<1>8. CASE RunBackend
  <2>1. art'["out"] \in {art["out"], Empty}
    BY <1>8 DEF RunBackend
  <2> QED
    BY <2>1, PipelineAssumption
<1>9. CASE EchoScan
  BY <1>9 DEF EchoScan
<1>10. CASE EchoGlob
  BY <1>10 DEF EchoGlob
<1>11. CASE EchoRead
  BY <1>11 DEF EchoRead
<1>12. CASE EchoSafe
  BY <1>12 DEF EchoSafe
<1>13. CASE EchoReport
  BY <1>13 DEF EchoReport
<1>14. CASE GenerateCAIIR
  BY <1>14 DEF GenerateCAIIR
<1>15. CASE RunConverter
  <2>1. pc = "convert" /\ art'["out"] = art["cai"]
    BY <1>15 DEF RunConverter
  <2>2. art["cai"] = prog
    BY <2>1 DEF Builds
  <2> QED
    BY <2>1, <2>2 DEF Asks
<1>16. CASE Finish
  BY <1>16 DEF Finish
<1>17. CASE Answer
  BY <1>17 DEF Answer
<1>18. CASE Interrupt
  <2>1. PICK torn \in SUBSET Writes : art' = [a \in Artefacts |-> IF a \in torn THEN Empty ELSE art[a]]
    BY <1>18 DEF Interrupt
  <2> QED
    BY <2>1, PipelineAssumption
<1>19. CASE Edit
  BY <1>19 DEF Edit
<1>20. CASE UNCHANGED vars
  BY <1>20 DEF vars
<1> QED
  BY <1>2, <1>3, <1>4, <1>5, <1>6, <1>7, <1>8, <1>9, <1>10, <1>11,
     <1>12, <1>13, <1>14, <1>15, <1>16, <1>17, <1>18, <1>19, <1>20 DEF Next, Step

\* For every project, dependencies, breakages and edits, those during a run included: no
\* binary of a program in which Echo sees a risk block appears unless the developer was
\* asked and did not say no (pipeline.go).
THEOREM ConsentCorrect == Spec => Consent
  BY InvCorrect, ConsentStep, PTL DEF Spec, Consent
=============================================================================
