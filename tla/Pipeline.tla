------------------------------ MODULE Pipeline ------------------------------
(***************************************************************************)
(* The compiler driver: cmd/main.go, compiler/frontend.go,                 *)
(* compiler/pipeline.go and backend/runner.go, with the files that one     *)
(* compilation after another reads and leaves behind.  A run of sim is a   *)
(* sequence of steps, each of which reads or writes one file, starts one   *)
(* tool or waits for the developer; between any two the developer may edit *)
(* a file or stop the run.                                                 *)
(*                                                                         *)
(* What a source does to the passes is data: s.flaws names the passes that *)
(* object to s and s.imports the modules that it imports.  An artefact is  *)
(* the source it was made from.                                            *)
(***************************************************************************)
EXTENDS Echo

CONSTANTS
  Projects,   \* the files there may be at first
  Edits,      \* Edits[f], what the developer may make of the file f
  Cels,       \* what the dependencies of project.cel may be
  Options,    \* the options a run may have
  Breakages,  \* the sets of things that fail during a run
  Empty,      \* a file of no bytes, or the first bytes of one
  MaxRuns, MaxEdits   \* bounds

Flaws == {"lexer", "parser", "manyParser", "types", "symbol"}
Breakable == {"iia", "bir", "cai", "out", "eho", "sim_backend", "cai_conv"}
Artefacts == {"bir", "cai", "out"}

ASSUME PipelineAssumption ==
  /\ \A s \in Sources : s.flaws \subseteq Flaws
  /\ Empty \notin Sources
  /\ Projects \subseteq [Range(Files) -> Sources \union {Absent, Unreadable}]
  /\ \A f \in Range(Files) : Edits[f] \subseteq Sources \union {Absent, Unreadable}
  /\ Options \subseteq [irOnly : BOOLEAN, dumpCFG : BOOLEAN]
  /\ \A b \in Breakages : b \subseteq Breakable
  /\ MaxRuns \in Nat /\ MaxEdits \in Nat

VARIABLES
  pc,        \* what sim does next, "idle" when it does not run
  prog,      \* the source that this run, or the last one, compiles
  options,   \* its options
  broken,    \* what fails during it
  cel,       \* the dependencies in project.cel
  deps,      \* celFile.Dependencies, as read by this run
  errors,    \* ctx.Diagnostics.HasErrors()
  answer,    \* the developer's answer: "none", "yes" or "no"
  final,     \* ReportEcho runs, and not RunEcho
  art,       \* the artefacts: a source, Empty or Absent
  before,    \* art and eho at the start of the run
  code,      \* "running", then "0", "1" or "killed"
  runs, edits

runVars == <<prog, options, broken, deps, before>>
userVars == <<cel, edits>>
vars == <<disk, reports, safe, listed, next, eho, pc, prog, options, broken, cel, deps,
          errors, answer, final, art, before, code, runs, edits>>

Init ==
  /\ disk \in Projects
  /\ reports = <<>> /\ safe = {} /\ listed = <<>> /\ next = 1 /\ eho = Absent
  /\ pc = "idle" /\ prog = Absent /\ broken = {}
  /\ options \in Options
  /\ cel = {} /\ deps = {}
  /\ errors = FALSE /\ answer = "none" /\ final = FALSE
  /\ art = [a \in Artefacts |-> Absent]
  /\ before = <<art, eho>>
  /\ code = "0" /\ runs = 0 /\ edits = 0

Exit(c) == pc' = "idle" /\ code' = c
EchoGone == reports' = <<>> /\ safe' = {} /\ listed' = <<>> /\ next' = 1
Goto(p) == pc' = p /\ UNCHANGED code
Works(x) == x \notin broken

-----------------------------------------------------------------------------
\* main: loadSource.  A .sml file becomes some .iia program in memory.
Start ==
  /\ pc = "idle" /\ runs < MaxRuns
  /\ runs' = runs + 1
  /\ options' \in Options /\ broken' \in Breakages
  /\ before' = <<art, eho>>
  /\ errors' = FALSE /\ answer' = "none" /\ final' = FALSE
  /\ \/ /\ disk[Target] \in Sources
        /\ prog' = disk[Target] /\ pc' = "cell" /\ code' = "running"
     \/ prog' \in Edits[Target] \intersect Sources /\ pc' = "transpile" /\ code' = "running"
     \/ /\ disk[Target] \notin Sources
        /\ prog' = Absent /\ pc' = "idle" /\ code' = "1"
  /\ UNCHANGED <<disk, reports, safe, listed, next, eho, cel, deps, art, edits>>

\* main writes the transpiled program beside the .sml, over the .iia that is there.
Transpile ==
  /\ pc = "transpile"
  /\ IF Works("iia") THEN disk' = [disk EXCEPT ![Target] = prog] /\ Goto("cell")
                     ELSE UNCHANGED disk /\ Exit("1")
  /\ UNCHANGED <<echoVars, eho, runVars, userVars, errors, answer, final, art, runs>>

\* LoadCell: what is wrong with project.cel is a warning.
LoadCell ==
  /\ pc = "cell"
  /\ deps' = cel
  /\ Goto("frontend")
  /\ UNCHANGED <<disk, echoVars, eho, prog, options, broken, before, userVars, errors, answer,
                 final, art, runs>>

\* RunFrontend: errors of the lexer and up to five of the parser do not stop it.
RunFrontend ==
  /\ pc = "frontend"
  /\ errors' = (prog.flaws \intersect (Flaws \ {"symbol"}) # {})
  /\ IF prog.flaws \intersect {"manyParser", "types"} = {} THEN Goto("imports") ELSE Exit("1")
  /\ UNCHANGED <<disk, echoVars, eho, runVars, userVars, answer, final, art, runs>>

\* Mutant: a missing import is an error, and the run goes on
CheckImportsGoesOn ==
  /\ pc = "imports"
  /\ Goto("bir")
  /\ errors' = (errors \/ ~(prog.imports \subseteq deps))
  /\ UNCHANGED <<disk, echoVars, eho, runVars, userVars, answer, final, art, runs>>

\* CheckImports
CheckImports ==
  /\ pc = "imports"
  /\ IF prog.imports \subseteq deps THEN Goto("bir") /\ UNCHANGED errors
                                    ELSE Exit("1") /\ errors' = TRUE
  /\ UNCHANGED <<disk, echoVars, eho, runVars, userVars, answer, final, art, runs>>

AfterBackend == IF options.dumpCFG THEN "exit" ELSE "scan"

\* backend.Run writes the .bir; when it cannot, main says so and goes on.
WriteBIR ==
  /\ pc = "bir"
  /\ IF Works("bir") THEN art' = [art EXCEPT !["bir"] = prog] /\ Goto("backend")
                     ELSE UNCHANGED art /\ Goto(AfterBackend)
  /\ UNCHANGED <<disk, echoVars, eho, runVars, userVars, errors, answer, final, runs>>

\* sim_backend opens the .out for writing and writes nothing to it.
RunBackend ==
  /\ pc = "backend"
  /\ art' = IF Works("sim_backend") /\ Works("out") THEN [art EXCEPT !["out"] = Empty] ELSE art
  /\ Goto(AfterBackend)
  /\ UNCHANGED <<disk, echoVars, eho, runVars, userVars, errors, answer, final, runs>>

-----------------------------------------------------------------------------
\* Mutant: ReportEcho does without Scan
EchoScanOnce ==
  /\ pc = "scan"
  /\ IF final THEN reports' = <<>> /\ safe' = {} /\ listed' = <<>> /\ next' = 1 ELSE Scan(prog)
  /\ Goto("glob")
  /\ UNCHANGED <<disk, eho, runVars, userVars, errors, answer, final, art, runs>>

\* RunEcho and ReportEcho
EchoScan ==
  /\ pc = "scan"
  /\ Scan(prog)
  /\ Goto("glob")
  /\ UNCHANGED <<disk, eho, runVars, userVars, errors, answer, final, art, runs>>

EchoGlob ==
  /\ pc = "glob"
  /\ Glob
  /\ Goto("read")
  /\ UNCHANGED <<disk, eho, runVars, userVars, errors, answer, final, art, runs>>

EchoRead ==
  /\ pc = "read"
  /\ ReadNext
  /\ UNCHANGED <<disk, eho, runVars, userVars, errors, answer, final, art, runs, pc, code>>

EchoSafe ==
  /\ pc = "read" /\ next > Len(listed)
  /\ CollectSafe
  /\ Goto("report")
  /\ UNCHANGED <<disk, eho, runVars, userVars, errors, answer, final, art, runs>>

\* WarnInline, and the report at the end of the pipeline
EchoReport ==
  /\ pc = "report"
  /\ Report(Works("eho"))
  /\ Goto(IF final THEN "exit" ELSE IF HasCurrentFileRisk THEN "prompt" ELSE "caigen")
  /\ UNCHANGED <<disk, echoVars, runVars, userVars, errors, answer, final, art, runs>>

\* "n" and "no" refuse, everything else, end of input included, consents
Answer ==
  /\ pc = "prompt"
  /\ answer' \in {"yes", "no"}
  /\ Goto(IF answer' = "yes" THEN "caigen" ELSE "exit")
  /\ UNCHANGED <<disk, echoVars, eho, runVars, userVars, errors, final, art, runs>>

\* GenerateCAIIR, and the end of --ir-only
GenerateCAIIR ==
  /\ pc = "caigen"
  /\ IF Works("cai")
     THEN /\ art' = [art EXCEPT !["cai"] = prog]
          /\ Goto(IF options.irOnly THEN "exit" ELSE "convert")
          /\ UNCHANGED errors
     ELSE UNCHANGED art /\ errors' = TRUE /\ Goto("exit")
  /\ UNCHANGED <<disk, echoVars, eho, runVars, userVars, answer, final, runs>>

Converts == Works("cai_conv") /\ Works("out") /\ "symbol" \notin art["cai"].flaws

\* Mutant: the exit status of cai_conv is not looked at
RunConverterQuietly ==
  /\ pc = "convert"
  /\ art' = IF Converts THEN [art EXCEPT !["out"] = art["cai"]] ELSE art
  /\ final' = TRUE
  /\ Goto("scan")
  /\ UNCHANGED <<disk, echoVars, eho, runVars, userVars, answer, runs, errors>>

\* RunConverter: cai_conv makes the binary from the .cai that is on disk.
RunConverter ==
  /\ pc = "convert"
  /\ IF Converts
     THEN /\ art' = [art EXCEPT !["out"] = art["cai"]]
          /\ final' = TRUE
          /\ UNCHANGED errors
          /\ Goto("scan")
     ELSE /\ errors' = TRUE
          /\ Goto("exit")
          /\ UNCHANGED <<art, final>>
  /\ UNCHANGED <<disk, echoVars, eho, runVars, userVars, answer, runs>>

\* the end of runCAI
Finish ==
  /\ pc = "exit"
  /\ Exit(IF errors THEN "1" ELSE "0")
  /\ EchoGone
  /\ UNCHANGED <<disk, eho, runVars, userVars, errors, answer, final, art, runs>>

-----------------------------------------------------------------------------
\* the artefact that a step writes, which a signal may leave cut off
Writes == CASE pc = "bir" -> {"bir"} [] pc = "caigen" -> {"cai"} [] pc = "convert" -> {"out"}
            [] OTHER -> {}

\* the developer stops the run
Interrupt ==
  /\ pc # "idle"
  /\ Exit("killed")
  /\ EchoGone
  /\ \E torn \in SUBSET Writes : art' = [a \in Artefacts |-> IF a \in torn THEN Empty ELSE art[a]]
  /\ UNCHANGED <<disk, eho, runVars, userVars, errors, answer, final, runs>>

\* the developer changes a file, during a run or between two
Edit ==
  /\ edits < MaxEdits
  /\ edits' = edits + 1
  /\ \/ /\ \E f \in Range(Files) : \E s \in Edits[f] : disk' = [disk EXCEPT ![f] = s]
        /\ UNCHANGED cel
     \/ cel' \in Cels /\ UNCHANGED disk
  /\ UNCHANGED <<echoVars, eho, pc, runVars, errors, answer, final, art, code, runs>>

\* a step that sim takes by itself
Step ==
  \/ Transpile \/ LoadCell \/ RunFrontend \/ CheckImports \/ WriteBIR \/ RunBackend
  \/ EchoScan \/ EchoGlob \/ EchoRead \/ EchoSafe \/ EchoReport
  \/ GenerateCAIIR \/ RunConverter \/ Finish

Next == Start \/ Step \/ Answer \/ Interrupt \/ Edit

\* A process that runs goes on; nobody need answer, edit or start anything.
Spec == Init /\ [][Next]_vars /\ WF_vars(Step)

-----------------------------------------------------------------------------
Listed(file, s) == eho # Absent /\ Range(Risks(file, s)) \subseteq Range(eho.reports)

\* No binary of a program in which Echo sees a risk block appears before the developer
\* has been asked and has not said no, whatever was edited since the program was read.
Consent ==
  [][art'["out"] # art["out"] /\ art'["out"] \in Sources
       => answer = "yes" \/ Risks(Stem, art'["out"]) = <<>>]_vars

\* While the developer is asked, project.eho already says where the blocks of the
\* program are, as the question tells them to look there.
QuestionIsBacked == pc = "prompt" /\ Works("eho") => Listed(Stem, prog)

\* After a build, project.eho lists each block that Echo sees in the program the binary
\* was made from, though the report is put together anew from files edited meanwhile.
ReportCoversBinary ==
  code = "0" /\ final /\ Works("eho") => art["out"] \in Sources /\ Listed(Stem, art["out"])

\* project.eho never lists a file both as one with risk blocks and as safe.
SafeOrRisky ==
  eho # Absent => \A i \in DOMAIN eho.reports : eho.reports[i].file \notin eho.safe

\* project.eho is true when the developer is asked to look into it, and after a build.
ReportIsTrue == QuestionIsBacked /\ ReportCoversBinary /\ SafeOrRisky

\* Exit status 0 of a run that was to build and was not refused: the .cai and the .out
\* are those of the program that was read, and no pass objected to it.
SuccessIsBuilt ==
  code = "0" /\ runs > 0 /\ ~options.irOnly /\ ~options.dumpCFG /\ answer # "no" =>
    /\ art["out"] = prog /\ art["cai"] = prog
    /\ prog.flaws = {} /\ prog.imports \subseteq deps

\* A run that is turned down by the parser, the type checker or project.cel leaves the
\* artefacts and the report of earlier runs as they were.
RejectedTouchesNothing ==
  code = "1" /\ prog # Absent
  /\ (prog.flaws \intersect {"manyParser", "types"} # {} \/ ~(prog.imports \subseteq deps))
  => before = <<art, eho>>

\* A run that starts ends, or waits for the answer: no file that appears, disappears or
\* cannot be read holds it up.
RunEnds == pc # "idle" ~> pc \in {"idle", "prompt"}

\* "All unsafe operations are made explicit and recorded" (docs/Echo.md): after a build,
\* project.eho lists each risk block that the binary contains.  CAI code is generated
\* for the bodies of Async as for those of the statements that Echo looks into.
Generated(block) == Range(block.in) \subseteq Descends \union {"Async"}
EveryRiskRecorded ==
  code = "0" /\ final /\ Works("eho") =>
    \A i \in DOMAIN prog.risks :
      Generated(prog.risks[i]) =>
        \E j \in DOMAIN eho.reports : eho.reports[j].line = prog.risks[i].line
=============================================================================
