-------------------------------- MODULE Echo --------------------------------
(***************************************************************************)
(* Echo, the report on Mem[risk{...}] blocks (echo/echo.go): the object    *)
(* that echo.New makes, and what each of its methods does to it and to     *)
(* project.eho.  ScanProject reads the files of the directory one by one,  *)
(* so each file it reads is a step of its own.                             *)
(*                                                                         *)
(* A program is here the sequence of its risk blocks in the order of the   *)
(* text, each with the kinds of the statements around it, outermost first. *)
(***************************************************************************)
EXTENDS Integers, Sequences, SequencesExt

CONSTANTS
  Files,       \* the names *.iia that the directory may have, in Glob's order
  Target,      \* the one that is compiled
  Stem,        \* its name without .iia, which echo.New is given
  Sources,     \* the programs; s.risks is the sequence of blocks of s
  Absent,      \* no such file
  Unreadable   \* a file that Glob lists and ReadFile cannot read

ReportEntry == [file : STRING, line : Nat]

ASSUME EchoAssumption ==
  /\ Files \in Seq(STRING) /\ Target \in Range(Files)
  /\ Stem \in STRING /\ Stem \notin Range(Files)
  /\ Absent \notin Sources /\ Unreadable \notin Sources
  /\ Absent \notin [reports : Seq(ReportEntry), safe : SUBSET Range(Files)]
  /\ \A s \in Sources : s.risks \in Seq([line : Nat, in : Seq(STRING)])

VARIABLES
  disk,      \* disk[f], the file f: a program, Absent or Unreadable
  reports,   \* e.reports
  safe,      \* e.safeFiles
  listed,    \* e.allIiaFiles
  next,      \* the index of the loop over them
  eho        \* project.eho: what Report wrote last, or Absent

echoVars == <<reports, safe, listed, next>>

\* scanNode looks into these statements and into no others
Descends == {"Func", "RawMem", "If", "Loop"}
Found(block) == Range(block.in) \subseteq Descends

\* What a loop over s has kept after each turn, if it keeps what is in T.
Keeping(s, T) ==
  LET upto[i \in 0 .. Len(s)] ==
        IF i = 0 THEN <<>>
        ELSE IF s[i] \in T THEN Append(upto[i - 1], s[i]) ELSE upto[i - 1]
  IN upto

Kept(s, T) == Keeping(s, T)[Len(s)]

\* scanAST: what it appends to the reports
Risks(file, s) ==
  LET found == Kept(s.risks, {block \in Range(s.risks) : Found(block)})
  IN [i \in DOMAIN found |-> [file |-> file, line |-> found[i].line]]

\* echo.New and Scan
Scan(s) ==
  /\ reports' = Risks(Stem, s)
  /\ safe' = {} /\ listed' = <<>> /\ next' = 1

\* ScanProject: filepath.Glob
Glob ==
  /\ listed' = Kept(Files, {f \in Range(Files) : disk[f] # Absent})
  /\ UNCHANGED <<reports, safe, next>>

\* Mutant: a file that cannot be read is tried again
ReadNextRetries ==
  /\ next <= Len(listed)
  /\ IF disk[listed[next]] \in Sources
     THEN reports' = reports \o Risks(listed[next], disk[listed[next]]) /\ next' = next + 1
     ELSE UNCHANGED <<reports, next>>
  /\ UNCHANGED <<safe, listed>>

\* The compiled file is not skipped: its name on disk is never Stem.
ReadNext ==
  /\ next <= Len(listed)
  /\ reports' = IF disk[listed[next]] \in Sources /\ listed[next] # Stem
                THEN reports \o Risks(listed[next], disk[listed[next]])
                ELSE reports
  /\ next' = next + 1
  /\ UNCHANGED <<safe, listed>>

ReportedFiles == {reports[i].file : i \in DOMAIN reports}

\* the end of ScanProject
CollectSafe ==
  /\ safe' = Range(listed) \ ReportedFiles
  /\ UNCHANGED <<reports, listed, next>>

\* Mutant: the name is compared with its extension on
OwnRiskOnDisk == \E i \in DOMAIN reports : reports[i].file = Target

HasCurrentFileRisk == \E i \in DOMAIN reports : reports[i].file = Stem

\* Report: an error of WriteFile is not looked at
Report(writable) ==
  eho' = IF writable THEN [reports |-> reports, safe |-> safe] ELSE eho
=============================================================================
