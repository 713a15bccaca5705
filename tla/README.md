# A verification development for the Similarity compiler

Similarity is a small systems language with a compiler, `sim`, written in Go
(front end, CAI generator, report tool) and C (`sim_backend`, which draws
control-flow graphs, and `cai_conv`, an assembler and linker that turns CAI
text into an ELF64 binary). This directory holds TLA+ modules translated from
that code, the TLC configurations that check them on small instances, and
theorems that the TLA+ proof system checks for every value of the constants.
All paths below are relative to the repository; line numbers are those of the
commit the development was written for.

Reading order: [1 inventory](#1-the-system), [2 modules](#2-modules-and-the-code),
[3 runs](#3-runs), [4 proofs](#4-proofs), [5 findings](#5-what-the-checks-found),
[6 what is left out](#6-what-is-not-modelled), [7 what would come next](#7-what-would-come-next).

## 1. The system

One run of `sim file.iia` (cmd/main.go) is a pipeline in one process that
starts two tools:

    file.sml -> transpiler ->
    file.iia -> lexer -> parser -> type checker -> analyzer      (Go, in memory)
                                        |
                  +---------------------+-----------------------+
                  v                                             v
         backend: file.bir -> sim_backend (C)          caigen: file.cai
         bir_parser -> cfg -> stderr, empties .out             |
                                                       cai_conv (C) -> file.out
    echo: scans program and *.iia, asks, writes project.eho  (before and after)
    cel:  reads project.cel, checks imports

Components interact through the AST (calls, no copies), through files
(.bir, .cai, .out, project.eho, project.cel) and through the exit status of the
two tools. Concurrency inside the process exists in one place only, the parser.
Outside it, the developer edits and interrupts while the pipeline runs.

| component | state it keeps | operations | what is hard | what makes it correct |
|---|---|---|---|---|
| CFG builder, cbackend/cfg.c | blocks with fixed-size edge lists, LoopStack | cfg_build; build_stmt per statement | every array has a limit at which something is dropped | edges in both directions; flow of control of the nested statements; back edges exactly those of loops |
| CAI converter: register allocation, cai_converter.c:606-727 | one VReg array for all functions, stack_used, reg_used | init_regalloc: seven loops | entries left by the previous function; sort between passes; 0 as "no slot" | every operand has one place; places are apart and in the frame; one owner of rbx |
| CAI converter: code generation, :225-434, :771-1377 | eax_holds, reg_used, the text | one case per CAI instruction | a cache of eax across labels, calls and 64-bit moves; 32-bit values in 64-bit slots | the text computes what the instructions mean |
| CAI converter: parser, symbols, ELF, :436-600, :729-770, :1379-1934 | symbol, label and patch tables | parse, resolve_labels, patch, write | unresolved label is a warning, unresolved symbol an exit | each patch gets the address of its name |
| driver, cmd/main.go, compiler/, backend/runner.go, cbackend/main.c | context with diagnostics, options, files | the steps of a run | partial failure, order of checks and writes, stale files | honest exit status; nothing written for a rejected program |
| Echo, echo/echo.go | reports, safe files; project.eho | Scan, ScanProject, WarnInline, Report | files are read again later than they were compiled | consent before a risky binary; a report that covers it |
| Cell, cel/cel.go | dependencies | Load, HasDependency | a missing file is an empty one | imports are subset of dependencies |
| lexer, lexer/lexer.go | position, line, errors | Tokenize, nextToken | recovery after an unknown character, unterminated strings, comments | no byte is lost between tokens; true lines and columns; ends with EOF |
| parser, parser/parser.go | token position, errors; sub-parsers in goroutines | ParseProgram, parse functions | goroutines share the error list; skipTopLevel finds the end of an item by its brackets alone, the grammar by its rules; recovery inside loops | what was written is what is read; results in source order whatever the schedule; no lost error; both ideas of an item agree; an end on every text |
| type checker, typecheck/typecheck.go | one map of names, inRisk, errors | checkX per node | the map is copied and put back around functions, not around blocks; inRisk is cleared by a nested block; the share check looks one level deep | a use is checked with its innermost declaration; a dereference needs a risk block; unshared writes are found |
| analyzer, analyzer/analyzer.go | maps of variables and functions, local lists, loop depth | pass1CollectFuncs, annotateFunc | two passes with two maps each; each walk descends into its own choice of statements | the slot, the uses and the result of a function have one width |
| BIR, backend/backend_func.go, backend/serial.go, cbackend/bir_parser.c | lines; functions with fixed arrays of statements, parameters, locals | Serialize, BuildBackendFunc, bir_parse, parse_stmts | statements the format has no word for; a list that is full is left and its terminator comes later; values without brackets | the parser reads what the serializer wrote, up to lists that are full, and never past an array |
| CAI generator, caigen/caigen.go | counters, types, break and continue labels | genX per node | labels saved and restored around loops; a map of types beside the checker's | every jump has a target, break and continue reach the innermost loop, stores and loads have the width of the checked type, dereferences go through pointers |
| transpiler, debug dumps, standard library, QBE and C generators | none | text to text | | out of scope, see 6 |

The hazards, each at its line and with the properties that would catch it, are
in PROJECT.json. They are of five kinds here: arrays with limits at which the
code drops something and goes on (cfg.c); state that outlives what it describes
(VReg entries, eax_holds, a program parsed before files were edited); a
sequence of steps of which one fails, or which is interrupted (driver); walks over the AST that leave a statement out (Echo, type checker, analyzer,
serializer); and two pieces of code that must agree on a thing neither of them
owns (skipTopLevel and the grammar on where an item ends, the serializer and the
C parser on where a value or a list ends, the passes of the analyzer on a width).

## 2. Modules and the code

PROJECT.json "map" gives for every definition the lines it stands for.

### Cfg, StructuredFlow (cbackend/cfg.c, cfg.h)

`Cfg` is `cfg_build` with all its limits as constants. The recursion
build_stmts / build_stmt is a stack `frames`, one entry per statement list that
is open; the tree is not given in advance: which statement comes next and where
a list ends is nondeterministic, so one behaviour is one function body and all
bodies up to the limits are covered. An action is one `case` of build_stmt
(`Return`, `IfBegin`, `EndTrue`, `EndFalse`, `LoopBegin`, `EndBody`, `Break`,
`Continue`, `PlainStmt`), with every new_block, add_edge, loop_push and so on that
the case calls, in order. `add_edge` at a limit drops the edge and prints;
`stderr` is the set of messages printed. `TooManyBlocks` is exit(1).

`StructuredFlow` is what a caller relies on: the edges that nested
statements have by their lexical nesting, with no loop stack and no array. It
also allows giving up, after a message. `DrawsStructuredFlow` says that Cfg
implements it under the mapping at the end of `Cfg`.

### CaiRegalloc (cai_converter.c: init_regalloc)

One action is one iteration of one loop of init_regalloc, for one function
after another of a file; `vregs` persists between functions as in the code (a
loop sets just the fields that the C loop sets). An instruction is its kind
and its operands. A behaviour ends where the alloc loop, which does not look at
MAX_REGS, would write past the table.

### CaiWords, CaiGen, CaiIR (cai_converter.c: gen_func)

A 64-bit value is a pair of words below W, so that "the upper half nobody
wrote" is visible. `CaiGen` compiles and runs at once: `holds` is the
compile-time cache eax_holds, `rax` and `cell` (slots and rbx) the machine. A
step compiles one CAI instruction with the cache its predecessor in the text
left and runs it on the state its predecessor in time left. After a jump the two
differ; that is what `AtLabel` models: at a label the machine may come from
elsewhere, with any rax. Which instruction is next, and on which operands, is
free (`Forms`); so is what callees, the kernel and foreign memory answer
(`Results`). Stores through pointers may hit a slot (`SlotAddr`).

`CaiIR` is what the instructions mean by CAI_SPEC.md: typed registers, no cache, no
rbx, no upper halves of i32s. `load`, `store`, `loadp2` and `storep` are reads and
writes of memory: of the slot if their pointer is the name of one (`Slots`, the
`%x.ptr` of the text), and of whatever lies at the address if it is a register that
holds one. A callee takes an i32 argument as 32 bits; the kernel gets its sign
extension. `ImplementsIR` says CaiGen implements it, `val` being the low halves of
i32s and all of i64s.

### Echo, Pipeline (echo.go, cmd/main.go, compiler/, runner.go, cbackend/main.c)

A run is a sequence of steps, `pc` saying which comes next; each reads or
writes one file, starts a tool or waits for the developer. Between any two the
developer may edit a file (`Edit`) or stop the run (`Interrupt`). What the passes
think of a program is data of the program (`flaws`, `imports`); its risk blocks
are a sequence, each with the statements around it, because Echo's walk looks
into some statements only. An artefact is the source it was made from, `Empty`
when truncated. `broken` is the set of files and tools that fail in a run.

Abstractions: a write that is interrupted leaves the file as it was, new or
(for .bir, .cai, .out) `Empty`; the transpiler yields any program; tools
terminate.

### Syntax, TypeCheck, Caigen, Frontend (typecheck.go, caigen.go, frontend.go)

`TypeCheck` is checkNode as a walk over an arbitrary program: `open` is the stack
of the statements whose bodies are being walked (with what checkFunc and
checkAsync keep in locals), an action is one case, begin and end of a body
being two. Values are records closed under their operands (`Exprs`), and
`CheckValue` gives for each its kind and whether it is free of errors. Which
errors there are is not kept, only that there is one: nothing else decides
whether the program is compiled. `scopes` is a history variable: what lexical
scoping by functions would have.

`Caigen` is genStmt with the same stack. Of the text it keeps the labels that
have a line, the labels that jumps name, and, in `access`, how the last statement uses
variables: it initialises one, stores to it or loads it, or it dereferences one in a
value or in an argument, each use with its width. `Reads` collects the uses of a value
with all its operands; a dereference reads 64 bits of its variable whatever the type
(:669). Temporaries and the other instructions of expressions are left out; `addr{x}`,
which uses no slot, is written as a `mov` (:661), an opcode that cai_conv does not have.

`Frontend` composes both over one program: every action is one of `TypeCheck`
together with what genStmt writes for the same statement, nothing where genStmt
is not called (top level, functions in functions, Error and GPU bodies). The code
runs one walk after the other; neither changes the tree, so the joint steps
reach the same pairs of states for every program that is accepted, and a program
that is rejected puts the generator back to where it is not called. `dropped` is
history, for names the text does not declare.

### Lexer, Parser, Source, MCSource (lexer.go, parser.go, frontend.go:27-46)

`Lexer` is `nextToken` on a text of characters: an action is one character or
comment that is skipped, or one token. A token has its type, where its text
begins and ends, and the line and column of its diagnostics; an error is the
position of the lexer when it was reported.

`Parser` writes a parse function down as the row of what it does: `Expect`,
`Skip` and `Name` are calls of expect and advance, `When` and `Until` the tests
and loops on the current token, `Node` a call of another parse function. A
parser is a record with its position and the row it has still to do, and `Step`
does the first of it. The recursion of the code is the growth of that row. So
the tables in `Parser` read side by side with parser.go, one definition per
function. Of the tree it keeps the nodes and fields in the order they are read,
each with the nodes that enclose it.

`Source` runs the lexer, then ParseProgram: the Explanation, `SplitItem`
(skipTopLevel: the first place at which the brackets are balanced), and one
parser per item. `Lock` and `Unlock` are the two halves of the critical section
of a goroutine: reading the shared list of errors in `append`, and writing it, the
node and wg.Done. Between mu.Lock and the start of a goroutine nothing is
shared: steps of two parsers commute, so `ParseItem` parses the items one after
the other, and what the scheduler decides, the order in which they come to the
mutex, is open. `Wait` is wg.Wait and the removal of nil nodes.

`MCSource` has the programs as trees and writes them as text and as the nodes
that are to be read. Each construct is written in the one form that the parser reads.
For an instance of a struct and for an Extern that is not the form of the
documentation, which the parser reads with errors (section 5): `DocumentedStruct` and
`DocumentedExtern` are in the run for all properties but WrittenIsRead, which has nothing
to compare them with. `Texts` are the texts, with and without a preamble of
comments and an Explanation, and each text with one character replaced by `(`, `}`
or `"`, with one removed, and cut off at each place.

### Analyzer, Serial, BirParser, Bir, MCBir (analyzer.go, serial.go, backend_func.go, bir_parser.c)

`Analyzer` and `Serial` are operators: they compute what the code annotates and
writes. A body is a row of statements with `End` and `Else` where lists end, so
that a walk over the tree is a question on positions (`Heads`: the lists a
position is in; `Walked`: those that collectLocalVars enters). `Vars` is the
map of names of annotateFunc at a position, `Pass1Vars` that of pass 1, which
differs from it. `Serialize` gives the lines of the .bir file; `BuildBackendFunc`
is the same function as Go hands it on in memory.

`BirParser` is the C parser as a state machine on lines: `lists` is the stack of
activations of parse_stmts, each with its terminator and count. `LeaveFull` is
the loop condition `count < MAX_STMTS`: the list is left and the line is the
caller's. `parse_expr` computes where a value ends from the words alone. `Bir`
composes them: the file is written, then read to its end.

## 3. Runs

| run | question | instance | states |
|---|---|---|---|
| CfgFlow | Is the graph the structured flow, with exact back edges? | 8 blocks, roomy lists | 50,779 |
| CfgLimits | What holds when edges, statements and loops are dropped? | 2 predecessor slots, 1 statement, 1 loop, 8 blocks | 52,007 |
| RegallocFile | Is the allocation of a file right, stale entries included? | functions of up to 3, then up to 2 instructions over 6 names | 131,757 |
| RegallocStale | Do two variables ever share memory? (violation) | the same | |
| GenLeaf | Does the code of a leaf function with rbx compute what CAI means? | words of 2 bits, 2 registers, 1 slot | 32,484 |
| GenFrame | The same with calls, system calls, and loads and stores through the names of slots | words of 1 bit, 2 registers, 2 slots | 8,624 |
| GenNumber | The number of a syscall in a variable (violation) | words of 2 bits, 2 registers | |
| PipelineRuns | Consent, report, exit status, rejection, termination | 2 files, 2 runs, 1 edit, 4 sets of failures | 726,006 |
| Frontend | Scopes, risk blocks around checked dereferences, labels, widths of every accepted program | 1 name, 3 types, 5 values, 3 open statements, 6 labels | 358,166 |
| EchoHidden | Every risk block in the binary is in the report (violation) | a block in an Async body | |
| SourceRuns | Are places, errors and items right, is what was written what is read, does parsing end? | 8 programs with every construct of the grammar; 16 whole texts and every one-character damage of 8 | 642,614 |
| BirRuns | Does the C parser read what Go has built; do the widths of the analyzer agree? | 1-2 functions, lists of 3, 1 argument, 1 parameter, 2 locals | 214,030 |

Why the bounds are enough. *Cfg*: 8 blocks allow an If inside a Loop, a Loop
inside an arm and two statements in a row, with a jump in any list; the
limits are made small so that each of them is reached. In CfgFlow no list is
full, so the run is about the walk; in CfgLimits two predecessors are fewer
than a merge or a loop head with a continue needs, and one loop slot fewer than
two nested loops. *CaiRegalloc*: three instructions suffice for an alloc, a use
of it and a use of another variable, for a re-alloc, and for use counts that
differ; two functions suffice for stale entries. MaxRegs 7 is one above the
number of names, so that table-full is not what decides. *CaiGen*: words of 2
bits have a sign, a carry and an upper half that differs from both extensions;
six or seven operand forms over a register, a slot and a pointer contain each
combination of places that the code distinguishes; behaviours have any length.
GenFrame, which is about places and about what is shown, does with words of 1 bit. It
has a slot of each width, moves between each of them and a register, an
immediate and a symbol, and pointers that may hold the address of either.
*Pipeline*: two runs, so that the second finds what the first left, complete,
refused or interrupted; one edit at any moment between them or during either.

*Frontend*: one name is enough, for both maps are used name by name, and what a
name does depends on no other name; three types are one of each width and one
that the checker does not know (int64); the five values are a number, a string, a
name, a dereference and a call with one as its argument; three open statements allow a function
in a function in a block, an If in a Loop in a function, a Mem in a Mem, and a
Loop in a Loop in a function; six labels are two Ifs or Loops, as many as fit into a
function then, one in the other or one after the other.

*Source*: the eight programs contain every parse function that the lexer lets be reached,
most optional parts present and absent, and statements in lists of each kind; three items are the least for which an order of goroutines that is neither
that of the text nor its reverse exists. The damage adds a bracket that opens,
one that closes and a quote, and takes each away: what misleads skipTopLevel and
what misleads a rule. *Bir*: with MaxStmts 3 there is room for two statements and
the end of the list, so that the order within a list and a statement behind a nested
Loop or If are compared; a list is full in bodies of three, and left with a statement
still to come in bodies of four; each kind of value stands in each place of a statement, and
each kind of list in each other; two functions are enough for a call of an
earlier, a later and the same function, and for a list that runs over into
the next function.

Deadlock is checked in the Cfg, CaiGen and Frontend runs. The register allocator stops
after the last function of the file, the pipeline when nobody starts another
run, and SourceRuns and BirRuns when a text is read, so those say
`CHECK_DEADLOCK FALSE`; that the last two stop nowhere else is `SourceIsRead` and
`BirIsRead`.

Properties, in one line each. Some are conjunctions whose parts have names of
their own beside them in the module:

- **GraphShape** (EdgeSymmetry, OutDegree), **SealedBlocks, LoopStackInv,
  CyclesAreFlagged, BackEdgesAreNatural, DrawsStructuredFlow** (Cfg): successors
  and predecessors agree, two successors exactly at conditions; a block that was
  left gets no further edge; the LoopStack is the open loops unless something was
  reported; every cycle has a flagged edge; flagged edges go from a loop's inside
  to its head; the edges are those of the nesting of the statements.
- **TableComplete, RegisterGoesRight** (RegisterOwner, MostUsedFirst),
  **SlotsAreRight** (AllocsApart, FirstSlotsApart, FirstSlotsInFrame)
  (CaiRegalloc): every operand has an entry; rbx has one owner, that may have it
  and is used most; slots are apart and in the frame.
- **EaxCoherent, ImplementsIR** (CaiGen): the register that eax_holds names is in
  eax; the text does what the instructions mean.
- **Consent, ReportIsTrue** (QuestionIsBacked, ReportCoversBinary, SafeOrRisky),
  **SuccessIsBuilt, RejectedTouchesNothing, RunEnds** (Pipeline): no risky binary
  without a yes; the question and the report are about the blocks that were
  compiled, as far as Echo's walk sees them; exit status 0 with a yes means that
  the binary is built from that source; a rejected program leaves no trace; a run
  ends or waits for the answer.
- **ScopesAreFunctions** (TypeCheck): the map holds for every name its innermost
  declaration in the functions that are open. That the risk flag implies an open risk
  block (`RiskNeedsMem`) is proved; what it is for is CheckedDerefInMem.
- **JumpsAreRight** (JumpsLand, InnermostLoop), **AccessWidths, CheckedDerefInMem**
  (Caigen, Frontend): in a complete function each label that a jump names has exactly
  one line; break and continue name the innermost loop; the text initialises, stores
  to and loads a variable with the width of the type that its uses were checked with,
  in statements, values, arguments and conditions; a dereference in the value of a
  declaration or a return has a risk block around it. The first does not claim
  anything of the address that a dereference follows, the last nothing of
  dereferences in arguments, mutations and stores: both would be false (section 5).
- **NothingSkipped, TruePlaces** (Lexer): what no token covers is blank, comment or
  reported, and tokens do not overlap; each token has the line and column an
  editor counts.
- **ItemsInOrder, NoErrorLost, ItemsAreWhole, WrittenIsRead, SourceIsRead** (Source):
  nodes are in the order of the text whatever the schedule; the errors of each
  goroutine are in the list, whole and in order; in a text without errors
  each item is parsed to where the next begins; a text in the form of the grammar is
  read as the tree it was written from; every text is read to its end.
- **FunctionsApart, ReadInPlace, ValuesRead, BirIsRead** (Bir): functions are read
  with their results, parameters and locals whatever was cut; without a
  full list every statement is in the list it was in and every value is read as
  written; every file is read to its end.
- **SlotsMatchUses, ResultWidths** (Bir, of Analyzer): a use has the width of the
  slot, a return that of the declaration.
- **TypeOK, TypeOKCheck, TypeOKSource, TypeOKReader**: one type invariant for each
  of five of the modules (CaiGen's and Cfg's are both called TypeOK).

Each has in PROJECT.json a mutant, a plausible bug written beside the definition
it changes, under which TLC refutes it.

**Fairness.** Three modules have any. `Pipeline`: `WF_vars(Step)`, the steps sim
takes by itself. A process that can run is scheduled, and the two tools are loops
over finite input. The developer's answer, edits, interrupts and the start of a
run are not fair, so `RunEnds` promises only that a run ends or waits for the
answer. `Source`: `WF(NextSource)`. Once called, the lexer and the parsers go
on without waiting for anything, and Go runs a goroutine that can go on; weak
fairness of the whole is enough since no step is repeated for ever. `Bir`:
`WF(Read)`, the C parser goes on while there are lines; writing the file is not
promised, so `BirIsRead` begins with a file. The other modules are sequential
algorithms checked for safety; that they terminate on finite input is by their
loop bounds.

## 4. Proofs

`tlapm` checks these for every value of the constants that satisfies the
named assumptions. The assumptions say what sort of thing a constant is
(`LimitsAssumption` of Cfg, `WordsAssumption` of CaiWords, `LabelsAssumption` of
Caigen, `LimitsAreNumbers` of BirParser, `RegallocAssumption` of CaiRegalloc,
`TextsAssumption` of Source), or a fact of the code that the models take as given:
`KeywordsAreWords` and `NewlineAssumption` of Lexer (a newline is no letter or
digit), `ExprsAssumption` of Syntax (what a value names is a name),
`EchoAssumption` and `PipelineAssumption` (source, breakage and options are of
the sets the model draws them from), `BodiesAssumption` of CaiRegalloc (the
operands are registers, and an alloc names one, as every alloc that caigen
writes does). TLC evaluates all of them on the instances.

How the proofs are built: for each property an inductive invariant that implies
it, a lemma per operator or per group of actions for what it does to the state,
and one step per action. The invariants are conjunctions of named parts, each
with a comment in its module. What had to be added, and why:

**CFG builder** (CfgProofs, CfgGraphProofs)

- *TypeCorrect*: no list grows past its array, flags are in the array, frames,
  LoopStack and current name existing blocks. TypeOK is inductive as it stands; a
  lemma per helper (NewBlockOK, AddEdgeOK, AddBackEdgeOK, AddStmtOK) says that it maps a
  well-formed graph to one that only grows.
- *LoopStackCorrect*: LoopStackInv says nothing once a message was printed, nor
  about the limit itself; `LoopStackInd` adds that an overflowing loop_push is
  reported, that reports stay, and that the nesting of the frames is the number
  of open loops.
- *GraphShapeCorrect*: `GraphInd` adds to the shape that blocks still to come have
  no edge (`Unjoined`) and that the blocks which frames remember are distinct and
  in the order in which they were made (`Ordered`), so that an edge is never
  added to a block that has its successors already.
- *SealedCorrect*: only the block that control is in and the condition of an open
  statement get a successor.
- *CyclesAreFlaggedCorrect*: blocks get ranks under which every edge without a
  flag goes up; while loops are open, what is inside ranks before what comes after
  them (`LoopsOpen`). A cycle has a block of least rank, and the edge into it is
  flagged. No induction over the path is needed.
- *DrawsStructuredFlowCorrect*: the refinement, step by step. `FlowInd` relates the
  frames to the open statements of StructuredFlow; every action maps to the action
  of the same statement, a helper that reports a limit to giving up.
- *BackEdgesAreNaturalCorrect*: dominance is about all paths, so the invariant has to
  say something of the graph that holds edge by edge. `RegionInd` gives each loop
  header a region, from the header to the last block made before its body ended,
  without the exit block. An edge enters a region only at its header, a flagged edge
  comes from the region of its target, the region of a closed loop holds neither
  current nor a block that a frame remembers, that of an open loop has no end yet
  (`RegionOK`). So the blocks outside of a region are closed under the edges that do
  not go to its header (FlaggedIsDominated). For the converse, a flagged edge reaches
  nothing new (ReachedForward), and with the ranks of CyclesAreFlaggedCorrect a path of
  edges that go up has not been through a block of higher rank (ForwardIsFree). Two
  lemmas about `ReachFrom` carry it: it is within every set that its edges do not
  leave (ReachedIsLeast), and is such a set itself, because n steps are enough, by
  counting the blocks (ReachedIsClosed).

**Register allocation** (CaiRegallocProofs)

- *TableCompleteCorrect*: `NamesInv` says after each iteration which operands and
  arguments the loops have looked at, and that those are in the table while there
  is room. An exchange of the sort is a permutation of the table (`Permuted`,
  SwapPermutes), under which nothing here changes.
- *RegisterGoesRightCorrect*: `RegInv` has the owners (one for each register, below
  ri, saved exactly when used) and what must have been marked by the time the
  registers are given away: pointers by name, floats by FloatOperands; entries that
  an earlier function marked may be floats too many, never too few. `UsesInv` is the
  exchange sort: the rows that are done, the row that is worked on, then which
  entries the loop over the registers has passed, and why (`GivenByUses`).
- *SlotsAreRightCorrect*: `SlotInv` speaks of the entries that got their slot in
  this function: those of its allocs, and in the first function of a file every one
  with stack_off other than 0. They are apart and within stack_used (`Regions`),
  and a new slot goes below all of them (RegionsGrow). It needs that entries beyond
  the table are still 0 in the first function (`NothingBeyond`); that this is lost in the
  second one is the finding RegallocStale.

**Code generation of cai_conv** (CaiGenProofs)

- *TypeCorrectGen, EaxAlwaysCoherent*: for every word size, set of registers, frame
  layout and set of instructions, eax_holds is empty or an i32 register, rbx holds
  no upper half for an i32, and on every path, jumps included, the register that
  eax_holds names has the 32 bits that eax has: the fact each omitted load rests
  on. The conjunction is inductive; the step is by groups of instructions that end in
  the same store.
- *GenImplementsIR*: the refinement of CaiIR, where a virtual register has its 64 bits,
  or 32 with a zero upper half, and nothing is held in eax. The mapping `Abs` forgets
  what an i32 slot has above its low half. A lemma for the ways to read an operand says
  that it reads what CaiIR reads (ReadsAlike; NumberIsRead for the number of a syscall,
  which is loaded after the arguments), lemmas for the ways to store that one register
  changes and nothing else that Abs shows; then a lemma per group of instructions. It
  has three hypotheses, stated with it, and without any of them the code does something
  else (section 5): `SlotsAreNamed`, the pointer of a load or store is the
  name of a slot, which is so in what caigen writes for variables and not in what it
  writes for deref; `ArgumentsAreFull`, the kernel is passed no i32
  register; `NumbersAreFixed`, the number of a syscall is no variable
  (GenNumber). Arguments of calls, loads and stores by storei, loadi and so on are
  under no hypothesis.

**Front end** (FrontendProofs)

- *TypeCorrectCheck, ScopesCorrect, RiskCorrect*: ScopesAreFunctions is not
  inductive: at the end of a function the map becomes what its frame saved, about
  which it says nothing. `CheckInv` adds `FunctionsMatch`: the functions among the
  open statements are those that `scopes` lists, in that order, and each frame has
  saved what the scopes around it show. RiskNeedsMem is inductive with the shape of
  `open`.
- *FrontImplementsCheck*: SpecFront implements SpecCheck, so that the theorems about
  the checker alone hold of the two walks side by side.
- *JumpsCorrect*: `GenInv`. An activation owes the labels that the text jumps to and
  that its end will place: they are unplaced and owed once, every label jumped to is
  placed or owed (`LabelsInv`), and each loop keeps the labels of the loop around it
  (`LoopsChain`). When the last activation of a function ends nothing is owed.
- *AccessWidthsCorrect*: `WidthInv`. Checker and generator agree on the kind of
  every name (`WidthsAgree`) except in a function within a function, where the
  generator has put away the map of the outermost one; that map is what agrees then.
  A statement that uses variables takes the widths from that map (`UsesAreTrue`). The
  theorem is about initialisations, stores and loads, as AccessWidths is; of the 64
  bits that a dereference reads it claims nothing.

**Lexer and parser** (SourceProofs)

- *NoErrorIsLost*: NoErrorLost speaks of the end only; `MergeInv` carries it there: a
  goroutine between lock and unlock has read the list as it still is (`ReadsHold`,
  which rests on `Exclusion`), so its write puts its own errors behind all that were
  there, and the errors of those who have gone stay (`AllKept`); no parser moves once
  a goroutine has locked (`Settled`); wg.Wait comes after all of them (`Complete`).
- *NothingSkippedCorrect, TruePlacesCorrect*: `LexInv`: each token is where it says,
  they are in order, every character before the position is in a token, blank, in a
  comment or reported; the line is one more than the newlines before the position,
  the column counts from the last of them.
- *ItemsInOrderCorrect, TypeCorrectSource*: `OrderInv`: the parser of an item starts at
  the item and does not go before it, items begin one behind the other, and what is
  appended is appended in their order whatever the order at the mutex.
- *ItemsAreWholeCorrect*: two readings of the same tokens agree, skipTopLevel's, which
  counts brackets, and the grammar's. First, for every row of the grammar, how far it
  turns the count (`Turns`, `Fits`): rows contain rows, so a row is right if there is
  *some* set of claims about elements that supports itself (`Sound`) and has the claim
  in it. All rows turn the count by nothing, but for the nodes that close a bracket of
  the row they are in (`Closing`), and an element that takes a token unseen comes
  after a test which tells that it is no bracket (`Blind`, `Sees`). Then `WholeInv`,
  beside the three invariants above: the EOF is the last token and there is no other,
  skipTopLevel leads from each item to the next and from the last to the EOF, and the
  parser of an item without a fault is at its head or, within its brackets, where its
  `todo` still closes g brackets and skipTopLevel counts at most g, and if it counts g
  then the item's first bracket has not been closed before (`OnItem`, `InsideAt`). At
  most and not exactly g: the grammar could close brackets that belong to the items
  behind. `ItemsEnd` rules that out at the end: an item that does not stop where
  skipTopLevel does has passed more closing than opening brackets, so some item that
  begins before that place is closed too often there; take the last such item: the
  next one is one too (`ItemShort`), and behind the very last there is only the EOF.
  The hypotheses are those of the property: no errors, and no opening bracket taken as
  a name.

**C parser of .bir files** (BirParserProofs)

- *ReaderTypeCorrect*: for every sequence of lines, well-formed or not, and all
  limits, the reader fills no list of statements, parameters or locals past its
  array, and when it writes to "the current function" there is one. `ReaderInv` says of
  what the elements are and that the head of a function is read before any of its
  lists.

**A run of sim** (PipelineProofs)

- *ReportIsTrueCorrect, SuccessIsBuiltCorrect, RejectedCorrect, ConsentCorrect*: for every
  project, breakage, edit and interruption. `Inv` has five parts: `Types`; what
  each point of the run knows of the program it has read (`Rejects`); what the
  artefacts were made from since then (`Builds`); what the report that was written,
  or is in memory, covers (`Reports`, with the least element of a set of numbers
  for the first file that Echo is still to read); and what was asked and answered
  (`Asks`).

Only model-checked, with the reason:

- liveness (`RunEnds`, `SourceIsRead`, `BirIsRead`): fairness and ENABLED are out of
  the prover's reach;
- what is written to and read from a .bir file (`FunctionsApart`, `ReadInPlace`,
  `ValuesRead`, `SlotsMatchUses`, `ResultWidths`): serialization is recursive over
  values, and the prover takes no RECURSIVE operator;
- `CheckedDerefInMem`: that a value without errors has a dereference only where the
  flag is set takes induction over values;
- `WrittenIsRead`: that the text written for a program is read as that program
  takes induction over programs, and it is about the programs that MCSource writes.

## 5. What the checks found

Three runs are expected to end in a violation; PROJECT.json quotes the lines.

1. *RegallocStale* (cai_converter.c:653-676, :711). An entry that a function
   takes over from the previous one keeps its slot, which may be another
   variable's in the new frame, or outside of it. The comment at :172 says that the
   table is reset for each function.
2. *GenNumber* (:1079). A syscall whose number is in a variable that was just
   stored is made with its first argument as the number.
3. *EchoHidden* (echo.go:90-116, caigen.go:397-401). docs/Echo.md says that all
   risk blocks are recorded; those in Async bodies are compiled and not seen.

Five divergences are what a passing run would fail on, and are kept out of it by the
condition or the instance that is named here:

- cai_converter.c:1043-1046, `SyscallLists` without an i32 register. The comment at
  :1032-1034 says that i32 arguments of a syscall are sign-extended, as `KernelArg` of
  CaiIR has it; the code moves all 64 bits of the slot, so that the kernel gets an upper
  half nobody wrote. stdlib/io.go:54 passes an i32 length.
- cai_converter.c:835-865, `Moves` through names of slots only. `load` and `store` with a
  register that holds an address, as caigen.go:671 writes for deref and stdlib/random.go:34
  for the seed, copy to and from the register; CAI_SPEC.md:66-67 says that they read and
  write what it points to, and CaiIR has it so (`PointsTo`).
- caigen.go:664-669, AccessWidths of `Sized` uses only. The text follows an address of 64
  bits in a variable that the checker has as an int: "ptr is a pointer variable", says the
  comment, and checkDeref does not look. test_all.iia:20 is such a program. What
  README.md:314 declares as a pointer, `int(ptr:addr{x})`, is rejected (TC2001).
- typecheck.go:162, :312, :394, CheckedDerefInMem of declarations and returns only.
  README.md:350 and docs/Language.md:133 say that a dereference needs a risk block; in
  arguments and in the values of mutations and of stores to arrays none is asked for.
- parser.go:319-326 and :664-665, WrittenIsRead of the form that the parser reads.
  `Variable[let{user:User(name:"John", age:25)}]`, as docs/Language.md:143, parser.go:279
  and examples/struct.iia:12 have it, is three errors; the parser reads
  `let{User(user:User(..))}`. `Extern[C{lib{"SDL2"}, draw{..}}]`, as docs/Language.md:179
  and parser.go:640 have it, is two errors; the parser reads an Extern with libraries alone.

Other divergences that are in the models as the code has them:

- Comments of parser.go have `return{value}` (:473, :688), `le(hp,0)` (:412, :446, :810)
  and `True[...]` (:412) where the parser reads `return(value)`, `le(hp:0)` and
  `True{...}`; docs/Language.md has the latter. The programs in typecheck_test.go
  are written with `return{x}` too, so that they are checked as what recovery makes of them.
- typecheck.go:223 says that writes to variables without share are detected;
  `++{x}`, and a mutation inside an If, Loop or Mem of the Async body, are not
  (:231), and code is generated for them.
- After a nested Mem the rest of the outer one is not a risk block any more; bodies
  of Error and declarations at the top level are checked but not generated.
- parser.go:113: skipTopLevel counts every bracket, expect does not consume one
  that does not fit. A bracket in the place of a name is no error of the
  grammar but opens an item without an end: the items after it are
  missing from the program without a message (the reason for the condition on
  `Opener` in ItemsAreWhole). A text that is damaged by a bracket can make one item
  be parsed twice, as the rest of the first and as the second.
- analyzer.go:358 says the width of an element; ARRLOAD gets the size of the whole
  array, N times an element. ARRSTORE gets that of the element.
- analyzer.go:6 says that all local variables are collected; those declared in Mem,
  Async and Error are not, and have no LOCAL line though their uses are written.
- serial.go:111: a call as a statement is in what BuildBackendFunc makes and is
  not written. Async and Error bodies are in neither.
- bir_parser.c:100: strings are split at blanks by strtok, so a string with a
  blank, and in a condition an empty one, moves every word behind it (`OneWord`, `Plain`).
- bir_parser.c:414 and :350: parse_expr reads at most 16 arguments but keeps
  the number that was written, which free_expr trusts; a 257th function is
  written past the array.
- `--ir-only` does run Echo and write project.eho though docs/Echo.md:27 says it is
  skipped (pipeline.go:136); the compiled file is reported twice (echo.go:54
  compares `main.iia` with `main`); an unreadable file is listed as safe; after a
  refusal sim exits with 0 while the .out of the last build has been emptied; up to
  five parser errors, and any number of lexer errors, leave a binary beside exit
  status 1.

## 6. What is not modelled

- The AST (ast.go): types and constructors without behaviour.
- The f32 instructions (SSE) of gen_func: floating point, which TLC does not have.
- cai_conv's parser of .cai lines, resolve_labels, symbols, patches and the ELF
  file: label and patch are offsets into the bytes of the instructions, which only
  their encoding gives; the control that is left, a table looked up by name, is one
  loop.
- transpiler.go: rewriting of text line by line; its result is any program in
  Pipeline. project.cel (cel.go): splitting and trimming of text; what it yields,
  the dependencies, is data of Pipeline.
- codegen.go (QBE) and cgen.go (C): nothing calls them.
- stdlib/*.go: program texts in the language itself.
- debug/dump.go, cfg_dump, bir_dump.c, the texts of values for display in
  backend_func.go, sizes and wording of messages: output only.
- Writes past an array (an alloc loop without a check of MAX_REGS, more than 16
  arguments, a 257th function) and cuts at MAX_LINE and MAX_NAME: outside of what
  the models represent; the instances stay below.
- In the front end: the instructions of expressions and comparisons but for the
  loads and dereferences of variables, allocs, layouts of
  structs, GPU bodies (neither walk enters them), nullable types (the lexer has no
  `?`). collectRiskOps, which sums a Mem up for display.
- In the analyzer: layouts of structs, functions inside functions, IsFloat. The
  branches for Extern functions and for a return behind the body of a function are
  dead: the parser makes neither.

## 7. What would come next

What the models leave open, in the order in which it would add most: the f32
instructions of gen_func in CaiGen; a model that composes Caigen with CaiGen through
the instructions, which would need the text of expressions.
