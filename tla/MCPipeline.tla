----------------------------- MODULE MCPipeline -----------------------------
(***************************************************************************)
(* A project of two files for Pipeline.                                    *)
(***************************************************************************)
EXTENDS Pipeline

MCFiles == <<"lib.iia", "main.iia">>

Source(risks, flaws, imports) == [risks |-> risks, flaws |-> flaws, imports |-> imports]
Block(line, in) == [line |-> line, in |-> in]

Clean == Source(<<>>, {}, {})
Risky == Source(<<Block(3, <<"Func">>), Block(5, <<"Func", "Loop", "RawMem">>)>>, {}, {})
Hidden == Source(<<Block(4, <<"Func", "Async">>)>>, {}, {})
Importing == Source(<<Block(3, <<"Func">>)>>, {}, {"math"})
Misspelt == Source(<<Block(3, <<"If">>)>>, {"lexer", "parser"}, {})
Mistyped == Source(<<>>, {"types"}, {})
Unlinked == Source(<<>>, {"symbol"}, {})

MCSources == {Clean, Risky, Hidden, Importing, Misspelt, Mistyped, Unlinked}

Project(lib, main) == [f \in {"lib.iia", "main.iia"} |-> IF f = "lib.iia" THEN lib ELSE main]

MCProjects == {Project(Clean, Risky)}
MCEdits == Project({Risky, Absent, Unreadable},
                   {Clean, Risky, Importing, Misspelt, Mistyped, Unlinked, Absent})

MCHiddenProjects == {Project(Risky, Hidden)}
MCHiddenEdits == Project({Clean}, {Hidden, Clean})

MCCels == {{}, {"math"}}

Option(irOnly, dumpCFG) == [irOnly |-> irOnly, dumpCFG |-> dumpCFG]
MCOptions == {Option(FALSE, FALSE), Option(TRUE, FALSE), Option(FALSE, TRUE)}

MCBreakages == {{}, {"out", "iia"}, {"cai_conv", "sim_backend"}, {"cai", "eho", "bir"}}
=============================================================================
