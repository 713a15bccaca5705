--------------------------------- MODULE Cfg ---------------------------------
(***************************************************************************)
(* The control-flow-graph builder of the C backend, cbackend/cfg.c.        *)
(*                                                                         *)
(* cfg_build walks the statement tree of one function and grows a graph of *)
(* fixed-size blocks.  The recursion of build_stmts / build_stmt is kept   *)
(* as an explicit stack of frames, one per statement list that is being    *)
(* walked, and the tree is read one statement at a time: which statement   *)
(* comes next, and where a list ends, is chosen here and is data there.    *)
(* Every limit of cfg.h and cfg.c is a constant, and what the code does at *)
(* the limit (drop an edge, drop a statement, drop a loop, exit) is part   *)
(* of the operators below.                                                 *)
(***************************************************************************)
EXTENDS Integers, Sequences

CONSTANTS
  MaxSuccs,       \* MAX_SUCCS: slots for successors in a block
  MaxPreds,       \* MAX_PREDS: slots for predecessors in a block
  MaxBlockStmts,  \* MAX_BLOCK_STMTS: slots for statements in a block
  MaxBlocks,      \* MAX_BLOCKS: blocks of one function
  MaxLoopDepth    \* MAX_LOOP_DEPTH: slots of the LoopStack

ASSUME LimitsAssumption ==
  /\ MaxSuccs \in Nat
  /\ MaxPreds \in Nat
  /\ MaxBlockStmts \in Nat
  /\ MaxBlocks \in Nat \ {0}
  /\ MaxLoopDepth \in Nat

VARIABLES
  cfg,      \* the CFG under construction (a record, see Graph)
  current,  \* the block statements are added to, NoBlock after a jump
  frames,   \* the statement lists being walked, outermost first
  loops,    \* the LoopStack: what break and continue resolve to
  status    \* "building", "built", or "exit1" once the process has exited

vars == <<cfg, current, frames, loops, status>>

NoBlock == -1   \* the NULL that build_stmts passes on after a terminator

Kinds == {"ENTRY", "IF", "IF_TRUE", "IF_FALSE", "MERGE",
          "LOOP_HEADER", "LOOP_BODY", "LOOP_EXIT", "RETURN"}

Ids == 0 .. MaxBlocks - 1

(***************************************************************************)
(* The graph.  stderr holds the messages that were printed about limits.   *)
(***************************************************************************)
Blocks(g) == 0 .. g.n - 1

Succs(g, b) == {g.succs[b][i] : i \in 1 .. Len(g.succs[b])}
Preds(g, b) == {g.preds[b][i] : i \in 1 .. Len(g.preds[b])}

Edges(g) == {e \in Blocks(g) \X Blocks(g) : e[2] \in Succs(g, e[1])}

\* is_back_edge[i - 1] of block b is kept as i \in back[b].
BackEdges(g) ==
  {e \in Blocks(g) \X Blocks(g) :
     \E i \in g.back[e[1]] : i \in 1 .. Len(g.succs[e[1]]) /\ g.succs[e[1]][i] = e[2]}

Extend(f, n, v) == [b \in 0 .. n |-> IF b = n THEN v ELSE f[b]]

\* new_block, in the case MAX_BLOCKS is not reached; the new block is g.n.
NewBlock(g, kind, depth) ==
  [n      |-> g.n + 1,
   kind   |-> Extend(g.kind, g.n, kind),
   depth  |-> Extend(g.depth, g.n, depth),
   succs  |-> Extend(g.succs, g.n, <<>>),
   preds  |-> Extend(g.preds, g.n, <<>>),
   back   |-> Extend(g.back, g.n, {}),
   nstmts |-> Extend(g.nstmts, g.n, 0),
   stderr |-> g.stderr]

Messages == {"too many blocks", "too many succs", "too many preds",
             "too many stmts", "loop nesting too deep"}

Report(g, message) == [g EXCEPT !.stderr = g.stderr \union {message}]

Silent(g) == g.stderr = {}

\* mutant of EdgeFits: the last slot of an edge list is off by one
EdgeFitsOneMore(g, from, to) ==
  /\ Len(g.succs[from]) < MaxSuccs
  /\ Len(g.preds[to]) <= MaxPreds

EdgeFits(g, from, to) ==
  /\ Len(g.succs[from]) < MaxSuccs
  /\ Len(g.preds[to]) < MaxPreds

Attach(lists, b, c) == [lists EXCEPT ![b] = Append(lists[b], c)]

\* mutants of AddEdge: each half of the edge is written where there is room;
\* an edge that does not fit is dropped without a word
AddEdgeByHalves(g, from, to) ==
  [g EXCEPT !.succs = IF Len(g.succs[from]) < MaxSuccs THEN Attach(g.succs, from, to) ELSE g.succs,
            !.preds = IF Len(g.preds[to]) < MaxPreds THEN Attach(g.preds, to, from) ELSE g.preds]

AddEdgeSilently(g, from, to) ==
  IF EdgeFits(g, from, to)
  THEN [g EXCEPT !.succs = Attach(g.succs, from, to), !.preds = Attach(g.preds, to, from)]
  ELSE g

\* add_edge: a full block keeps the edges it has and the new one is lost.
AddEdge(g, from, to) ==
  IF EdgeFits(g, from, to)
  THEN [g EXCEPT !.succs = Attach(g.succs, from, to),
                 !.preds = Attach(g.preds, to, from)]
  ELSE Report(g, IF Len(g.succs[from]) < MaxSuccs THEN "too many preds"
                                                  ELSE "too many succs")

\* add_back_edge: the flag of the slot is raised even when the edge is lost.
NextSlot(g, b) == {Len(g.succs[b]) + 1} \intersect 1 .. MaxSuccs

\* mutant of AddBackEdge: the slot is read after the edge has taken it
AddBackEdgeLate(g, from, to) ==
  LET h == AddEdge(g, from, to)
  IN  [h EXCEPT !.back = [b \in Blocks(g) |-> IF b = from THEN g.back[b] \union NextSlot(h, b)
                                                          ELSE g.back[b]]]

AddBackEdge(g, from, to) ==
  [AddEdge(g, from, to) EXCEPT
     !.back = [b \in Blocks(g) |-> IF b = from THEN g.back[b] \union NextSlot(g, b)
                                              ELSE g.back[b]]]

\* block_add_stmt
AddStmt(g, b) ==
  IF g.nstmts[b] < MaxBlockStmts
  THEN [g EXCEPT !.nstmts = [g.nstmts EXCEPT ![b] = g.nstmts[b] + 1]]
  ELSE Report(g, "too many stmts")

(***************************************************************************)
(* The stack of statement lists.  A frame is an arm of an If or the body   *)
(* of a Loop: at is its condition block, join the block that follows the   *)
(* statement, nest the number of Loop statements around its list.          *)
(***************************************************************************)
Push(s, e) == Append(s, e)
Pop(s) == SubSeq(s, 1, Len(s) - 1)
Top(s) == s[Len(s)]

Nest == IF frames = <<>> THEN 0 ELSE Top(frames).nest

\* The depth argument of build_stmts.  The Analyzer numbers a Loop by the
\* Loops around it, so the list of the outermost body has depth 0 again.
Depth == IF Nest = 0 THEN 0 ELSE Nest - 1

\* loop_push drops the loop when the stack is full; loop_pop always pops.
LoopPush(ls, header, exit) ==
  IF Len(ls) < MaxLoopDepth
  THEN Push(ls, [header |-> header, exit |-> exit])
  ELSE ls

\* mutant of LoopPop: the loop stays on the stack
LoopPopForgets(ls) == ls

LoopPop(ls) == IF ls = <<>> THEN ls ELSE Pop(ls)

(***************************************************************************)
(* cfg_build before the walk.                                              *)
(***************************************************************************)
EntryOnly ==
  [n |-> 1, kind |-> [b \in {0} |-> "ENTRY"], depth |-> [b \in {0} |-> 0],
   succs |-> [b \in {0} |-> <<>>], preds |-> [b \in {0} |-> <<>>],
   back |-> [b \in {0} |-> {}], nstmts |-> [b \in {0} |-> 0],
   stderr |-> {}]

Init ==
  /\ cfg = EntryOnly
  /\ current = 0
  /\ frames = <<>>
  /\ loops = <<>>
  /\ status = "building"

(***************************************************************************)
(* build_stmt, one action per kind of statement.                           *)
(***************************************************************************)
Building == status = "building"
Live == Building /\ current # NoBlock
Room(k) == cfg.n + k <= MaxBlocks

\* STMT_STORE, STMT_INCR, STMT_ARRSTORE
PlainStmt ==
  /\ Live
  /\ cfg' = AddStmt(cfg, current)
  /\ UNCHANGED <<current, frames, loops, status>>

\* STMT_RET, STMT_RET_VOID
Return ==
  /\ Live
  /\ Room(1)
  /\ LET ret == cfg.n
     IN  cfg' = AddEdge(AddStmt(NewBlock(cfg, "RETURN", Depth), ret), current, ret)
  /\ current' = NoBlock
  /\ UNCHANGED <<frames, loops, status>>

\* STMT_IF up to the walk of the true arm
IfBegin ==
  /\ Live
  /\ Room(3)
  /\ LET cond  == cfg.n
         merge == cfg.n + 1
         arm   == cfg.n + 2
         g     == AddEdge(NewBlock(cfg, "IF", Depth), current, cond)
     IN  /\ cfg' = AddEdge(NewBlock(NewBlock(g, "MERGE", Depth), "IF_TRUE", Depth),
                           cond, arm)
         /\ current' = arm
         /\ frames' = Push(frames, [k |-> "true", at |-> cond, join |-> merge,
                                    nest |-> Nest])
  /\ UNCHANGED <<loops, status>>

JoinTo(g, join) == IF current # NoBlock THEN AddEdge(g, current, join) ELSE g

\* mutant of EndTrue: the false arm hangs on the true arm's first block
EndTrueFromArm ==
  /\ Building
  /\ frames # <<>>
  /\ Top(frames).k = "true"
  /\ Room(1)
  /\ LET top == Top(frames)
     IN  /\ cfg' = AddEdge(NewBlock(JoinTo(cfg, top.join), "IF_FALSE", Depth),
                           top.join + 1, cfg.n)
         /\ frames' = [frames EXCEPT ![Len(frames)] = [top EXCEPT !.k = "false"]]
  /\ current' = cfg.n
  /\ UNCHANGED <<loops, status>>

\* the true arm is over: join it to the merge block, open the false arm
EndTrue ==
  /\ Building
  /\ frames # <<>>
  /\ Top(frames).k = "true"
  /\ Room(1)
  /\ LET arm == cfg.n
         top == Top(frames)
     IN  /\ cfg' = AddEdge(NewBlock(JoinTo(cfg, top.join), "IF_FALSE", Depth),
                           top.at, arm)
         /\ current' = arm
         /\ frames' = [frames EXCEPT ![Len(frames)] = [top EXCEPT !.k = "false"]]
  /\ UNCHANGED <<loops, status>>

\* the false arm is over: the walk goes on in the merge block, reached or not
EndFalse ==
  /\ Building
  /\ frames # <<>>
  /\ Top(frames).k = "false"
  /\ cfg' = JoinTo(cfg, Top(frames).join)
  /\ current' = Top(frames).join
  /\ frames' = Pop(frames)
  /\ UNCHANGED <<loops, status>>

\* STMT_LOOP up to the walk of its body
LoopBegin ==
  /\ Live
  /\ Room(3)
  /\ LET header == cfg.n
         exit   == cfg.n + 1
         body   == cfg.n + 2
         ldepth == Nest
         g1     == AddEdge(NewBlock(cfg, "LOOP_HEADER", ldepth), current, header)
         g2     == AddEdge(NewBlock(g1, "LOOP_EXIT", ldepth), header, exit)
         g3     == IF Len(loops) < MaxLoopDepth THEN g2 ELSE Report(g2, "loop nesting too deep")
     IN  /\ cfg' = AddEdge(NewBlock(g3, "LOOP_BODY", ldepth), header, body)
         /\ loops' = LoopPush(loops, header, exit)
         /\ current' = body
         /\ frames' = Push(frames, [k |-> "body", at |-> header, join |-> exit,
                                    nest |-> Nest + 1])
  /\ UNCHANGED status

\* the body is over: back edge if its end is reached, then loop_pop
EndBody ==
  /\ Building
  /\ frames # <<>>
  /\ Top(frames).k = "body"
  /\ cfg' = IF current # NoBlock THEN AddBackEdge(cfg, current, Top(frames).at)
                                 ELSE cfg
  /\ loops' = LoopPop(loops)
  /\ current' = Top(frames).join
  /\ frames' = Pop(frames)
  /\ UNCHANGED status

\* STMT_BREAK: outside a loop the list just ends
Break ==
  /\ Live
  /\ cfg' = IF loops # <<>> THEN AddEdge(cfg, current, Top(loops).exit) ELSE cfg
  /\ current' = NoBlock
  /\ UNCHANGED <<frames, loops, status>>

\* mutant of Continue: the jump back is not flagged
ContinueForward ==
  /\ Live
  /\ cfg' = IF loops # <<>> THEN AddEdge(cfg, current, Top(loops).header) ELSE cfg
  /\ current' = NoBlock
  /\ UNCHANGED <<frames, loops, status>>

\* STMT_CONTINUE
Continue ==
  /\ Live
  /\ cfg' = IF loops # <<>> THEN AddBackEdge(cfg, current, Top(loops).header)
                            ELSE cfg
  /\ current' = NoBlock
  /\ UNCHANGED <<frames, loops, status>>

\* the walk of the function's own list is over
Finish ==
  /\ Building
  /\ frames = <<>>
  /\ status' = "built"
  /\ UNCHANGED <<cfg, current, frames, loops>>

\* new_block at MAX_BLOCKS prints a message and exits the process
TooManyBlocks ==
  /\ Building
  /\ \/ current # NoBlock /\ ~Room(3)
     \/ frames # <<>> /\ Top(frames).k = "true" /\ ~Room(1)
  /\ status' = "exit1"
  /\ cfg' = Report(cfg, "too many blocks")
  /\ UNCHANGED <<current, frames, loops>>

Stopped == ~Building /\ UNCHANGED vars

Next ==
  \/ PlainStmt \/ Return \/ IfBegin \/ EndTrue \/ EndFalse
  \/ LoopBegin \/ EndBody \/ Break \/ Continue
  \/ Finish \/ TooManyBlocks \/ Stopped

Spec == Init /\ [][Next]_vars

(***************************************************************************)
(* Types.                                                                  *)
(***************************************************************************)
GraphRec(g) ==
  g = [n |-> g.n, kind |-> g.kind, depth |-> g.depth, succs |-> g.succs,
       preds |-> g.preds, back |-> g.back, nstmts |-> g.nstmts, stderr |-> g.stderr]

GraphTypes(g) ==
  /\ g.n \in 1 .. MaxBlocks
  /\ g.kind \in [Blocks(g) -> Kinds]
  /\ g.depth \in [Blocks(g) -> Nat]
  /\ g.succs \in [Blocks(g) -> Seq(Blocks(g))]
  /\ g.preds \in [Blocks(g) -> Seq(Blocks(g))]
  /\ g.back \in [Blocks(g) -> SUBSET (1 .. MaxSuccs)]
  /\ g.nstmts \in [Blocks(g) -> 0 .. MaxBlockStmts]
  /\ g.stderr \in SUBSET Messages
  /\ \A b \in Blocks(g) : Len(g.succs[b]) <= MaxSuccs /\ Len(g.preds[b]) <= MaxPreds

GraphOK(g) == GraphRec(g) /\ GraphTypes(g)

FrameKinds == {"true", "false", "body"}

Frame(g) == [k : FrameKinds, at : Blocks(g), join : Blocks(g), nest : Nat]
Loop(g) == [header : Blocks(g), exit : Blocks(g)]

\* The blocks a frame and a LoopStack entry name are blocks of the graph, the
\* slots in use are within the arrays of cfg.h and cfg.c.
TypeOK ==
  /\ GraphOK(cfg)
  /\ current \in Blocks(cfg) \union {NoBlock}
  /\ frames \in Seq(Frame(cfg))
  /\ loops \in Seq(Loop(cfg))
  /\ Len(loops) <= MaxLoopDepth
  /\ status \in {"building", "built", "exit1"}

(***************************************************************************)
(* Properties.                                                             *)
(***************************************************************************)

\* An edge is in the successors of its source exactly when it is in the
\* predecessors of its target, and neither list names a block twice: add_edge
\* drops both halves of an edge or none (cfg_test.c, test_edge_symmetry).
EdgeSymmetry ==
  \A a, b \in Blocks(cfg) :
    /\ b \in Succs(cfg, a) <=> a \in Preds(cfg, b)
    /\ \A i, j \in 1 .. Len(cfg.succs[a]) : cfg.succs[a][i] = cfg.succs[a][j] => i = j

\* What a block may have as successors: a return none, a condition two, every
\* other block one.  So MAX_SUCCS is never what makes add_edge lose an edge.
OutDegree ==
  \A b \in Blocks(cfg) :
    Len(cfg.succs[b]) <= CASE cfg.kind[b] = "RETURN" -> 0
                           [] cfg.kind[b] \in {"IF", "LOOP_HEADER"} -> 2
                           [] OTHER -> 1

\* The graph cfg_build hands on, whatever lists were full: symmetric, and with the
\* successors that the last statement of a block has.
GraphShape == EdgeSymmetry /\ OutDegree

\* loop_push and loop_pop keep the LoopStack equal to the Loop statements that
\* are open, so break and continue leave the innermost one, while nothing was
\* reported.  (Past MAX_LOOP_DEPTH loop_pop pops a loop that was not pushed.)
LoopStackInv ==
  Silent(cfg) =>
    /\ Len(loops) = Nest
    /\ \A i \in 1 .. Len(frames) :
         frames[i].k = "body" =>
           loops[frames[i].nest] = [header |-> frames[i].at, exit |-> frames[i].join]

\* A block that is neither being filled nor waiting for an open statement has
\* all its successors for good: nothing is added after a jump or a return.
SealedBlocks ==
  [][\A b \in Blocks(cfg) :
       cfg'.succs[b] # cfg.succs[b] =>
         \/ b = current
         \/ \E i \in 1 .. Len(frames) : b = frames[i].at]_vars

\* The blocks reachable from the blocks of s along the edges of E, in at most i steps.
Reaching(s, E) ==
  LET reach[i \in 0 .. cfg.n] ==
        IF i = 0 THEN s
        ELSE LET known == reach[i - 1]
             IN  known \union {e[2] : e \in {x \in E : x[1] \in known}}
  IN  reach

ReachFrom(s, E) == Reaching(s, E)[cfg.n]

\* Every cycle of the graph goes through an edge that is flagged as a back
\* edge, the overflow of an edge list included.
CyclesAreFlagged ==
  status = "built" =>
  LET forward == Edges(cfg) \ BackEdges(cfg)
  IN  \A e \in forward : e[1] \notin ReachFrom({e[2]}, forward)

\* The flagged edges are the edges of natural loops: an edge out of a reachable
\* block is flagged exactly when its target dominates it, that is when every
\* path from the entry to its source goes through its target.
BackEdgesAreNatural ==
  status = "built" /\ Silent(cfg) =>
    LET edges == Edges(cfg)
        Dominates(a, b) == b \notin ReachFrom({0} \ {a}, {e \in edges : e[2] # a})
    IN  \A e \in edges :
          e[1] \in ReachFrom({0}, edges) =>
            (e \in BackEdges(cfg) <=> Dominates(e[2], e[1]))

\* The builder draws the flow of control that the nesting of the statements
\* means, block by block and edge by edge, until it reports a limit: a jump never
\* goes to another loop than the innermost one, and no edge is lost in silence.
Structured == INSTANCE StructuredFlow WITH
  n <- cfg.n, kind <- cfg.kind, edges <- Edges(cfg), backs <- BackEdges(cfg),
  current <- current, frames <- frames, reported <- ~Silent(cfg)

DrawsStructuredFlow == Structured!Spec
=============================================================================
