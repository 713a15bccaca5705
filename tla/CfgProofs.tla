------------------------------ MODULE CfgProofs ------------------------------
(***************************************************************************)
(* Theorems about the CFG builder for every value of its limits.           *)
(***************************************************************************)
EXTENDS Cfg, TLAPS

(***************************************************************************)
(* What each operation on the graph does to each field of it.              *)
(***************************************************************************)

\* A report on stderr changes nothing else.
LEMMA ReportFields ==
  ASSUME NEW g, GraphRec(g), NEW m, NEW h, h = Report(g, m)
  PROVE  /\ GraphRec(h) /\ h.n = g.n /\ h.kind = g.kind /\ h.depth = g.depth
         /\ h.succs = g.succs /\ h.preds = g.preds /\ h.back = g.back
         /\ h.nstmts = g.nstmts /\ h.stderr = g.stderr \union {m}
BY DEF Report, GraphRec

\* new_block adds one unconnected block.
LEMMA NewBlockFields ==
  ASSUME NEW g, NEW k, NEW d, NEW h, h = NewBlock(g, k, d)
  PROVE  /\ GraphRec(h) /\ h.n = g.n + 1 /\ h.stderr = g.stderr
         /\ h.kind = Extend(g.kind, g.n, k)
         /\ h.depth = Extend(g.depth, g.n, d)
         /\ h.succs = Extend(g.succs, g.n, <<>>)
         /\ h.preds = Extend(g.preds, g.n, <<>>)
         /\ h.back = Extend(g.back, g.n, {})
         /\ h.nstmts = Extend(g.nstmts, g.n, 0)
BY DEF NewBlock, GraphRec

\* add_edge leaves everything but the two edge lists and stderr alone.
LEMMA AddEdgeFields ==
  ASSUME NEW g, GraphRec(g), NEW a, NEW b, NEW h, h = AddEdge(g, a, b)
  PROVE  /\ GraphRec(h) /\ h.n = g.n /\ h.kind = g.kind /\ h.depth = g.depth
         /\ h.back = g.back /\ h.nstmts = g.nstmts
<1>1. CASE EdgeFits(g, a, b)
  BY <1>1 DEF AddEdge, GraphRec
<1>2. CASE ~EdgeFits(g, a, b)
  <2>1. PICK m \in Messages : h = Report(g, m)
    BY <1>2 DEF AddEdge, Messages
  <2> QED
    BY <2>1, ReportFields
<1> QED
  BY <1>1, <1>2

\* add_edge with room on both sides writes both halves of the edge.
LEMMA AddEdgeFits ==
  ASSUME NEW g, GraphRec(g), NEW a, NEW b, NEW h, h = AddEdge(g, a, b), EdgeFits(g, a, b)
  PROVE  /\ h.succs = Attach(g.succs, a, b)
         /\ h.preds = Attach(g.preds, b, a)
         /\ h.stderr = g.stderr
BY DEF AddEdge, GraphRec

\* add_edge without room writes neither half and reports.
LEMMA AddEdgeFull ==
  ASSUME NEW g, GraphRec(g), NEW a, NEW b, NEW h, h = AddEdge(g, a, b), ~EdgeFits(g, a, b)
  PROVE  /\ h.succs = g.succs /\ h.preds = g.preds
         /\ ~Silent(h)
         /\ \E m \in Messages : h.stderr = g.stderr \union {m}
<1>1. PICK m \in Messages : h = Report(g, m)
  BY DEF AddEdge, Messages
<1> QED
  BY <1>1, ReportFields DEF Silent

\* add_back_edge is add_edge and the flag of the next slot.
LEMMA AddBackEdgeFields ==
  ASSUME NEW g, GraphRec(g), NEW a, NEW b, NEW e, e = AddEdge(g, a, b),
         NEW h, h = AddBackEdge(g, a, b)
  PROVE  /\ GraphRec(h) /\ h.n = g.n /\ h.kind = g.kind /\ h.depth = g.depth
         /\ h.nstmts = g.nstmts /\ h.succs = e.succs /\ h.preds = e.preds
         /\ h.stderr = e.stderr
         /\ h.back = [c \in Blocks(g) |-> IF c = a THEN g.back[c] \union NextSlot(g, c)
                                                  ELSE g.back[c]]
<1>1. /\ GraphRec(e) /\ e.n = g.n /\ e.kind = g.kind /\ e.depth = g.depth
      /\ e.back = g.back /\ e.nstmts = g.nstmts
  BY AddEdgeFields
<1> DEFINE f == [c \in Blocks(g) |-> IF c = a THEN g.back[c] \union NextSlot(g, c)
                                              ELSE g.back[c]]
<1>2. h = [e EXCEPT !.back = f]
  BY DEF AddBackEdge
<1> HIDE DEF f
<1>3. /\ h.n = e.n /\ h.kind = e.kind /\ h.depth = e.depth /\ h.succs = e.succs
      /\ h.preds = e.preds /\ h.back = f /\ h.nstmts = e.nstmts
      /\ h.stderr = e.stderr /\ GraphRec(h)
  BY <1>1, <1>2 DEF GraphRec
<1> QED
  BY <1>1, <1>3 DEF f

\* block_add_stmt leaves everything but the statement count and stderr alone.
LEMMA AddStmtFields ==
  ASSUME NEW g, GraphRec(g), NEW b, NEW h, h = AddStmt(g, b)
  PROVE  /\ GraphRec(h) /\ h.n = g.n /\ h.kind = g.kind /\ h.depth = g.depth
         /\ h.back = g.back /\ h.succs = g.succs /\ h.preds = g.preds
         /\ \/ /\ g.nstmts[b] < MaxBlockStmts
               /\ h.nstmts = [g.nstmts EXCEPT ![b] = g.nstmts[b] + 1]
               /\ h.stderr = g.stderr
            \/ /\ h.nstmts = g.nstmts
               /\ ~Silent(h)
               /\ \E m \in Messages : h.stderr = g.stderr \union {m}
<1>1. CASE g.nstmts[b] < MaxBlockStmts
  BY <1>1 DEF AddStmt, GraphRec
<1>2. CASE ~(g.nstmts[b] < MaxBlockStmts)
  <2>1. PICK m \in Messages : h = Report(g, m)
    BY <1>2 DEF AddStmt, Messages
  <2> QED
    BY <2>1, ReportFields DEF Silent
<1> QED
  BY <1>1, <1>2

(***************************************************************************)
(* The operations keep the graph well formed.                              *)
(***************************************************************************)

\* The blocks of a well-formed graph are an initial segment of the naturals.
LEMMA BlocksOf ==
  ASSUME NEW g, GraphOK(g)
  PROVE  g.n \in Nat /\ g.n > 0 /\ Blocks(g) = 0 .. g.n - 1 /\ g.n <= MaxBlocks
BY LimitsAssumption DEF GraphOK, GraphTypes, Blocks

\* new_block below MAX_BLOCKS.
LEMMA NewBlockOK ==
  ASSUME NEW g, GraphOK(g), g.n < MaxBlocks, NEW k \in Kinds, NEW d \in Nat,
         NEW h, h = NewBlock(g, k, d)
  PROVE  /\ GraphOK(h)
         /\ h.n = g.n + 1 /\ h.stderr = g.stderr
         /\ g.n \in Blocks(h) /\ Blocks(h) = Blocks(g) \union {g.n}
         /\ \A b \in Blocks(g) : /\ h.kind[b] = g.kind[b] /\ h.succs[b] = g.succs[b]
                                 /\ h.preds[b] = g.preds[b] /\ h.back[b] = g.back[b]
         /\ h.kind[g.n] = k /\ h.succs[g.n] = <<>> /\ h.preds[g.n] = <<>>
         /\ h.back[g.n] = {}
<1>1. /\ GraphRec(h) /\ h.n = g.n + 1 /\ h.stderr = g.stderr
      /\ h.kind = Extend(g.kind, g.n, k)
      /\ h.depth = Extend(g.depth, g.n, d)
      /\ h.succs = Extend(g.succs, g.n, <<>>)
      /\ h.preds = Extend(g.preds, g.n, <<>>)
      /\ h.back = Extend(g.back, g.n, {})
      /\ h.nstmts = Extend(g.nstmts, g.n, 0)
  BY NewBlockFields
<1>2. g.n \in Nat /\ g.n > 0 /\ Blocks(g) = 0 .. g.n - 1
  BY BlocksOf
<1>3. /\ Blocks(h) = 0 .. g.n /\ Blocks(h) = Blocks(g) \union {g.n}
      /\ h.n \in 1 .. MaxBlocks
  BY <1>1, <1>2, LimitsAssumption DEF Blocks
<1> DEFINE B == Blocks(h)
<1>4. /\ g.kind \in [0 .. g.n - 1 -> Kinds]
      /\ g.depth \in [0 .. g.n - 1 -> Nat]
      /\ g.nstmts \in [0 .. g.n - 1 -> 0 .. MaxBlockStmts]
      /\ g.back \in [0 .. g.n - 1 -> SUBSET (1 .. MaxSuccs)]
  BY <1>2 DEF GraphOK, GraphTypes
<1>5. /\ g.succs \in [0 .. g.n - 1 -> Seq(B)]
      /\ g.preds \in [0 .. g.n - 1 -> Seq(B)]
  <2>1. Blocks(g) \subseteq B
    BY <1>3
  <2> HIDE DEF B
  <2>2. Seq(Blocks(g)) \subseteq Seq(B)
    BY <2>1
  <2> QED
    BY <1>2, <2>2 DEF GraphOK, GraphTypes
<1>6. 0 \in 0 .. MaxBlockStmts /\ {} \in SUBSET (1 .. MaxSuccs)
  BY LimitsAssumption
<1> HIDE DEF B
<1>7. <<>> \in Seq(B)
  OBVIOUS
<1>8. /\ h.kind \in [0 .. g.n -> Kinds] /\ h.kind[g.n] = k
      /\ \A b \in 0 .. g.n - 1 : h.kind[b] = g.kind[b]
  BY <1>1, <1>2, <1>4 DEF Extend
<1>9. h.depth \in [0 .. g.n -> Nat]
  BY <1>1, <1>2, <1>4 DEF Extend
<1>10. h.nstmts \in [0 .. g.n -> 0 .. MaxBlockStmts]
  BY <1>1, <1>2, <1>4, <1>6 DEF Extend
<1>11. /\ h.back \in [0 .. g.n -> SUBSET (1 .. MaxSuccs)] /\ h.back[g.n] = {}
       /\ \A b \in 0 .. g.n - 1 : h.back[b] = g.back[b]
  <2> DEFINE S == SUBSET (1 .. MaxSuccs)
  <2>1. g.back \in [0 .. g.n - 1 -> S] /\ {} \in S
    BY <1>4, <1>6
  <2> HIDE DEF S
  <2>2. /\ h.back \in [0 .. g.n -> S] /\ h.back[g.n] = {}
        /\ \A b \in 0 .. g.n - 1 : h.back[b] = g.back[b]
    BY <1>1, <1>2, <2>1 DEF Extend
  <2> QED
    BY <2>2 DEF S
<1>12. /\ h.succs \in [0 .. g.n -> Seq(B)] /\ h.succs[g.n] = <<>>
       /\ \A b \in 0 .. g.n - 1 : h.succs[b] = g.succs[b]
  BY <1>1, <1>2, <1>5, <1>7 DEF Extend
<1>13. /\ h.preds \in [0 .. g.n -> Seq(B)] /\ h.preds[g.n] = <<>>
       /\ \A b \in 0 .. g.n - 1 : h.preds[b] = g.preds[b]
  BY <1>1, <1>2, <1>5, <1>7 DEF Extend
<1>14. \A b \in B : Len(h.succs[b]) <= MaxSuccs /\ Len(h.preds[b]) <= MaxPreds
  <2>1. \A b \in Blocks(g) : Len(h.succs[b]) <= MaxSuccs /\ Len(h.preds[b]) <= MaxPreds
    BY <1>2, <1>12, <1>13 DEF GraphOK, GraphTypes
  <2>2. Len(h.succs[g.n]) <= MaxSuccs /\ Len(h.preds[g.n]) <= MaxPreds
    BY <1>12, <1>13, LimitsAssumption
  <2> QED
    BY <2>1, <2>2, <1>3 DEF B
<1>15. GraphTypes(h)
  BY <1>1, <1>3, <1>8, <1>9, <1>10, <1>11, <1>12, <1>13, <1>14
     DEF GraphTypes, GraphOK, B
<1> QED
  BY <1>1, <1>2, <1>3, <1>8, <1>11, <1>12, <1>13, <1>15 DEF GraphOK

\* The same, for the shape of the graph alone.
LEMMA GrowOK ==
  ASSUME NEW g, GraphOK(g), g.n < MaxBlocks, NEW k, k \in Kinds, NEW d \in Nat
  PROVE  /\ GraphOK(NewBlock(g, k, d)) /\ NewBlock(g, k, d).n = g.n + 1
         /\ Blocks(NewBlock(g, k, d)) = Blocks(g) \union {g.n}
BY NewBlockOK

\* add_edge between two blocks of the graph.
LEMMA AddEdgeOK ==
  ASSUME NEW g, GraphOK(g), NEW a \in Blocks(g), NEW b \in Blocks(g),
         NEW h, h = AddEdge(g, a, b)
  PROVE  GraphOK(h) /\ h.n = g.n /\ Blocks(h) = Blocks(g)
<1>1. /\ GraphRec(h) /\ h.n = g.n /\ h.kind = g.kind /\ h.depth = g.depth
      /\ h.back = g.back /\ h.nstmts = g.nstmts
  BY AddEdgeFields DEF GraphOK
<1>2. Blocks(h) = Blocks(g)
  BY <1>1 DEF Blocks
<1>3. /\ h.succs \in [Blocks(g) -> Seq(Blocks(g))]
      /\ h.preds \in [Blocks(g) -> Seq(Blocks(g))]
      /\ h.stderr \in SUBSET Messages
      /\ \A c \in Blocks(g) : Len(h.succs[c]) <= MaxSuccs /\ Len(h.preds[c]) <= MaxPreds
  <2>1. CASE EdgeFits(g, a, b)
    <3>1. /\ h.succs = Attach(g.succs, a, b)
          /\ h.preds = Attach(g.preds, b, a)
          /\ h.stderr = g.stderr
      BY <2>1, AddEdgeFits DEF GraphOK
    <3>2. /\ Append(g.succs[a], b) \in Seq(Blocks(g))
          /\ Append(g.preds[b], a) \in Seq(Blocks(g))
          /\ Len(Append(g.succs[a], b)) <= MaxSuccs
          /\ Len(Append(g.preds[b], a)) <= MaxPreds
      <4>1. /\ g.succs[a] \in Seq(Blocks(g)) /\ Len(g.succs[a]) < MaxSuccs
            /\ g.preds[b] \in Seq(Blocks(g)) /\ Len(g.preds[b]) < MaxPreds
        BY <2>1 DEF EdgeFits, GraphOK, GraphTypes
      <4> QED
        BY <4>1, LimitsAssumption DEF LimitsAssumption
    <3>3. g.succs \in [Blocks(g) -> Seq(Blocks(g))] /\ g.preds \in [Blocks(g) -> Seq(Blocks(g))]
      BY DEF GraphOK, GraphTypes
    <3>4. \A c \in Blocks(g) : /\ h.succs[c] \in {g.succs[c], Append(g.succs[a], b)}
                               /\ h.preds[c] \in {g.preds[c], Append(g.preds[b], a)}
      BY <3>1, <3>3 DEF Attach
    <3>5. \A c \in Blocks(g) : Len(g.succs[c]) <= MaxSuccs /\ Len(g.preds[c]) <= MaxPreds
      BY DEF GraphOK, GraphTypes
    <3>6. \A c \in Blocks(g) : Len(h.succs[c]) <= MaxSuccs /\ Len(h.preds[c]) <= MaxPreds
      BY <3>2, <3>4, <3>5
    <3>7. h.succs \in [Blocks(g) -> Seq(Blocks(g))] /\ h.preds \in [Blocks(g) -> Seq(Blocks(g))]
      BY <3>1, <3>2, <3>3 DEF Attach
    <3>8. h.stderr \in SUBSET Messages
      BY <3>1 DEF GraphOK, GraphTypes
    <3> QED
      BY <3>6, <3>7, <3>8
  <2>2. CASE ~EdgeFits(g, a, b)
    <3>1. h.succs = g.succs /\ h.preds = g.preds
      BY <2>2, AddEdgeFull DEF GraphOK
    <3>2. PICK m \in Messages : h.stderr = g.stderr \union {m}
      BY <2>2, AddEdgeFull DEF GraphOK
    <3>3. g.stderr \in SUBSET Messages
      BY DEF GraphOK, GraphTypes
    <3>4. h.stderr \in SUBSET Messages
      BY <3>2, <3>3
    <3> QED
      BY <3>1, <3>4 DEF GraphOK, GraphTypes
  <2> QED
    BY <2>1, <2>2
<1> QED
  BY <1>1, <1>2, <1>3 DEF GraphOK, GraphTypes

\* add_back_edge between two blocks of the graph.
LEMMA AddBackEdgeOK ==
  ASSUME NEW g, GraphOK(g), NEW a \in Blocks(g), NEW b \in Blocks(g),
         NEW h, h = AddBackEdge(g, a, b)
  PROVE  GraphOK(h) /\ h.n = g.n /\ Blocks(h) = Blocks(g)
<1> DEFINE e == AddEdge(g, a, b)
<1>1. GraphOK(e) /\ e.n = g.n /\ Blocks(e) = Blocks(g)
  BY AddEdgeOK
<1>2. /\ GraphRec(h) /\ h.n = g.n /\ h.kind = g.kind /\ h.depth = g.depth
      /\ h.nstmts = g.nstmts /\ h.succs = e.succs /\ h.preds = e.preds
      /\ h.stderr = e.stderr
      /\ h.back = [c \in Blocks(g) |-> IF c = a THEN g.back[c] \union NextSlot(g, c)
                                               ELSE g.back[c]]
  BY AddBackEdgeFields DEF GraphOK
<1> HIDE DEF e
<1>3. Blocks(h) = Blocks(g)
  BY <1>2 DEF Blocks
<1>4. h.back \in [Blocks(g) -> SUBSET (1 .. MaxSuccs)]
  BY <1>2 DEF GraphOK, GraphTypes, NextSlot
<1> QED
  BY <1>1, <1>2, <1>3, <1>4 DEF GraphOK, GraphTypes

\* block_add_stmt on a block of the graph.
LEMMA AddStmtOK ==
  ASSUME NEW g, GraphOK(g), NEW b \in Blocks(g), NEW h, h = AddStmt(g, b)
  PROVE  GraphOK(h) /\ h.n = g.n /\ Blocks(h) = Blocks(g)
<1>1. /\ GraphRec(h) /\ h.n = g.n /\ h.kind = g.kind /\ h.depth = g.depth
      /\ h.back = g.back /\ h.succs = g.succs /\ h.preds = g.preds
      /\ \/ /\ g.nstmts[b] < MaxBlockStmts
            /\ h.nstmts = [g.nstmts EXCEPT ![b] = g.nstmts[b] + 1]
            /\ h.stderr = g.stderr
         \/ /\ h.nstmts = g.nstmts
            /\ \E m \in Messages : h.stderr = g.stderr \union {m}
  BY AddStmtFields DEF GraphOK
<1>2. Blocks(h) = Blocks(g)
  BY <1>1 DEF Blocks
<1>3. h.nstmts \in [Blocks(g) -> 0 .. MaxBlockStmts] /\ h.stderr \in SUBSET Messages
  <2>1. g.nstmts \in [Blocks(g) -> 0 .. MaxBlockStmts] /\ g.stderr \in SUBSET Messages
    BY DEF GraphOK, GraphTypes
  <2>2. CASE g.nstmts[b] < MaxBlockStmts /\ h.stderr = g.stderr
    <3>1. g.nstmts[b] + 1 \in 0 .. MaxBlockStmts
      BY <2>1, <2>2, LimitsAssumption
    <3>2. h.nstmts = [g.nstmts EXCEPT ![b] = g.nstmts[b] + 1] \/ h.nstmts = g.nstmts
      BY <1>1
    <3> QED
      BY <2>1, <2>2, <3>1, <3>2
  <2>3. CASE h.nstmts = g.nstmts /\ \E m \in Messages : h.stderr = g.stderr \union {m}
    BY <2>1, <2>3
  <2> QED
    BY <1>1, <2>2, <2>3
<1> QED
  BY <1>1, <1>2, <1>3 DEF GraphOK, GraphTypes

\* A report keeps the graph.
LEMMA ReportOK ==
  ASSUME NEW g, GraphOK(g), NEW m \in Messages, NEW h, h = Report(g, m)
  PROVE  GraphOK(h) /\ h.n = g.n /\ Blocks(h) = Blocks(g)
<1>1. /\ GraphRec(h) /\ h.n = g.n /\ h.kind = g.kind /\ h.depth = g.depth
      /\ h.succs = g.succs /\ h.preds = g.preds /\ h.back = g.back
      /\ h.nstmts = g.nstmts /\ h.stderr = g.stderr \union {m}
  BY ReportFields DEF GraphOK
<1>2. Blocks(h) = Blocks(g)
  BY <1>1 DEF Blocks
<1> QED
  BY <1>1, <1>2 DEF GraphOK, GraphTypes

(***************************************************************************)
(* Type correctness.                                                       *)
(***************************************************************************)

\* What Top and Pop give on a sequence that is not empty.
LEMMA PopType ==
  ASSUME NEW S, NEW s \in Seq(S), s # <<>>
  PROVE  /\ Len(s) \in Nat \ {0}
         /\ Top(s) \in S
         /\ Pop(s) \in Seq(S)
         /\ Len(Pop(s)) = Len(s) - 1
         /\ \A i \in 1 .. Len(s) - 1 : Pop(s)[i] = s[i]
<1>1. Len(s) \in Nat \ {0}
  OBVIOUS
<1>2. Top(s) \in S
  BY <1>1 DEF Top
<1>3. \A i \in 1 .. Len(s) - 1 : s[i] \in S
  BY <1>1
<1>4. Pop(s) = [i \in 1 .. Len(s) - 1 |-> s[i]]
  BY <1>1 DEF Pop
<1>5. Pop(s) \in Seq(S) /\ Len(Pop(s)) = Len(s) - 1
  <2>1. Len(s) - 1 \in Nat
    BY <1>1
  <2> QED
    BY <1>3, <1>4, <2>1
<1> QED
  BY <1>1, <1>2, <1>4, <1>5

\* Frames and loops of a graph are frames and loops of a larger graph.
LEMMA StackTypes ==
  ASSUME NEW g, NEW h, Blocks(g) \subseteq Blocks(h)
  PROVE  /\ Frame(g) \subseteq Frame(h) /\ Seq(Frame(g)) \subseteq Seq(Frame(h))
         /\ Loop(g) \subseteq Loop(h) /\ Seq(Loop(g)) \subseteq Seq(Loop(h))
<1>1. Frame(g) \subseteq Frame(h) /\ Loop(g) \subseteq Loop(h)
  BY DEF Frame, Loop
<1> QED
  BY <1>1

\* The depth argument of build_stmts is a natural number.
LEMMA NestType == TypeOK => Nest \in Nat /\ Depth \in Nat
<1> SUFFICES ASSUME TypeOK PROVE Nest \in Nat /\ Depth \in Nat
  OBVIOUS
<1>1. CASE frames = <<>>
  BY <1>1 DEF Nest, Depth
<1>2. CASE frames # <<>>
  <2>1. Top(frames) \in Frame(cfg)
    BY <1>2, PopType DEF TypeOK
  <2> QED
    BY <1>2, <2>1 DEF Nest, Depth, Frame
<1> QED
  BY <1>1, <1>2

\* The graph cfg_build starts from is well formed.
LEMMA TypeInit == Init => TypeOK
<1> SUFFICES ASSUME Init PROVE TypeOK
  OBVIOUS
<1>1. GraphRec(EntryOnly)
  BY DEF GraphRec, EntryOnly
<1>2. Blocks(EntryOnly) = {0}
  BY DEF Blocks, EntryOnly
<1>3. GraphTypes(EntryOnly)
  <2>1. /\ EntryOnly.kind \in [{0} -> Kinds] /\ EntryOnly.depth \in [{0} -> Nat]
        /\ EntryOnly.nstmts \in [{0} -> 0 .. MaxBlockStmts]
        /\ EntryOnly.stderr \in SUBSET Messages /\ EntryOnly.n \in 1 .. MaxBlocks
    BY LimitsAssumption DEF EntryOnly, Kinds
  <2>2. /\ EntryOnly.back \in [{0} -> SUBSET (1 .. MaxSuccs)]
        /\ EntryOnly.succs \in [{0} -> Seq({0})]
        /\ EntryOnly.preds \in [{0} -> Seq({0})]
        /\ \A b \in {0} : EntryOnly.succs[b] = <<>> /\ EntryOnly.preds[b] = <<>>
    BY DEF EntryOnly
  <2> QED
    BY <1>2, <2>1, <2>2, LimitsAssumption DEF GraphTypes
<1> QED
  BY <1>1, <1>2, <1>3, LimitsAssumption DEF Init, TypeOK, GraphOK

\* Joining the current block to a later one keeps the graph well formed.
LEMMA JoinToOK ==
  ASSUME NEW g, GraphOK(g), current \in Blocks(g) \union {NoBlock}, NEW b \in Blocks(g),
         NEW h, h = JoinTo(g, b)
  PROVE  GraphOK(h) /\ h.n = g.n /\ Blocks(h) = Blocks(g)
BY AddEdgeOK DEF JoinTo

\* Every step keeps the types; one case per action of the builder.
LEMMA TypeStep == TypeOK /\ [Next]_vars => TypeOK'
<1> SUFFICES ASSUME TypeOK, [Next]_vars PROVE TypeOK'
  OBVIOUS
<1> DEFINE c == current
           top == Top(frames)
<1>1. /\ GraphOK(cfg) /\ cfg.n \in Nat /\ Nest \in Nat /\ Depth \in Nat
      /\ cfg.n <= MaxBlocks /\ MaxBlocks \in Nat
      /\ current \in Blocks(cfg) \union {NoBlock}
      /\ frames \in Seq(Frame(cfg)) /\ loops \in Seq(Loop(cfg))
      /\ Len(loops) <= MaxLoopDepth
      /\ status \in {"building", "built", "exit1"}
  BY BlocksOf, NestType, LimitsAssumption DEF TypeOK
<1>2. frames # <<>> => /\ top \in Frame(cfg) /\ Pop(frames) \in Seq(Frame(cfg))
                       /\ top.at \in Blocks(cfg) /\ top.join \in Blocks(cfg)
                       /\ top.nest \in Nat /\ Len(frames) \in 1 .. Len(frames)
  <2> SUFFICES ASSUME frames # <<>>
               PROVE  /\ top \in Frame(cfg) /\ Pop(frames) \in Seq(Frame(cfg))
                      /\ top.at \in Blocks(cfg) /\ top.join \in Blocks(cfg)
                      /\ top.nest \in Nat /\ Len(frames) \in 1 .. Len(frames)
    OBVIOUS
  <2>1. /\ top \in Frame(cfg) /\ Pop(frames) \in Seq(Frame(cfg))
        /\ Len(frames) \in Nat \ {0}
    BY <1>1, PopType
  <2> HIDE DEF top
  <2> QED
    BY <2>1 DEF Frame
<1>3. loops # <<>> => /\ Top(loops).header \in Blocks(cfg) /\ Top(loops).exit \in Blocks(cfg)
                      /\ Pop(loops) \in Seq(Loop(cfg)) /\ Len(Pop(loops)) <= MaxLoopDepth
  <2> SUFFICES ASSUME loops # <<>>
               PROVE  /\ Top(loops).header \in Blocks(cfg) /\ Top(loops).exit \in Blocks(cfg)
                      /\ Pop(loops) \in Seq(Loop(cfg)) /\ Len(Pop(loops)) <= MaxLoopDepth
    OBVIOUS
  <2>1. /\ Top(loops) \in Loop(cfg) /\ Pop(loops) \in Seq(Loop(cfg))
        /\ Len(Pop(loops)) = Len(loops) - 1 /\ Len(loops) \in Nat
    BY <1>1, PopType
  <2> QED
    BY <1>1, <2>1, LimitsAssumption DEF Loop
<1>4. ASSUME Blocks(cfg) \subseteq Blocks(cfg')
      PROVE  /\ frames \in Seq(Frame(cfg')) /\ loops \in Seq(Loop(cfg'))
             /\ frames # <<>> => /\ top \in Frame(cfg')
                                 /\ Pop(frames) \in Seq(Frame(cfg'))
             /\ loops # <<>> => Pop(loops) \in Seq(Loop(cfg'))
  BY <1>1, <1>2, <1>3, <1>4, StackTypes
<1> HIDE DEF top
<1>0. /\ "IF" \in Kinds /\ "IF_TRUE" \in Kinds /\ "IF_FALSE" \in Kinds /\ "MERGE" \in Kinds
      /\ "LOOP_HEADER" \in Kinds /\ "LOOP_EXIT" \in Kinds /\ "LOOP_BODY" \in Kinds
      /\ "RETURN" \in Kinds
  BY DEF Kinds
<1>5. CASE PlainStmt
  <2>1. /\ cfg' = AddStmt(cfg, current) /\ current \in Blocks(cfg)
        /\ UNCHANGED <<current, frames, loops, status>>
    BY <1>1, <1>5 DEF PlainStmt, Live
  <2>2. GraphOK(cfg') /\ Blocks(cfg') = Blocks(cfg)
    BY <1>1, <2>1, AddStmtOK
  <2> QED
    BY <1>1, <1>4, <2>1, <2>2 DEF TypeOK
<1>6. CASE Return
  <2> DEFINE g1 == NewBlock(cfg, "RETURN", Depth)
             g2 == AddStmt(g1, cfg.n)
  <2>1. /\ cfg' = AddEdge(g2, current, cfg.n) /\ current \in Blocks(cfg)
        /\ cfg.n < MaxBlocks /\ current' = NoBlock
        /\ UNCHANGED <<frames, loops, status>>
    BY <1>1, <1>6 DEF Return, Live, Room
  <2>2. GraphOK(g1) /\ Blocks(g1) = Blocks(cfg) \union {cfg.n}
    BY <1>1, <2>1, NewBlockOK DEF Kinds
  <2> HIDE DEF g1
  <2>3. GraphOK(g2) /\ Blocks(g2) = Blocks(g1)
    BY <2>2, AddStmtOK
  <2> HIDE DEF g2
  <2>4. GraphOK(cfg') /\ Blocks(cfg') = Blocks(g2)
    BY <2>1, <2>2, <2>3, AddEdgeOK
  <2> QED
    BY <1>1, <1>4, <2>1, <2>2, <2>3, <2>4 DEF TypeOK
<1>7. CASE IfBegin
  <2> DEFINE g1 == NewBlock(cfg, "IF", Depth)
             g2 == AddEdge(g1, current, cfg.n)
             g3 == NewBlock(g2, "MERGE", Depth)
             g4 == NewBlock(g3, "IF_TRUE", Depth)
             f  == [k |-> "true", at |-> cfg.n, join |-> cfg.n + 1, nest |-> Nest]
  <2>1. /\ cfg' = AddEdge(g4, cfg.n, cfg.n + 2) /\ current \in Blocks(cfg)
        /\ cfg.n + 3 <= MaxBlocks /\ current' = cfg.n + 2
        /\ frames' = Append(frames, f)
        /\ UNCHANGED <<loops, status>>
    BY <1>1, <1>7 DEF IfBegin, Live, Room, Push
  <2>20. cfg.n < MaxBlocks
    BY <1>1, <2>1, LimitsAssumption DEF LimitsAssumption, GraphOK, GraphTypes
  <2>2. GraphOK(g1) /\ Blocks(g1) = Blocks(cfg) \union {cfg.n} /\ g1.n = cfg.n + 1
    BY <1>0, <1>1, <2>20, GrowOK
  <2> HIDE DEF g1
  <2>3. GraphOK(g2) /\ Blocks(g2) = Blocks(g1) /\ g2.n = g1.n
    BY <2>1, <2>2, AddEdgeOK
  <2> HIDE DEF g2
  <2>30. g2.n = cfg.n + 1 /\ g2.n < MaxBlocks
    BY <1>1, <2>1, <2>2, <2>3
  <2>4. GraphOK(g3) /\ Blocks(g3) = Blocks(g2) \union {cfg.n + 1} /\ g3.n = cfg.n + 1 + 1
    BY <1>0, <1>1, <2>3, <2>30, GrowOK
  <2> HIDE DEF g3
  <2>40. g3.n = cfg.n + 2 /\ g3.n < MaxBlocks
    BY <1>1, <2>1, <2>4
  <2>5. GraphOK(g4) /\ Blocks(g4) = Blocks(g3) \union {cfg.n + 2}
    BY <1>0, <1>1, <2>4, <2>40, GrowOK
  <2> HIDE DEF g4
  <2>50. cfg.n \in Blocks(g4) /\ cfg.n + 2 \in Blocks(g4)
    BY <2>2, <2>3, <2>4, <2>5
  <2>6. GraphOK(cfg') /\ Blocks(cfg') = Blocks(g4)
    BY <2>1, <2>5, <2>50, AddEdgeOK
  <2>7. f \in Frame(cfg')
    BY <1>1, <2>2, <2>3, <2>4, <2>5, <2>6 DEF Frame, FrameKinds
  <2> HIDE DEF f
  <2>8. frames' \in Seq(Frame(cfg')) /\ loops' \in Seq(Loop(cfg'))
    BY <1>4, <2>1, <2>2, <2>3, <2>4, <2>5, <2>6, <2>7
  <2> QED
    BY <1>1, <2>1, <2>2, <2>3, <2>4, <2>5, <2>6, <2>8 DEF TypeOK
<1>8. CASE EndTrue
  <2> DEFINE g1 == JoinTo(cfg, top.join)
             g2 == NewBlock(g1, "IF_FALSE", Depth)
             f  == [top EXCEPT !.k = "false"]
  <2>1. /\ cfg' = AddEdge(g2, top.at, cfg.n) /\ frames # <<>>
        /\ cfg.n < MaxBlocks /\ current' = cfg.n
        /\ frames' = [frames EXCEPT ![Len(frames)] = f]
        /\ UNCHANGED <<loops, status>>
    BY <1>1, <1>8 DEF EndTrue, Room, top
  <2>2. GraphOK(g1) /\ Blocks(g1) = Blocks(cfg) /\ g1.n = cfg.n
    BY <1>1, <1>2, <2>1, JoinToOK
  <2> HIDE DEF g1
  <2>3. GraphOK(g2) /\ Blocks(g2) = Blocks(cfg) \union {cfg.n}
    BY <1>1, <2>1, <2>2, NewBlockOK, SMTT(30) DEF Kinds
  <2> HIDE DEF g2
  <2>4. GraphOK(cfg') /\ Blocks(cfg') = Blocks(g2)
    BY <1>2, <2>1, <2>3, AddEdgeOK
  <2>5. top \in Frame(cfg') /\ frames \in Seq(Frame(cfg')) /\ loops \in Seq(Loop(cfg'))
    BY <1>4, <2>1, <2>3, <2>4
  <2>6. f \in Frame(cfg')
    BY <2>5 DEF Frame, FrameKinds
  <2> HIDE DEF f
  <2>7. frames' \in Seq(Frame(cfg'))
    BY <1>2, <2>1, <2>5, <2>6
  <2> QED
    BY <1>1, <2>1, <2>3, <2>4, <2>5, <2>7 DEF TypeOK
<1>9. CASE EndFalse
  <2>1. /\ cfg' = JoinTo(cfg, top.join) /\ frames # <<>>
        /\ current' = top.join /\ frames' = Pop(frames)
        /\ UNCHANGED <<loops, status>>
    BY <1>9 DEF EndFalse, top
  <2>2. GraphOK(cfg') /\ Blocks(cfg') = Blocks(cfg)
    BY <1>1, <1>2, <2>1, JoinToOK
  <2> QED
    BY <1>1, <1>2, <1>4, <2>1, <2>2 DEF TypeOK
<1>10. CASE LoopBegin
  <2> DEFINE g1 == NewBlock(cfg, "LOOP_HEADER", Nest)
             g2 == AddEdge(g1, current, cfg.n)
             g3 == NewBlock(g2, "LOOP_EXIT", Nest)
             g4 == AddEdge(g3, cfg.n, cfg.n + 1)
             g5 == IF Len(loops) < MaxLoopDepth THEN g4 ELSE Report(g4, "loop nesting too deep")
             g6 == NewBlock(g5, "LOOP_BODY", Nest)
             f  == [k |-> "body", at |-> cfg.n, join |-> cfg.n + 1, nest |-> Nest + 1]
             l  == [header |-> cfg.n, exit |-> cfg.n + 1]
  <2>0. cfg' = AddEdge(g6, cfg.n, cfg.n + 2)
    BY <1>10 DEF LoopBegin
  <2>01. frames' = Append(frames, f)
    BY <1>10 DEF LoopBegin, Push
  <2>00. /\ loops' = LoopPush(loops, cfg.n, cfg.n + 1)
         /\ current' = cfg.n + 2 /\ cfg.n + 3 <= MaxBlocks /\ UNCHANGED status
         /\ Live
    BY <1>10 DEF LoopBegin, Room
  <2> HIDE DEF g6
  <2>1. /\ current \in Blocks(cfg)
        /\ cfg.n + 3 <= MaxBlocks /\ current' = cfg.n + 2
        /\ (loops' = Append(loops, l) /\ Len(loops) < MaxLoopDepth) \/ loops' = loops
        /\ UNCHANGED status
    BY <1>1, <2>00 DEF Live, Push, LoopPush
  <2>20. cfg.n < MaxBlocks
    BY <1>1, <2>1, LimitsAssumption DEF LimitsAssumption, GraphOK, GraphTypes
  <2>2. GraphOK(g1) /\ Blocks(g1) = Blocks(cfg) \union {cfg.n} /\ g1.n = cfg.n + 1
    BY <1>0, <1>1, <2>20, GrowOK
  <2> HIDE DEF g1
  <2>3. GraphOK(g2) /\ Blocks(g2) = Blocks(g1) /\ g2.n = g1.n
    BY <2>1, <2>2, AddEdgeOK
  <2> HIDE DEF g2
  <2>30. g2.n = cfg.n + 1 /\ g2.n < MaxBlocks
    BY <1>1, <2>1, <2>2, <2>3
  <2>4. GraphOK(g3) /\ Blocks(g3) = Blocks(g2) \union {cfg.n + 1} /\ g3.n = cfg.n + 1 + 1
    BY <1>0, <1>1, <2>3, <2>30, GrowOK
  <2> HIDE DEF g3
  <2>40. cfg.n \in Blocks(g3) /\ cfg.n + 1 \in Blocks(g3)
    BY <2>2, <2>3, <2>4
  <2>5. GraphOK(g4) /\ Blocks(g4) = Blocks(g3) /\ g4.n = g3.n
    BY <2>4, <2>40, AddEdgeOK
  <2> HIDE DEF g4
  <2>6. GraphOK(g5) /\ Blocks(g5) = Blocks(g4) /\ g5.n = g4.n
    BY <2>5, ReportOK DEF Messages
  <2> HIDE DEF g5
  <2>60. g5.n = cfg.n + 2 /\ g5.n < MaxBlocks
    BY <1>1, <2>1, <2>4, <2>5, <2>6
  <2>7. GraphOK(g6) /\ Blocks(g6) = Blocks(g5) \union {cfg.n + 2}
    <3>1. g6 = NewBlock(g5, "LOOP_BODY", Nest)
      BY DEF g6
    <3>2. Nest \in Nat
      BY <1>1
    <3> QED
      BY <1>0, <2>6, <2>60, <3>1, <3>2, GrowOK
  <2>70. cfg.n \in Blocks(g6) /\ cfg.n + 2 \in Blocks(g6)
    BY <2>2, <2>3, <2>4, <2>5, <2>6, <2>7
  <2>8. GraphOK(cfg') /\ Blocks(cfg') = Blocks(g6)
    BY <2>0, <2>7, <2>70, AddEdgeOK
  <2>9. Blocks(cfg') = Blocks(cfg) \union {cfg.n, cfg.n + 1, cfg.n + 2}
    BY <2>2, <2>3, <2>4, <2>5, <2>6, <2>7, <2>8
  <2>10. f \in Frame(cfg') /\ l \in Loop(cfg')
    BY <1>1, <2>9 DEF Frame, FrameKinds, Loop
  <2> HIDE DEF f, l
  <2>11. frames \in Seq(Frame(cfg')) /\ loops \in Seq(Loop(cfg'))
    BY <1>4, <2>9
  <2>12. frames' \in Seq(Frame(cfg'))
    BY <2>01, <2>10, <2>11
  <2>120. loops' \in Seq(Loop(cfg'))
    <3>1. Append(loops, l) \in Seq(Loop(cfg'))
      BY <2>10, <2>11
    <3> QED
      BY <2>1, <2>11, <3>1
  <2>13. Len(loops') <= MaxLoopDepth
    <3>1. CASE loops' = Append(loops, l) /\ Len(loops) < MaxLoopDepth
      <4>1. Len(loops') = Len(loops) + 1 /\ Len(loops) \in Nat
        BY <2>11, <3>1
      <4> QED
        BY <3>1, <4>1, LimitsAssumption DEF LimitsAssumption
    <3>2. CASE loops' = loops
      BY <1>1, <3>2
    <3> QED
      BY <2>1, <3>1, <3>2
  <2> QED
    BY <1>1, <2>1, <2>8, <2>9, <2>12, <2>120, <2>13 DEF TypeOK
<1>11. CASE EndBody
  <2>1. /\ cfg' = IF current # NoBlock THEN AddBackEdge(cfg, current, top.at) ELSE cfg
        /\ frames # <<>> /\ current' = top.join /\ frames' = Pop(frames)
        /\ loops' = IF loops = <<>> THEN loops ELSE Pop(loops)
        /\ UNCHANGED status
    BY <1>11 DEF EndBody, top, LoopPop
  <2>2. GraphOK(cfg') /\ Blocks(cfg') = Blocks(cfg)
    BY <1>1, <1>2, <2>1, AddBackEdgeOK
  <2> QED
    BY <1>1, <1>2, <1>3, <1>4, <2>1, <2>2 DEF TypeOK
<1>12. CASE Break
  <2>1. /\ cfg' = IF loops # <<>> THEN AddEdge(cfg, current, Top(loops).exit) ELSE cfg
        /\ current \in Blocks(cfg) /\ current' = NoBlock
        /\ UNCHANGED <<frames, loops, status>>
    BY <1>1, <1>12 DEF Break, Live
  <2>2. GraphOK(cfg') /\ Blocks(cfg') = Blocks(cfg)
    BY <1>1, <1>3, <2>1, AddEdgeOK
  <2> QED
    BY <1>1, <1>4, <2>1, <2>2 DEF TypeOK
<1>13. CASE Continue
  <2>1. /\ cfg' = IF loops # <<>> THEN AddBackEdge(cfg, current, Top(loops).header) ELSE cfg
        /\ current \in Blocks(cfg) /\ current' = NoBlock
        /\ UNCHANGED <<frames, loops, status>>
    BY <1>1, <1>13 DEF Continue, Live
  <2>2. GraphOK(cfg') /\ Blocks(cfg') = Blocks(cfg)
    BY <1>1, <1>3, <2>1, AddBackEdgeOK
  <2> QED
    BY <1>1, <1>4, <2>1, <2>2 DEF TypeOK
<1>14. CASE Finish
  BY <1>14 DEF TypeOK, Finish
<1>15. CASE TooManyBlocks
  <2>1. /\ cfg' = Report(cfg, "too many blocks") /\ status' = "exit1"
        /\ UNCHANGED <<current, frames, loops>>
    BY <1>15 DEF TooManyBlocks
  <2>2. GraphOK(cfg') /\ Blocks(cfg') = Blocks(cfg)
    BY <1>1, <2>1, ReportOK DEF Messages
  <2> QED
    BY <1>1, <1>4, <2>1, <2>2 DEF TypeOK
<1>16. CASE UNCHANGED vars
  BY <1>16 DEF TypeOK, vars
<1> QED
  BY <1>5, <1>6, <1>7, <1>8, <1>9, <1>10, <1>11, <1>12, <1>13, <1>14, <1>15, <1>16
     DEF Next, Stopped

\* The builder never names a block that does not exist and never fills an
\* array of cfg.h or cfg.c past its end, whatever the limits are.
THEOREM TypeCorrect == Spec => []TypeOK
<1>1. Init => TypeOK
  BY TypeInit
<1>2. TypeOK /\ [Next]_vars => TypeOK'
  BY TypeStep
<1> QED
  BY <1>1, <1>2, PTL DEF Spec

(***************************************************************************)
(* The LoopStack of the CFG builder follows the nesting of the statements, *)
(* for every value of the limits: what break and continue resolve to is    *)
(* the innermost open Loop until a limit is reported.                      *)
(*                                                                         *)
(* LoopStackInv alone is not inductive: when a body ends, one entry of the *)
(* LoopStack goes, and what remains has to match the frames below.  That   *)
(* takes the two facts of Nesting: a body adds one to the nesting of the   *)
(* frame under it and an arm nothing, so nestings grow along the stack.    *)
(***************************************************************************)
NestUnder(i) == IF i = 1 THEN 0 ELSE frames[i - 1].nest

Nesting ==
  /\ \A i \in 1 .. Len(frames) :
       frames[i].nest = IF frames[i].k = "body" THEN NestUnder(i) + 1 ELSE NestUnder(i)
  /\ \A i, j \in 1 .. Len(frames) : i <= j => frames[i].nest <= frames[j].nest

\* the entries of the LoopStack that the open bodies own
Owned ==
  \A i \in 1 .. Len(frames) :
    frames[i].k = "body" =>
      loops[frames[i].nest] = [header |-> frames[i].at, exit |-> frames[i].join]

LoopStackInd == TypeOK /\ Nesting /\ (Silent(cfg) => Len(loops) = Nest /\ Owned)

(***************************************************************************)
(* A message on stderr is never taken back, whatever the builder does.     *)
(***************************************************************************)

\* After a message the builder is not silent.
LEMMA NoisyReport ==
  ASSUME NEW g, GraphRec(g), NEW m \in Messages, NEW h, h = Report(g, m)
  PROVE  GraphRec(h) /\ ~Silent(h)
BY ReportFields DEF Silent

\* new_block says nothing below MAX_BLOCKS.
LEMMA QuietNewBlock ==
  ASSUME NEW g, NEW k, NEW d, NEW h, h = NewBlock(g, k, d)
  PROVE  GraphRec(h) /\ (Silent(h) => Silent(g))
BY NewBlockFields DEF Silent

\* add_edge keeps what was said.
LEMMA QuietAddEdge ==
  ASSUME NEW g, GraphRec(g), NEW a, NEW b, NEW h, h = AddEdge(g, a, b)
  PROVE  GraphRec(h) /\ (Silent(h) => Silent(g))
<1>1. GraphRec(h)
  BY AddEdgeFields
<1>2. CASE EdgeFits(g, a, b)
  <2>1. h.stderr = g.stderr
    BY <1>2, AddEdgeFits
  <2> QED
    BY <1>1, <2>1 DEF Silent
<1>3. CASE ~EdgeFits(g, a, b)
  BY <1>1, <1>3, AddEdgeFull
<1> QED
  BY <1>2, <1>3

\* add_back_edge keeps what was said.
LEMMA QuietAddBackEdge ==
  ASSUME NEW g, GraphRec(g), NEW a, NEW b, NEW h, h = AddBackEdge(g, a, b)
  PROVE  GraphRec(h) /\ (Silent(h) => Silent(g))
<1> DEFINE e == AddEdge(g, a, b)
<1>1. GraphRec(h) /\ h.stderr = e.stderr
  <2> DEFINE f == [c \in Blocks(g) |-> IF c = a THEN g.back[c] \union NextSlot(g, c)
                                                ELSE g.back[c]]
  <2>1. GraphRec(e)
    BY AddEdgeFields
  <2>2. h = [e EXCEPT !.back = f]
    BY DEF AddBackEdge
  <2> HIDE DEF e, f
  <2> QED
    BY <2>1, <2>2 DEF GraphRec
<1>2. Silent(e) => Silent(g)
  BY QuietAddEdge
<1> QED
  BY <1>1, <1>2 DEF Silent

\* block_add_stmt keeps what was said.
LEMMA QuietAddStmt ==
  ASSUME NEW g, GraphRec(g), NEW b, NEW h, h = AddStmt(g, b)
  PROVE  GraphRec(h) /\ (Silent(h) => Silent(g))
<1>1. CASE g.nstmts[b] < MaxBlockStmts
  BY <1>1 DEF AddStmt, GraphRec, Silent
<1>2. CASE ~(g.nstmts[b] < MaxBlockStmts)
  <2>1. h = Report(g, "too many stmts") /\ "too many stmts" \in Messages
    BY <1>2 DEF AddStmt, Messages
  <2> QED
    BY <2>1, NoisyReport
<1> QED
  BY <1>1, <1>2

\* A Loop past MAX_LOOP_DEPTH is reported.
LEMMA LoopBeginReports ==
  ASSUME TypeOK, LoopBegin, Silent(cfg')
  PROVE  Silent(cfg) /\ Len(loops) < MaxLoopDepth
<1> DEFINE g1 == NewBlock(cfg, "LOOP_HEADER", Nest)
           g2 == AddEdge(g1, current, cfg.n)
           g3 == NewBlock(g2, "LOOP_EXIT", Nest)
           g4 == AddEdge(g3, cfg.n, cfg.n + 1)
           g5 == IF Len(loops) < MaxLoopDepth THEN g4 ELSE Report(g4, "loop nesting too deep")
           g6 == NewBlock(g5, "LOOP_BODY", Nest)
<1>1. cfg' = AddEdge(g6, cfg.n, cfg.n + 2)
  BY DEF LoopBegin
<1>2. GraphRec(g1) /\ (Silent(g1) => Silent(cfg))
  BY QuietNewBlock
<1> HIDE DEF g1
<1>3. GraphRec(g2) /\ (Silent(g2) => Silent(g1))
  BY <1>2, QuietAddEdge
<1> HIDE DEF g2
<1>4. GraphRec(g3) /\ (Silent(g3) => Silent(g2))
  BY QuietNewBlock
<1> HIDE DEF g3
<1>5. GraphRec(g4) /\ (Silent(g4) => Silent(g3))
  BY <1>4, QuietAddEdge
<1> HIDE DEF g4
<1>6. /\ Len(loops) < MaxLoopDepth => g5 = g4
      /\ ~(Len(loops) < MaxLoopDepth) => ~Silent(g5)
  <2>1. "loop nesting too deep" \in Messages
    BY DEF Messages
  <2>2. ~Silent(Report(g4, "loop nesting too deep"))
    BY <1>5, <2>1, NoisyReport
  <2> QED
    BY <2>2
<1> HIDE DEF g5
<1>7. GraphRec(g6) /\ (Silent(g6) => Silent(g5))
  BY QuietNewBlock
<1> HIDE DEF g6
<1>8. Silent(cfg') => Silent(g6)
  BY <1>1, <1>7, QuietAddEdge
<1> QED
  BY <1>2, <1>3, <1>4, <1>5, <1>6, <1>7, <1>8

\* No step takes a message back.
LEMMA ReportsStay ==
  ASSUME TypeOK, [Next]_vars, Silent(cfg')
  PROVE  Silent(cfg)
<1>1. GraphRec(cfg)
  BY DEF TypeOK, GraphOK
<1>2. CASE PlainStmt
  BY <1>1, <1>2, QuietAddStmt DEF PlainStmt
<1>3. CASE Return
  <2> DEFINE g1 == NewBlock(cfg, "RETURN", Depth)
             g2 == AddStmt(g1, cfg.n)
  <2>1. cfg' = AddEdge(g2, current, cfg.n)
    BY <1>3 DEF Return
  <2>2. GraphRec(g1) /\ (Silent(g1) => Silent(cfg))
    BY QuietNewBlock
  <2> HIDE DEF g1
  <2>3. GraphRec(g2) /\ (Silent(g2) => Silent(g1))
    BY <2>2, QuietAddStmt
  <2> HIDE DEF g2
  <2> QED
    BY <2>1, <2>2, <2>3, QuietAddEdge
<1>4. CASE IfBegin
  <2> DEFINE g1 == NewBlock(cfg, "IF", Depth)
             g2 == AddEdge(g1, current, cfg.n)
             g3 == NewBlock(g2, "MERGE", Depth)
             g4 == NewBlock(g3, "IF_TRUE", Depth)
  <2>1. cfg' = AddEdge(g4, cfg.n, cfg.n + 2)
    BY <1>4 DEF IfBegin
  <2>2. GraphRec(g1) /\ (Silent(g1) => Silent(cfg))
    BY QuietNewBlock
  <2> HIDE DEF g1
  <2>3. GraphRec(g2) /\ (Silent(g2) => Silent(g1))
    BY <2>2, QuietAddEdge
  <2> HIDE DEF g2
  <2>4. GraphRec(g3) /\ (Silent(g3) => Silent(g2))
    BY QuietNewBlock
  <2> HIDE DEF g3
  <2>5. GraphRec(g4) /\ (Silent(g4) => Silent(g3))
    BY QuietNewBlock
  <2> HIDE DEF g4
  <2> QED
    BY <2>1, <2>2, <2>3, <2>4, <2>5, QuietAddEdge
<1>5. CASE EndTrue
  <2> DEFINE g1 == JoinTo(cfg, Top(frames).join)
             g2 == NewBlock(g1, "IF_FALSE", Depth)
  <2>1. cfg' = AddEdge(g2, Top(frames).at, cfg.n)
    BY <1>5 DEF EndTrue
  <2>2. Silent(g1) => Silent(cfg)
    BY <1>1, QuietAddEdge DEF JoinTo
  <2> HIDE DEF g1
  <2>3. GraphRec(g2) /\ (Silent(g2) => Silent(g1))
    BY QuietNewBlock
  <2> HIDE DEF g2
  <2> QED
    BY <2>1, <2>2, <2>3, QuietAddEdge
<1>6. CASE EndFalse
  BY <1>1, <1>6, QuietAddEdge DEF EndFalse, JoinTo
<1>7. CASE LoopBegin
  BY <1>7, LoopBeginReports
<1>8. CASE EndBody
  BY <1>1, <1>8, QuietAddBackEdge DEF EndBody
<1>9. CASE Break
  BY <1>1, <1>9, QuietAddEdge DEF Break
<1>10. CASE Continue
  BY <1>1, <1>10, QuietAddBackEdge DEF Continue
<1>11. CASE Finish
  BY <1>11 DEF Finish
<1>12. CASE TooManyBlocks
  <2>1. "too many blocks" \in Messages
    BY DEF Messages
  <2> QED
    BY <1>1, <1>12, <2>1, NoisyReport DEF TooManyBlocks
<1>13. CASE UNCHANGED vars
  BY <1>13 DEF vars
<1> QED
  BY <1>2, <1>3, <1>4, <1>5, <1>6, <1>7, <1>8, <1>9, <1>10, <1>11, <1>12, <1>13
     DEF Next, Stopped

\* What the step does to the two stacks, while nothing is reported.
LEMMA LoopStackStep == LoopStackInd /\ [Next]_vars => LoopStackInd'
<1> SUFFICES ASSUME LoopStackInd, [Next]_vars PROVE LoopStackInd'
  OBVIOUS
<1>1. /\ TypeOK /\ TypeOK' /\ Nesting
      /\ frames \in Seq(Frame(cfg)) /\ loops \in Seq(Loop(cfg))
      /\ Len(frames) \in Nat /\ Len(loops) \in Nat
      /\ \A i \in 1 .. Len(frames) : frames[i].nest \in Nat
  <2>1. TypeOK /\ Nesting /\ TypeOK'
    BY TypeStep DEF LoopStackInd
  <2>2. frames \in Seq(Frame(cfg)) /\ loops \in Seq(Loop(cfg))
    BY <2>1 DEF TypeOK
  <2>3. Len(frames) \in Nat /\ Len(loops) \in Nat
    BY <2>2
  <2>4. ASSUME NEW i \in 1 .. Len(frames) PROVE frames[i].nest \in Nat
    <3>1. frames[i] \in Frame(cfg)
      BY <2>2
    <3> QED
      BY <3>1 DEF Frame
  <2> QED
    BY <2>1, <2>2, <2>3, <2>4
<1>2. Silent(cfg') => Silent(cfg) /\ Len(loops) = Nest /\ Owned
  BY <1>1, ReportsStay DEF LoopStackInd
<1>3. Nest = IF Len(frames) = 0 THEN 0 ELSE frames[Len(frames)].nest
  BY <1>1 DEF Nest, Top
\* what an arm or a body that opens adds to the stacks
<1>4. ASSUME NEW e, frames' = Append(frames, e), e.nest \in Nat,
             e.nest = IF e.k = "body" THEN Nest + 1 ELSE Nest
      PROVE  /\ Len(frames') = Len(frames) + 1 /\ frames'[Len(frames')] = e
             /\ \A i \in 1 .. Len(frames) : frames'[i] = frames[i]
             /\ Nesting' /\ Nest' = e.nest
  <2>1. /\ Len(frames') = Len(frames) + 1 /\ frames'[Len(frames')] = e
        /\ \A i \in 1 .. Len(frames) : frames'[i] = frames[i]
    BY <1>1, <1>4
  <2>2. \A i \in 1 .. Len(frames) : frames[i].nest <= Nest
    BY <1>1, <1>3 DEF Nesting
  <2>3. \A i, j \in 1 .. Len(frames') : i <= j => frames'[i].nest <= frames'[j].nest
    BY <1>1, <1>3, <1>4, <2>1, <2>2 DEF Nesting
  <2>4. \A i \in 1 .. Len(frames') :
          frames'[i].nest = IF frames'[i].k = "body" THEN NestUnder(i)' + 1 ELSE NestUnder(i)'
    BY <1>1, <1>3, <1>4, <2>1 DEF Nesting, NestUnder
  <2>5. Nest' = e.nest
    BY <1>1, <2>1 DEF Nest, Top
  <2> QED
    BY <2>1, <2>3, <2>4, <2>5 DEF Nesting
\* what closing the innermost statement leaves of the stack of frames
<1>5. ASSUME frames # <<>>, frames' = Pop(frames)
      PROVE  /\ Len(frames') = Len(frames) - 1
             /\ \A i \in 1 .. Len(frames) - 1 : frames'[i] = frames[i]
             /\ Nesting' /\ Nest' = NestUnder(Len(frames))
             /\ Len(frames) \in 1 .. Len(frames)
  <2>1. /\ Len(frames') = Len(frames) - 1 /\ Len(frames) # 0
        /\ \A i \in 1 .. Len(frames) - 1 : frames'[i] = frames[i]
    BY <1>1, <1>5, PopType
  <2>2. Nesting'
    <3>1. ASSUME NEW i \in 1 .. Len(frames'), NEW j \in 1 .. Len(frames'), i <= j
          PROVE  frames'[i].nest <= frames'[j].nest
      <4>1. /\ i \in 1 .. Len(frames) /\ frames'[i] = frames[i]
            /\ j \in 1 .. Len(frames) /\ frames'[j] = frames[j]
        BY <1>1, <2>1
      <4>2. frames[i].nest <= frames[j].nest
        BY <1>1, <3>1, <4>1 DEF Nesting
      <4> QED
        BY <4>1, <4>2
    <3>2. ASSUME NEW i \in 1 .. Len(frames')
          PROVE  NestUnder(i)' = NestUnder(i) /\ frames'[i] = frames[i] /\ i \in 1 .. Len(frames)
      BY <1>1, <2>1 DEF NestUnder
    <3> QED
      BY <3>1, <3>2, <1>1 DEF Nesting
  <2>3. Nest' = IF Len(frames') = 0 THEN 0 ELSE frames'[Len(frames')].nest
    <3>1. frames' \in Seq(Frame(cfg'))
      BY <1>1 DEF TypeOK
    <3> QED
      BY <3>1 DEF Nest, Top
  <2> QED
    BY <1>1, <2>1, <2>2, <2>3 DEF NestUnder
\* a step that leaves both stacks alone
<1>6. ASSUME frames' = frames, loops' = loops
      PROVE  LoopStackInd'
  BY <1>1, <1>2, <1>6 DEF LoopStackInd, Nesting, NestUnder, Owned, Nest
<1>7. \A i \in 1 .. Len(frames) :
        /\ frames[i].nest <= Nest
        /\ frames[i].k = "body" => frames[i].nest \in 1 .. Nest
  <2>1. \A i \in 1 .. Len(frames) : frames[i].nest <= Nest
    BY <1>1, <1>3 DEF Nesting
  <2>2. \A i \in 1 .. Len(frames) : NestUnder(i) \in Nat
    BY <1>1 DEF NestUnder
  <2>3. \A i \in 1 .. Len(frames) : frames[i].k = "body" => frames[i].nest = NestUnder(i) + 1
    BY <1>1 DEF Nesting
  <2> QED
    BY <1>1, <1>3, <2>1, <2>2, <2>3
<1>8. CASE PlainStmt \/ Return \/ Break \/ Continue \/ Finish \/ TooManyBlocks \/ UNCHANGED vars
  <2>1. frames' = frames /\ loops' = loops
    BY <1>8 DEF PlainStmt, Return, Break, Continue, Finish, TooManyBlocks, vars
  <2> QED
    BY <1>6, <2>1
<1>9. CASE IfBegin
  <2> DEFINE e == [k |-> "true", at |-> cfg.n, join |-> cfg.n + 1, nest |-> Nest]
  <2>1. frames' = Append(frames, e) /\ loops' = loops
    BY <1>9 DEF IfBegin, Push
  <2>2. e.nest = Nest /\ e.k # "body" /\ Nest \in Nat
    BY <1>1, NestType
  <2> HIDE DEF e
  <2>3. /\ Len(frames') = Len(frames) + 1 /\ frames'[Len(frames')] = e
        /\ \A i \in 1 .. Len(frames) : frames'[i] = frames[i]
        /\ Nesting' /\ Nest' = Nest
    BY <1>4, <2>1, <2>2
  <2>4. Owned => Owned'
    BY <1>1, <2>1, <2>2, <2>3 DEF Owned
  <2> QED
    BY <1>1, <1>2, <2>1, <2>3, <2>4 DEF LoopStackInd
<1>10. CASE EndTrue
  <2> DEFINE n == Len(frames)
             f == [Top(frames) EXCEPT !.k = "false"]
  <2>1. /\ frames # <<>> /\ frames' = [frames EXCEPT ![n] = f] /\ loops' = loops
        /\ Top(frames) = frames[n] /\ frames[n].k = "true"
    BY <1>10 DEF EndTrue, Top
  <2>2. frames[n] \in Frame(cfg) /\ n \in 1 .. n
    BY <1>1, <2>1
  <2>3. f.k = "false" /\ f.nest = frames[n].nest
    BY <2>1, <2>2 DEF Frame
  <2> HIDE DEF f
  <2>4. /\ Len(frames') = n
        /\ \A i \in 1 .. n : /\ frames'[i].nest = frames[i].nest
                             /\ frames'[i].k = "body" <=> frames[i].k = "body"
                             /\ frames'[i].k = "body" => frames'[i] = frames[i]
    BY <1>1, <2>1, <2>2, <2>3
  <2>5. Nest' = Nest
    <3>1. Nest' = IF frames' = <<>> THEN 0 ELSE frames'[Len(frames')].nest
      BY DEF Nest, Top
    <3>2. frames' \in Seq(Frame(cfg'))
      BY <1>1 DEF TypeOK
    <3> QED
      BY <1>3, <2>2, <2>4, <3>1, <3>2
  <2>6. \A i \in 1 .. n : NestUnder(i)' = NestUnder(i)
    BY <1>1, <2>4 DEF NestUnder
  <2>7. Nesting'
    BY <1>1, <2>4, <2>6 DEF Nesting
  <2>8. Owned => Owned'
    <3> SUFFICES ASSUME Owned, NEW i \in 1 .. n, frames'[i].k = "body"
                 PROVE  loops'[frames'[i].nest]
                          = [header |-> frames'[i].at, exit |-> frames'[i].join]
      BY <2>4 DEF Owned
    <3>1. frames[i].k = "body" /\ frames'[i] = frames[i]
      BY <2>4
    <3>2. loops[frames[i].nest] = [header |-> frames[i].at, exit |-> frames[i].join]
      BY <3>1 DEF Owned
    <3> QED
      BY <2>1, <3>1, <3>2
  <2> QED
    BY <1>1, <1>2, <2>1, <2>5, <2>7, <2>8 DEF LoopStackInd
<1>11. CASE EndFalse
  <2> DEFINE n == Len(frames)
  <2>1. /\ frames # <<>> /\ frames' = Pop(frames) /\ loops' = loops
        /\ frames[n].k = "false"
    BY <1>11 DEF EndFalse, Top
  <2>2. /\ Len(frames') = n - 1 /\ n \in 1 .. n
        /\ \A i \in 1 .. n - 1 : frames'[i] = frames[i]
        /\ Nesting' /\ Nest' = NestUnder(n)
    BY <1>5, <2>1
  <2>3. Nest' = Nest
    BY <1>1, <1>3, <2>1, <2>2 DEF Nesting
  <2>4. Owned => Owned'
    BY <1>1, <2>1, <2>2 DEF Owned
  <2> QED
    BY <1>1, <1>2, <2>1, <2>2, <2>3, <2>4 DEF LoopStackInd
<1>12. CASE LoopBegin
  <2> DEFINE e == [k |-> "body", at |-> cfg.n, join |-> cfg.n + 1, nest |-> Nest + 1]
             l == [header |-> cfg.n, exit |-> cfg.n + 1]
  <2>1. frames' = Append(frames, e)
    BY <1>12 DEF LoopBegin, Push
  <2>2. e.nest = Nest + 1 /\ e.k = "body" /\ Nest \in Nat /\ l = [header |-> e.at, exit |-> e.join]
    BY <1>1, NestType
  <2>3. Silent(cfg') => loops' = Append(loops, l)
    BY <1>1, <1>12, LoopBeginReports DEF LoopBegin, LoopPush, Push
  <2> HIDE DEF e, l
  <2>4. /\ Len(frames') = Len(frames) + 1 /\ frames'[Len(frames')] = e
        /\ \A i \in 1 .. Len(frames) : frames'[i] = frames[i]
        /\ Nesting' /\ Nest' = Nest + 1
    BY <1>4, <2>1, <2>2
  <2>5. ASSUME Silent(cfg') PROVE Len(loops') = Nest' /\ Owned'
    <3>1. /\ Len(loops) = Nest /\ Owned /\ Len(loops') = Len(loops) + 1
          /\ loops'[Nest + 1] = l
          /\ \A d \in 1 .. Nest : loops'[d] = loops[d]
      <4>1. loops' = Append(loops, l) /\ Len(loops) = Nest /\ Owned
        BY <1>2, <2>3, <2>5
      <4> QED
        BY <1>1, <4>1
    <3>2. ASSUME NEW i \in 1 .. Len(frames'), frames'[i].k = "body"
          PROVE  loops'[frames'[i].nest] = [header |-> frames'[i].at, exit |-> frames'[i].join]
      <4>1. CASE i = Len(frames')
        BY <2>2, <2>4, <3>1, <4>1
      <4>2. CASE i # Len(frames')
        <5>1. i \in 1 .. Len(frames) /\ frames'[i] = frames[i]
          BY <1>1, <2>4, <4>2
        <5>2. frames[i].nest \in 1 .. Nest
          BY <1>7, <3>2, <5>1
        <5> QED
          BY <3>1, <3>2, <5>1, <5>2 DEF Owned
      <4> QED
        BY <4>1, <4>2
    <3> QED
      BY <2>4, <3>1, <3>2 DEF Owned
  <2> QED
    BY <1>1, <2>4, <2>5 DEF LoopStackInd
<1>13. CASE EndBody
  <2> DEFINE n == Len(frames)
  <2>1. /\ frames # <<>> /\ frames' = Pop(frames) /\ frames[n].k = "body"
        /\ loops' = IF loops = <<>> THEN loops ELSE Pop(loops)
    BY <1>13 DEF EndBody, Top, LoopPop
  <2>2. /\ Len(frames') = n - 1 /\ n \in 1 .. n
        /\ \A i \in 1 .. n - 1 : frames'[i] = frames[i]
        /\ Nesting' /\ Nest' = NestUnder(n)
    BY <1>5, <2>1
  <2>3. Nest = Nest' + 1 /\ Nest' \in Nat
    BY <1>1, <1>3, <2>1, <2>2 DEF Nesting, NestUnder
  <2>4. ASSUME Silent(cfg') PROVE Len(loops') = Nest' /\ Owned'
    <3>1. Len(loops) = Nest /\ Owned /\ loops # <<>> /\ loops' = Pop(loops)
      <4>1. Len(loops) = Nest /\ Owned
        BY <1>2, <2>4
      <4>2. loops # <<>>
        BY <1>1, <2>3, <4>1
      <4> QED
        BY <2>1, <4>1, <4>2
    <3>2. Len(loops') = Nest' /\ \A d \in 1 .. Nest' : loops'[d] = loops[d]
      <4>1. /\ Len(Pop(loops)) = Len(loops) - 1
            /\ \A d \in 1 .. Len(loops) - 1 : Pop(loops)[d] = loops[d]
        BY <1>1, <3>1, PopType
      <4>2. Len(loops) - 1 = Nest'
        <5>1. Len(loops) = Nest /\ Len(loops) \in Nat
          BY <1>1, <3>1
        <5>2. \A a, b, c : a \in Nat /\ c \in Nat /\ b = c + 1 /\ a = b => a - 1 = c
          OBVIOUS
        <5> QED
          BY <2>3, <5>1, <5>2, Zenon
      <4> QED
        BY <3>1, <4>1, <4>2
    <3>3. ASSUME NEW i \in 1 .. Len(frames'), frames'[i].k = "body"
          PROVE  loops'[frames'[i].nest] = [header |-> frames'[i].at, exit |-> frames'[i].join]
      <4>1. i \in 1 .. n - 1 /\ i \in 1 .. n /\ frames'[i] = frames[i]
        BY <1>1, <2>2
      <4>2. frames[i].nest <= NestUnder(n)
        BY <1>1, <4>1 DEF Nesting, NestUnder
      <4>3. frames[i].nest \in 1 .. Nest'
        BY <1>7, <2>2, <2>3, <3>3, <4>1, <4>2
      <4> QED
        BY <3>1, <3>2, <3>3, <4>1, <4>3 DEF Owned
    <3> QED
      BY <3>2, <3>3 DEF Owned
  <2> QED
    BY <1>1, <2>2, <2>4 DEF LoopStackInd
<1> QED
  BY <1>8, <1>9, <1>10, <1>11, <1>12, <1>13 DEF Next, Stopped

\* The LoopStack is empty and no statement is open when the walk begins.
LEMMA LoopStackInit == Init => LoopStackInd
<1> SUFFICES ASSUME Init PROVE LoopStackInd
  OBVIOUS
<1>1. TypeOK /\ frames = <<>> /\ loops = <<>>
  BY TypeInit DEF Init
<1> QED
  BY <1>1 DEF LoopStackInd, Nesting, Owned, Nest

\* As long as no limit was reported, loop_push and loop_pop keep the LoopStack
\* equal to the Loop statements that are open, at every nesting and for every
\* MAX_LOOP_DEPTH: break and continue leave the innermost loop.
THEOREM LoopStackCorrect == Spec => []LoopStackInv
<1>1. LoopStackInd => LoopStackInv
  BY DEF LoopStackInd, LoopStackInv, Owned
<1> QED
  BY <1>1, LoopStackInit, LoopStackStep, PTL DEF Spec
=============================================================================
