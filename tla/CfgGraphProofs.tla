---------------------------- MODULE CfgGraphProofs ----------------------------
(***************************************************************************)
(* Theorems about the graph that the CFG builder grows, for every value of *)
(* its limits: its shape, its cycles, the flow of control it draws, and    *)
(* its natural loops.                                                      *)
(***************************************************************************)
EXTENDS CfgProofs, FiniteSetTheorems, WellFoundedInduction

(***************************************************************************)
(* What is true of the graph alone, whatever the builder does next.        *)
(***************************************************************************)
Limit(kind) == CASE kind = "RETURN" -> 0
                 [] kind \in {"IF", "LOOP_HEADER"} -> 2
                 [] OTHER -> 1

Apart(list) == \A i, j \in 1 .. Len(list) : list[i] = list[j] => i = j

Shape(g) ==
  /\ \A a, b \in Blocks(g) : b \in Succs(g, a) <=> a \in Preds(g, b)
  /\ \A a \in Blocks(g) : Apart(g.succs[a]) /\ Len(g.succs[a]) <= Limit(g.kind[a])

\* r grows along every edge that is not flagged
Ranked(g, r) == \A e \in Edges(g) \ BackEdges(g) : r[e[1]] < r[e[2]]

\* a flag is one of an edge that is there
Flags(g) == \A b \in Blocks(g) : \A i \in g.back[b] : i <= Len(g.succs[b])

\* Every edge from b goes to a block of the graph, and is one of its slots.
LEMMA SuccsOf ==
  ASSUME NEW g, GraphOK(g), NEW b \in Blocks(g)
  PROVE  /\ g.succs[b] \in Seq(Blocks(g)) /\ Len(g.succs[b]) \in Nat
         /\ g.preds[b] \in Seq(Blocks(g)) /\ Len(g.preds[b]) \in Nat
         /\ Succs(g, b) \subseteq Blocks(g)
<1>1. g.succs[b] \in Seq(Blocks(g)) /\ g.preds[b] \in Seq(Blocks(g))
  BY DEF GraphOK, GraphTypes
<1> QED
  BY <1>1 DEF Succs

\* What is in a list that one more was appended to.
LEMMA AppendedTo ==
  ASSUME NEW S, NEW s \in Seq(S), NEW e \in S, NEW t, t = Append(s, e)
  PROVE  /\ {t[i] : i \in 1 .. Len(t)} = {s[i] : i \in 1 .. Len(s)} \union {e}
         /\ Len(t) = Len(s) + 1 /\ t[Len(s) + 1] = e
         /\ \A i \in 1 .. Len(s) : t[i] = s[i]
<1>1. /\ Len(t) = Len(s) + 1 /\ t[Len(s) + 1] = e /\ Len(s) \in Nat
      /\ \A i \in 1 .. Len(s) : t[i] = s[i]
  OBVIOUS
<1>2. 1 .. Len(t) = (1 .. Len(s)) \union {Len(s) + 1}
  BY <1>1
<1> QED
  BY <1>1, <1>2

\* the two ends of add_edge
Written(g, h, a, b) ==
  /\ EdgeFits(g, a, b) /\ h.stderr = g.stderr
  /\ h.succs[a] = Append(g.succs[a], b)
  /\ \A c \in Blocks(g) \ {a} : h.succs[c] = g.succs[c]
  /\ h.preds[b] = Append(g.preds[b], a)
  /\ \A c \in Blocks(g) \ {b} : h.preds[c] = g.preds[c]

Lost(g, h) == ~Silent(h) /\ h.succs = g.succs /\ h.preds = g.preds

\* What add_edge does to the lists, where there is room and where there is not.
LEMMA AddEdgeLists ==
  ASSUME NEW g, GraphOK(g), NEW a \in Blocks(g), NEW b \in Blocks(g),
         NEW h, h = AddEdge(g, a, b)
  PROVE  /\ GraphOK(h) /\ h.n = g.n /\ Blocks(h) = Blocks(g)
         /\ h.kind = g.kind /\ h.back = g.back
         /\ Written(g, h, a, b) \/ Lost(g, h)
<1>1. GraphOK(h) /\ h.n = g.n /\ Blocks(h) = Blocks(g)
  BY AddEdgeOK
<1>2. h.kind = g.kind /\ h.back = g.back
  BY AddEdgeFields DEF GraphOK
<1>3. CASE EdgeFits(g, a, b)
  <2>1. h.succs = Attach(g.succs, a, b) /\ h.preds = Attach(g.preds, b, a) /\ h.stderr = g.stderr
    BY <1>3, AddEdgeFits DEF GraphOK
  <2>2. DOMAIN g.succs = Blocks(g) /\ DOMAIN g.preds = Blocks(g)
    BY DEF GraphOK, GraphTypes
  <2>3. h.succs = [g.succs EXCEPT ![a] = Append(g.succs[a], b)]
        /\ h.preds = [g.preds EXCEPT ![b] = Append(g.preds[b], a)]
    BY <2>1 DEF Attach
  <2> QED
    BY <1>1, <1>2, <1>3, <2>1, <2>2, <2>3 DEF Written
<1>4. CASE ~EdgeFits(g, a, b)
  BY <1>1, <1>2, <1>4, AddEdgeFull DEF GraphOK, Lost
<1> QED
  BY <1>3, <1>4

\* add_edge keeps the shape, if the edge is not there yet and its source may have it.
LEMMA AddEdgeShape ==
  ASSUME NEW g, GraphOK(g), Shape(g), NEW a \in Blocks(g), NEW b \in Blocks(g),
         b \notin Succs(g, a), Len(g.succs[a]) < Limit(g.kind[a]),
         NEW h, h = AddEdge(g, a, b)
  PROVE  /\ Shape(h) /\ Len(h.succs[a]) <= Len(g.succs[a]) + 1
         /\ Succs(h, a) \subseteq Succs(g, a) \union {b}
         /\ \A c \in Blocks(g) \ {a} : h.succs[c] = g.succs[c]
<1>1. GraphOK(h) /\ Blocks(h) = Blocks(g) /\ h.kind = g.kind
  BY AddEdgeLists
<1>2. CASE h.succs = g.succs /\ h.preds = g.preds
  <2>1. Len(g.succs[a]) \in Nat
    BY SuccsOf
  <2>2. \A c : Succs(h, c) = Succs(g, c) /\ Preds(h, c) = Preds(g, c)
    BY <1>2 DEF Succs, Preds
  <2>3. Shape(h)
    BY <1>1, <1>2, <2>2 DEF Shape
  <2> QED
    BY <1>2, <2>1, <2>2, <2>3
<1>3. CASE /\ h.succs[a] = Append(g.succs[a], b)
           /\ \A c \in Blocks(g) \ {a} : h.succs[c] = g.succs[c]
           /\ h.preds[b] = Append(g.preds[b], a)
           /\ \A c \in Blocks(g) \ {b} : h.preds[c] = g.preds[c]
  <2>1. /\ Succs(h, a) = Succs(g, a) \union {b}
        /\ Len(h.succs[a]) = Len(g.succs[a]) + 1 /\ h.succs[a][Len(g.succs[a]) + 1] = b
        /\ \A i \in 1 .. Len(g.succs[a]) : h.succs[a][i] = g.succs[a][i]
    BY <1>3, SuccsOf, AppendedTo, SMTT(30) DEF Succs
  <2>2. Preds(h, b) = Preds(g, b) \union {a}
    <3> DEFINE s == g.preds[b]
    <3>1. s \in Seq(Blocks(g))
      BY SuccsOf
    <3>2. h.preds[b] = Append(s, a)
      BY <1>3
    <3> HIDE DEF s
    <3>3. {h.preds[b][i] : i \in 1 .. Len(h.preds[b])} = {s[i] : i \in 1 .. Len(s)} \union {a}
      BY <3>1, <3>2, AppendedTo
    <3> QED
      BY <3>3 DEF Preds, s
  <2>3. \A c \in Blocks(g) : c # a => Succs(h, c) = Succs(g, c)
    BY <1>3 DEF Succs
  <2>4. \A c \in Blocks(g) : c # b => Preds(h, c) = Preds(g, c)
    BY <1>3 DEF Preds
  <2>5. \A c, d \in Blocks(g) : d \in Succs(h, c) <=> c \in Preds(h, d)
    BY <2>1, <2>2, <2>3, <2>4 DEF Shape
  <2>6. Len(g.succs[a]) \in Nat /\ Len(h.succs[a]) <= Limit(h.kind[a])
    BY <1>1, <2>1, SuccsOf DEF Limit
  <2>7. Apart(h.succs[a])
    <3>1. \A i \in 1 .. Len(g.succs[a]) : g.succs[a][i] # b
      BY DEF Succs
    <3>2. \A i, j \in 1 .. Len(g.succs[a]) : g.succs[a][i] = g.succs[a][j] => i = j
      BY DEF Shape, Apart
    <3>3. \A i \in 1 .. Len(h.succs[a]) : i \in 1 .. Len(g.succs[a]) \/ i = Len(g.succs[a]) + 1
      BY <2>1, <2>6
    <3> SUFFICES ASSUME NEW i \in 1 .. Len(h.succs[a]), NEW j \in 1 .. Len(h.succs[a]),
                        h.succs[a][i] = h.succs[a][j]
                 PROVE  i = j
      BY DEF Apart
    <3> QED
      BY <2>1, <3>1, <3>2, <3>3
  <2>8. \A c \in Blocks(g) : Apart(h.succs[c]) /\ Len(h.succs[c]) <= Limit(h.kind[c])
    <3>1. \A c \in Blocks(g) : Apart(g.succs[c]) /\ Len(g.succs[c]) <= Limit(g.kind[c])
      BY DEF Shape
    <3> QED
      BY <1>1, <1>3, <2>6, <2>7, <3>1
  <2>9. Shape(h)
    BY <1>1, <2>5, <2>8 DEF Shape
  <2> QED
    BY <1>3, <2>1, <2>6, <2>9
<1>4. Written(g, h, a, b) \/ Lost(g, h)
  BY AddEdgeLists
<1> QED
  BY <1>2, <1>3, <1>4 DEF Written, Lost

\* An edge of h, flagged or not, by the slots it is in.
LEMMA EdgeSlots ==
  ASSUME NEW g, NEW e \in Blocks(g) \X Blocks(g)
  PROVE  /\ e \in Edges(g) <=> \E i \in 1 .. Len(g.succs[e[1]]) : g.succs[e[1]][i] = e[2]
         /\ e \in BackEdges(g) <=> \E i \in g.back[e[1]] :
                                     i \in 1 .. Len(g.succs[e[1]]) /\ g.succs[e[1]][i] = e[2]
BY DEF Edges, BackEdges, Succs

\* add_edge adds its edge, loses no flag, and flags nothing by itself.
LEMMA AddEdgeFlow ==
  ASSUME NEW g, GraphOK(g), NEW a \in Blocks(g), NEW b \in Blocks(g),
         NEW h, h = AddEdge(g, a, b)
  PROVE  /\ Edges(h) \subseteq Edges(g) \union {<<a, b>>} /\ BackEdges(g) \subseteq BackEdges(h)
         /\ Silent(h) => Silent(g) /\ Edges(h) = Edges(g) \union {<<a, b>>}
         /\ Silent(h) /\ Flags(g) => Flags(h) /\ BackEdges(h) = BackEdges(g)
<1>1. GraphOK(h) /\ Blocks(h) = Blocks(g) /\ h.back = g.back
  BY AddEdgeLists
<1>2. CASE Lost(g, h)
  BY <1>1, <1>2 DEF Lost, Edges, BackEdges, Succs
<1>3. CASE Written(g, h, a, b)
  <2> DEFINE s == g.succs[a]
             u == h.succs[a]
  <2>1. /\ s \in Seq(Blocks(g)) /\ u = Append(s, b)
        /\ \A c \in Blocks(g) \ {a} : h.succs[c] = g.succs[c]
    BY <1>3, SuccsOf DEF Written
  <2>2. /\ Len(u) = Len(s) + 1 /\ u[Len(s) + 1] = b /\ Len(s) \in Nat
        /\ \A i \in 1 .. Len(s) : u[i] = s[i]
    <3> HIDE DEF s, u
    <3> QED BY <2>1, AppendedTo
  <2>3. Edges(h) = Edges(g) \union {<<a, b>>}
    <3>1. ASSUME NEW e \in Blocks(g) \X Blocks(g), e[1] = a
          PROVE  e \in Edges(h) <=> e \in Edges(g) \/ e = <<a, b>>
      <4>1. e \in Edges(h) <=> \E i \in 1 .. Len(u) : u[i] = e[2]
        BY <1>1, <3>1, EdgeSlots
      <4>2. e \in Edges(g) <=> \E i \in 1 .. Len(s) : s[i] = e[2]
        BY <3>1, EdgeSlots
      <4>3. e = <<a, b>> <=> e[2] = b
        BY <3>1
      <4> HIDE DEF s, u
      <4>4. 1 .. Len(u) = (1 .. Len(s)) \union {Len(s) + 1}
        BY <2>2
      <4> QED
        BY <2>2, <4>1, <4>2, <4>3, <4>4
    <3>2. ASSUME NEW e \in Blocks(g) \X Blocks(g), e[1] # a
          PROVE  e \in Edges(h) <=> e \in Edges(g)
      BY <1>1, <2>1, <3>2 DEF Edges, Succs
    <3>3. Edges(h) \subseteq Blocks(g) \X Blocks(g) /\ Edges(g) \subseteq Blocks(g) \X Blocks(g)
      BY <1>1 DEF Edges
    <3>4. <<a, b>> \in Blocks(g) \X Blocks(g) /\ \A e : e[1] # a => e # <<a, b>>
      OBVIOUS
    <3> QED
      BY <3>1, <3>2, <3>3, <3>4
  <2>4. ASSUME NEW e \in BackEdges(g)
        PROVE  e \in BackEdges(h)
    <3>1. e \in Blocks(g) \X Blocks(g)
      BY DEF BackEdges
    <3>2. PICK i \in g.back[e[1]] : i \in 1 .. Len(g.succs[e[1]]) /\ g.succs[e[1]][i] = e[2]
      BY DEF BackEdges
    <3>3. CASE e[1] = a
      <4>1. i \in 1 .. Len(s) /\ s[i] = e[2]
        BY <3>2, <3>3
      <4> HIDE DEF s, u
      <4>2. i \in 1 .. Len(u) /\ u[i] = e[2]
        BY <2>2, <4>1
      <4> QED
        BY <1>1, <3>1, <3>2, <3>3, <4>2, EdgeSlots DEF u
    <3>4. CASE e[1] # a
      <4>1. h.succs[e[1]] = g.succs[e[1]]
        BY <2>1, <3>1, <3>4
      <4> QED
        BY <1>1, <3>1, <3>2, <4>1, EdgeSlots
    <3> QED
      BY <3>3, <3>4
  <2>5. ASSUME Flags(g)
        PROVE  Flags(h) /\ BackEdges(h) \subseteq BackEdges(g)
    <3>1. ASSUME NEW c \in Blocks(g), NEW i \in g.back[c], i \in 1 .. Len(h.succs[c])
          PROVE  i \in 1 .. Len(g.succs[c]) /\ h.succs[c][i] = g.succs[c][i]
      <4>1. i <= Len(g.succs[c])
        BY <2>5 DEF Flags
      <4>2. CASE c = a
        <5>1. i \in 1 .. Len(s)
          BY <3>1, <2>2, <4>1, <4>2
        <5>2. u[i] = s[i]
          <6> HIDE DEF s, u
          <6> QED BY <2>2, <5>1
        <5> QED
          BY <4>2, <5>1, <5>2
      <4>3. CASE c # a
        BY <2>1, <3>1, <4>1, <4>3
      <4> QED
        BY <4>2, <4>3
    <3>2. BackEdges(h) \subseteq BackEdges(g)
      <4> SUFFICES ASSUME NEW e \in BackEdges(h) PROVE e \in BackEdges(g)
        OBVIOUS
      <4>1. e \in Blocks(g) \X Blocks(g)
        BY <1>1 DEF BackEdges
      <4>2. PICK i \in g.back[e[1]] : i \in 1 .. Len(h.succs[e[1]]) /\ h.succs[e[1]][i] = e[2]
        BY <1>1 DEF BackEdges
      <4> QED
        BY <3>1, <4>1, <4>2, EdgeSlots
    <3>3. ASSUME NEW c \in Blocks(g), NEW i \in g.back[c]
          PROVE  i <= Len(h.succs[c])
      <4>1. i \in 1 .. MaxSuccs
        BY DEF GraphOK, GraphTypes
      <4> QED
        BY <2>1, <2>2, <2>5, <4>1 DEF Flags
    <3> QED
      BY <1>1, <3>2, <3>3 DEF Flags
  <2>6. Silent(h) => Silent(g)
    BY <1>3 DEF Written, Silent
  <2> QED
    BY <2>3, <2>4, <2>5, <2>6
<1> QED
  BY <1>2, <1>3, AddEdgeLists

\* So what grew along the edges does so along one more of them.
LEMMA AddEdgeRanked ==
  ASSUME NEW g, GraphOK(g), NEW a \in Blocks(g), NEW b \in Blocks(g),
         NEW r, Ranked(g, r), r[a] < r[b], NEW h, h = AddEdge(g, a, b)
  PROVE  Ranked(h, r)
BY AddEdgeFlow DEF Ranked

\* add_back_edge adds its edge with the flag, keeps every other flag, and has no say in
\* what grows along the edges.
LEMMA AddBackEdgeFlow ==
  ASSUME NEW g, GraphOK(g), NEW a \in Blocks(g), NEW b \in Blocks(g),
         NEW h, h = AddBackEdge(g, a, b)
  PROVE  /\ Silent(h) => Silent(g) /\ Edges(h) = Edges(g) \union {<<a, b>>}
         /\ Silent(h) /\ Flags(g) => Flags(h) /\ BackEdges(h) = BackEdges(g) \union {<<a, b>>}
         /\ \A r : Ranked(g, r) => Ranked(h, r)
<1> DEFINE e == AddEdge(g, a, b)
<1>1. /\ GraphOK(e) /\ Blocks(e) = Blocks(g) /\ e.back = g.back
      /\ Written(g, e, a, b) \/ Lost(g, e)
  BY AddEdgeLists
<1>2. /\ Edges(e) \subseteq Edges(g) \union {<<a, b>>} /\ BackEdges(g) \subseteq BackEdges(e)
      /\ Silent(e) => Silent(g) /\ Edges(e) = Edges(g) \union {<<a, b>>}
      /\ Silent(e) /\ Flags(g) => Flags(e) /\ BackEdges(e) = BackEdges(g)
  BY AddEdgeFlow
<1>3. /\ GraphOK(h) /\ Blocks(h) = Blocks(g)
      /\ h.succs = e.succs /\ h.stderr = e.stderr
      /\ h.back = [c \in Blocks(g) |-> IF c = a THEN g.back[c] \union NextSlot(g, c)
                                               ELSE g.back[c]]
  <2>1. GraphOK(h) /\ Blocks(h) = Blocks(g) /\ GraphRec(g)
    BY AddBackEdgeOK DEF GraphOK
  <2>2. e = AddEdge(g, a, b)
    OBVIOUS
  <2> HIDE DEF e
  <2> QED
    BY <2>1, <2>2, AddBackEdgeFields
<1> HIDE DEF e
<1>4. Edges(h) = Edges(e) /\ (Silent(h) <=> Silent(e))
  BY <1>1, <1>3 DEF Edges, Succs, Silent
<1>5. \A c \in Blocks(g) : e.back[c] \subseteq h.back[c]
  BY <1>1, <1>3
<1>6. BackEdges(e) \subseteq BackEdges(h)
  BY <1>1, <1>3, <1>5 DEF BackEdges
\* where the edge was written, its slot is the one with the flag
<1>7. ASSUME Written(g, e, a, b)
      PROVE  /\ h.back[a] = g.back[a] \union {Len(g.succs[a]) + 1}
             /\ Len(h.succs[a]) = Len(g.succs[a]) + 1 /\ h.succs[a][Len(g.succs[a]) + 1] = b
             /\ Len(g.succs[a]) \in Nat
  <2>1. Len(g.succs[a]) \in Nat /\ Len(g.succs[a]) < MaxSuccs
    BY <1>7, SuccsOf DEF Written, EdgeFits
  <2>2. NextSlot(g, a) = {Len(g.succs[a]) + 1}
    BY <2>1, LimitsAssumption DEF NextSlot
  <2>3. g.succs[a] \in Seq(Blocks(g)) /\ h.succs[a] = Append(g.succs[a], b)
    BY <1>3, <1>7, SuccsOf DEF Written
  <2>4. Len(h.succs[a]) = Len(g.succs[a]) + 1 /\ h.succs[a][Len(g.succs[a]) + 1] = b
    BY <2>3, AppendedTo
  <2> QED
    BY <1>3, <2>1, <2>2, <2>4
<1>8. Written(g, e, a, b) => <<a, b>> \in BackEdges(h)
  <2> SUFFICES ASSUME Written(g, e, a, b) PROVE <<a, b>> \in BackEdges(h)
    OBVIOUS
  <2> DEFINE i == Len(g.succs[a]) + 1
  <2>1. i \in h.back[a] /\ i \in 1 .. Len(h.succs[a]) /\ h.succs[a][i] = b
    BY <1>7
  <2> HIDE DEF i
  <2> QED
    BY <1>3, <2>1 DEF BackEdges
<1>9. ASSUME NEW r, Ranked(g, r)
      PROVE  Ranked(h, r)
  <2>1. CASE Written(g, e, a, b)
    BY <1>2, <1>4, <1>6, <1>8, <1>9, <2>1 DEF Ranked
  <2>2. CASE Lost(g, e)
    <3>1. Edges(e) = Edges(g)
      BY <1>1, <2>2 DEF Lost, Edges, Succs
    <3> QED
      BY <1>2, <1>4, <1>6, <1>9, <3>1 DEF Ranked
  <2> QED
    BY <1>1, <2>1, <2>2
<1>10. ASSUME Silent(h), Flags(g)
       PROVE  Flags(h) /\ BackEdges(h) = BackEdges(g) \union {<<a, b>>}
  <2>1. Written(g, e, a, b) /\ Flags(e) /\ BackEdges(e) = BackEdges(g)
    BY <1>1, <1>2, <1>4, <1>10 DEF Lost
  <2>2. \A c \in Blocks(g) \ {a} : h.back[c] = g.back[c]
    BY <1>3
  <2>3. h.back[a] = g.back[a] \union {Len(g.succs[a]) + 1} /\ Len(g.succs[a]) \in Nat
        /\ Len(h.succs[a]) = Len(g.succs[a]) + 1 /\ h.succs[a][Len(g.succs[a]) + 1] = b
    BY <1>7, <2>1
  <2>4. Flags(h)
    <3>1. \A c \in Blocks(g) : \A i \in g.back[c] : i <= Len(h.succs[c])
      BY <1>1, <1>3, <2>1 DEF Flags
    <3> QED
      BY <1>3, <2>2, <2>3, <3>1 DEF Flags
  <2>5. BackEdges(h) \subseteq BackEdges(e) \union {<<a, b>>}
    <3> SUFFICES ASSUME NEW x \in BackEdges(h), x # <<a, b>> PROVE x \in BackEdges(e)
      OBVIOUS
    <3>1. x \in Blocks(g) \X Blocks(g)
      BY <1>3 DEF BackEdges
    <3>2. PICK i \in h.back[x[1]] : i \in 1 .. Len(h.succs[x[1]]) /\ h.succs[x[1]][i] = x[2]
      BY DEF BackEdges
    <3>3. i \in g.back[x[1]]
      BY <2>2, <2>3, <3>1, <3>2
    <3> QED
      BY <1>1, <1>3, <3>1, <3>2, <3>3, EdgeSlots
  <2> QED
    BY <1>6, <1>8, <2>1, <2>4, <2>5
<1> QED
  BY <1>2, <1>4, <1>9, <1>10

\* add_back_edge does to the lists what add_edge does.
LEMMA AddBackEdgeShape ==
  ASSUME NEW g, GraphOK(g), Shape(g), NEW a \in Blocks(g), NEW b \in Blocks(g),
         b \notin Succs(g, a), Len(g.succs[a]) < Limit(g.kind[a]),
         NEW h, h = AddBackEdge(g, a, b)
  PROVE  /\ GraphOK(h) /\ h.n = g.n /\ Blocks(h) = Blocks(g) /\ h.kind = g.kind
         /\ Shape(h) /\ \A c \in Blocks(g) \ {a} : h.succs[c] = g.succs[c]
<1> DEFINE e == AddEdge(g, a, b)
<1>1. GraphOK(h) /\ h.n = g.n /\ Blocks(h) = Blocks(g) /\ GraphRec(g)
  BY AddBackEdgeOK DEF GraphOK
<1>2. e = AddEdge(g, a, b)
  OBVIOUS
<1>3. Shape(e) /\ \A c \in Blocks(g) \ {a} : e.succs[c] = g.succs[c]
  BY AddEdgeShape
<1>4. Blocks(e) = Blocks(g) /\ e.kind = g.kind
  BY AddEdgeLists
<1> HIDE DEF e
<1>5. /\ h.kind = g.kind /\ h.succs = e.succs /\ h.preds = e.preds
      /\ h.back = [c \in Blocks(g) |-> IF c = a THEN g.back[c] \union NextSlot(g, c)
                                               ELSE g.back[c]]
  <2>1. GraphRec(g)
    BY <1>1
  <2> QED
    BY <2>1, <1>2, AddBackEdgeFields
<1>6. \A c : Succs(h, c) = Succs(e, c) /\ Preds(h, c) = Preds(e, c)
  BY <1>5 DEF Succs, Preds
<1>7. Shape(h)
  BY <1>1, <1>3, <1>4, <1>5, <1>6 DEF Shape
<1> QED
  BY <1>1, <1>3, <1>5, <1>7

\* new_block adds a block without edges.
LEMMA NewBlockGraph ==
  ASSUME NEW g, GraphOK(g), g.n < MaxBlocks, NEW k \in Kinds, NEW d \in Nat,
         NEW h, h = NewBlock(g, k, d)
  PROVE  /\ Shape(g) => Shape(h)
         /\ Edges(h) = Edges(g) /\ BackEdges(h) = BackEdges(g)
         /\ Silent(h) <=> Silent(g)
         /\ Flags(g) => Flags(h)
         /\ \A r : Ranked(g, r) => Ranked(h, r)
<1>1. /\ GraphOK(h) /\ h.stderr = g.stderr
      /\ Blocks(h) = Blocks(g) \union {g.n}
      /\ \A b \in Blocks(g) : /\ h.kind[b] = g.kind[b] /\ h.succs[b] = g.succs[b]
                              /\ h.preds[b] = g.preds[b] /\ h.back[b] = g.back[b]
      /\ h.succs[g.n] = <<>> /\ h.preds[g.n] = <<>> /\ h.back[g.n] = {}
  <2>1. GraphOK(h) /\ h.stderr = g.stderr /\ Blocks(h) = Blocks(g) \union {g.n}
    BY NewBlockOK
  <2>2. \A b \in Blocks(g) : /\ h.kind[b] = g.kind[b] /\ h.succs[b] = g.succs[b]
                             /\ h.preds[b] = g.preds[b] /\ h.back[b] = g.back[b]
    BY NewBlockOK
  <2>3. h.succs[g.n] = <<>> /\ h.preds[g.n] = <<>> /\ h.back[g.n] = {}
    <3>1. /\ h.succs = Extend(g.succs, g.n, <<>>) /\ h.preds = Extend(g.preds, g.n, <<>>)
          /\ h.back = Extend(g.back, g.n, {})
      BY NewBlockFields
    <3> QED
      BY <3>1, BlocksOf DEF Extend
  <2> QED
    BY <2>1, <2>2, <2>3
<1>2. g.n \notin Blocks(g)
  BY BlocksOf
<1>3. Succs(h, g.n) = {} /\ Preds(h, g.n) = {}
  BY <1>1 DEF Succs, Preds
<1>4. \A b \in Blocks(g) : /\ Succs(h, b) = Succs(g, b) /\ Succs(g, b) \subseteq Blocks(g)
                           /\ Preds(h, b) = Preds(g, b) /\ Preds(g, b) \subseteq Blocks(g)
  <2>1. ASSUME NEW b \in Blocks(g)
        PROVE  /\ Succs(h, b) = Succs(g, b) /\ Succs(g, b) \subseteq Blocks(g)
               /\ Preds(h, b) = Preds(g, b) /\ Preds(g, b) \subseteq Blocks(g)
    BY <1>1, SuccsOf DEF Succs, Preds
  <2> QED
    BY <2>1
<1>5. Edges(h) = Edges(g)
  BY <1>1, <1>2, <1>3, <1>4 DEF Edges
<1>6. BackEdges(h) = BackEdges(g)
  <2>1. ASSUME NEW e \in Blocks(h) \X Blocks(h)
        PROVE  e \in BackEdges(h) <=> e \in BackEdges(g)
    <3>1. CASE e[1] = g.n
      <4>1. e \notin Blocks(g) \X Blocks(g)
        BY <1>2, <3>1
      <4> QED
        BY <1>1, <3>1, <4>1, EdgeSlots DEF BackEdges
    <3>2. CASE e[1] # g.n
      <4>1. e[1] \in Blocks(g)
        BY <1>1, <3>2
      <4>2. h.back[e[1]] = g.back[e[1]] /\ h.succs[e[1]] = g.succs[e[1]]
        BY <1>1, <4>1
      <4>3. e \in BackEdges(h) => e[2] \in Succs(g, e[1])
        BY <4>2 DEF BackEdges, Succs
      <4>4. e \in BackEdges(h) => e \in Blocks(g) \X Blocks(g)
        BY <1>4, <4>1, <4>3
      <4> QED
        BY <4>2, <4>4 DEF BackEdges
    <3> QED
      BY <3>1, <3>2
  <2>2. BackEdges(h) \subseteq Blocks(h) \X Blocks(h) /\ BackEdges(g) \subseteq Blocks(h) \X Blocks(h)
    BY <1>1 DEF BackEdges
  <2> QED
    BY <2>1, <2>2
<1>7. Shape(g) => Shape(h)
  <2> SUFFICES ASSUME Shape(g) PROVE Shape(h)
    OBVIOUS
  <2>1. \A a, b \in Blocks(h) : b \in Succs(h, a) <=> a \in Preds(h, b)
    BY <1>1, <1>2, <1>3, <1>4 DEF Shape
  <2>2. Apart(h.succs[g.n]) /\ Len(h.succs[g.n]) <= Limit(h.kind[g.n])
    BY <1>1 DEF Apart, Limit
  <2>3. \A b \in Blocks(g) : Apart(h.succs[b]) /\ Len(h.succs[b]) <= Limit(h.kind[b])
    BY <1>1 DEF Shape
  <2> QED
    BY <1>1, <2>1, <2>2, <2>3 DEF Shape
<1>8. Flags(g) => Flags(h)
  BY <1>1 DEF Flags
<1> QED
  BY <1>1, <1>5, <1>6, <1>7, <1>8 DEF Silent, Ranked

\* block_add_stmt is no matter of the edges.
LEMMA AddStmtGraph ==
  ASSUME NEW g, GraphOK(g), NEW b \in Blocks(g), NEW h, h = AddStmt(g, b)
  PROVE  /\ GraphOK(h) /\ h.n = g.n /\ Blocks(h) = Blocks(g)
         /\ h.kind = g.kind /\ h.succs = g.succs
         /\ Shape(g) => Shape(h)
         /\ Edges(h) = Edges(g) /\ BackEdges(h) = BackEdges(g)
         /\ Silent(h) => Silent(g)
         /\ Flags(g) => Flags(h)
         /\ \A r : Ranked(g, r) => Ranked(h, r)
<1>1. GraphOK(h) /\ h.n = g.n /\ Blocks(h) = Blocks(g) /\ GraphRec(g)
  BY AddStmtOK DEF GraphOK
<1>2. h.kind = g.kind /\ h.back = g.back /\ h.succs = g.succs /\ h.preds = g.preds
  BY <1>1, AddStmtFields, ZenonT(90)
<1>3. Silent(h) => Silent(g)
  BY <1>1, QuietAddStmt
<1>4. Edges(h) = Edges(g) /\ BackEdges(h) = BackEdges(g)
  BY <1>1, <1>2 DEF Edges, BackEdges, Succs
<1>5. Shape(g) => Shape(h)
  BY <1>1, <1>2 DEF Shape, Succs, Preds
<1> QED
  BY <1>1, <1>2, <1>3, <1>4, <1>5 DEF Flags, Ranked

(***************************************************************************)
(* What an operation does to the graph.  Adds(g, h, e, f): h keeps the     *)
(* shape, the blocks and the order of g, and has, unless a limit was       *)
(* reported, the edges e more, and those of f with the flag.               *)
(***************************************************************************)
Along(r, e) == \A x \in e : r[x[1]] < r[x[2]]

Adds(g, h, e, f) ==
  /\ GraphOK(h) /\ Shape(h)
  /\ Blocks(g) \subseteq Blocks(h)
  /\ \A b \in Blocks(g) : h.kind[b] = g.kind[b]
  /\ \A b \in Blocks(g) : (\A x \in e \union f : x[1] # b) => h.succs[b] = g.succs[b]
  /\ Silent(h) => Silent(g) /\ Edges(h) = Edges(g) \union e \union f
  /\ Silent(h) /\ Flags(g) => Flags(h) /\ BackEdges(h) = BackEdges(g) \union f
  /\ \A r : Ranked(g, r) /\ Along(r, e) => Ranked(h, r)

\* What two operations add together.
LEMMA AddsBoth ==
  ASSUME NEW g, NEW h, NEW k, NEW e, NEW f, NEW x, NEW y,
         Adds(g, h, e, f), Adds(h, k, x, y)
  PROVE  \A u, v : u = e \union x /\ v = f \union y => Adds(g, k, u, v)
<1> DEFINE u == e \union x
           v == f \union y
<1>1. /\ GraphOK(k) /\ Shape(k) /\ Blocks(g) \subseteq Blocks(k)
      /\ \A b \in Blocks(g) : k.kind[b] = g.kind[b]
  BY DEF Adds
<1>2. \A b \in Blocks(g) : (\A z \in u \union v : z[1] # b) => k.succs[b] = g.succs[b]
  <2> SUFFICES ASSUME NEW b \in Blocks(g), \A z \in u \union v : z[1] # b
               PROVE  k.succs[b] = g.succs[b]
    OBVIOUS
  <2>1. h.succs[b] = g.succs[b] /\ b \in Blocks(h)
    BY DEF Adds
  <2>2. k.succs[b] = h.succs[b]
    BY <2>1 DEF Adds
  <2> QED
    BY <2>1, <2>2
<1>3. Silent(k) => Silent(h) /\ Silent(g) /\ Edges(k) = Edges(g) \union u \union v
  BY DEF Adds
<1>4. Silent(k) /\ Flags(g) => Flags(k) /\ BackEdges(k) = BackEdges(g) \union v
  BY <1>3 DEF Adds
<1>5. \A r : Ranked(g, r) /\ Along(r, u) => Ranked(k, r)
  <2>1. \A r : Along(r, u) => Along(r, e) /\ Along(r, x)
    BY DEF Along
  <2> QED
    BY <2>1 DEF Adds
<1> HIDE DEF u, v
<1>6. Adds(g, k, u, v)
  BY <1>1, <1>2, <1>3, <1>4, <1>5 DEF Adds
<1> QED
  BY <1>6 DEF u, v

\* what new_block, add_edge and add_back_edge have done
BlockAdded(g, h, k) ==
  /\ Adds(g, h, {}, {}) /\ h.n = g.n + 1
  /\ Blocks(h) = Blocks(g) \union {g.n} /\ g.n \notin Blocks(g)
  /\ h.kind[g.n] = k /\ h.succs[g.n] = <<>>

EdgeAdded(g, h, a, b) ==
  /\ Adds(g, h, {<<a, b>>}, {}) /\ h.n = g.n /\ Blocks(h) = Blocks(g) /\ h.kind = g.kind
  /\ Succs(h, a) \subseteq Succs(g, a) \union {b}
  /\ Len(h.succs[a]) <= Len(g.succs[a]) + 1
  /\ \A c \in Blocks(g) \ {a} : h.succs[c] = g.succs[c]

BackEdgeAdded(g, h, a, b) ==
  /\ Adds(g, h, {}, {<<a, b>>}) /\ h.n = g.n /\ Blocks(h) = Blocks(g) /\ h.kind = g.kind
  /\ \A c \in Blocks(g) \ {a} : h.succs[c] = g.succs[c]

\* new_block
LEMMA NewBlockAdds ==
  ASSUME NEW g, GraphOK(g), Shape(g), g.n < MaxBlocks, NEW k \in Kinds, NEW d \in Nat,
         NEW h, h = NewBlock(g, k, d)
  PROVE  BlockAdded(g, h, k)
<1>1. /\ GraphOK(h) /\ h.n = g.n + 1 /\ h.stderr = g.stderr
      /\ Blocks(h) = Blocks(g) \union {g.n}
  BY NewBlockOK
<1>2. \A b \in Blocks(g) : /\ h.kind[b] = g.kind[b] /\ h.succs[b] = g.succs[b]
                           /\ h.preds[b] = g.preds[b] /\ h.back[b] = g.back[b]
  BY NewBlockOK
<1>3. h.kind[g.n] = k /\ h.succs[g.n] = <<>>
  <2>1. h.kind = Extend(g.kind, g.n, k) /\ h.succs = Extend(g.succs, g.n, <<>>)
    BY NewBlockFields
  <2> QED
    BY <2>1, BlocksOf DEF Extend
<1>4. g.n \notin Blocks(g)
  BY BlocksOf
<1>5. Shape(h) /\ Edges(h) = Edges(g) /\ BackEdges(h) = BackEdges(g)
      /\ (Silent(h) <=> Silent(g)) /\ (Flags(g) => Flags(h))
      /\ \A r : Ranked(g, r) => Ranked(h, r)
  BY NewBlockGraph
<1>6. Adds(g, h, {}, {})
  BY <1>1, <1>2, <1>5 DEF Adds
<1> QED
  BY <1>1, <1>2, <1>3, <1>4, <1>5, <1>6 DEF BlockAdded

\* add_edge, for an edge that is not there yet
LEMMA AddEdgeAdds ==
  ASSUME NEW g, GraphOK(g), Shape(g), NEW a \in Blocks(g), NEW b \in Blocks(g),
         b \notin Succs(g, a), Len(g.succs[a]) < Limit(g.kind[a]),
         NEW h, h = AddEdge(g, a, b)
  PROVE  EdgeAdded(g, h, a, b)
<1>1. GraphOK(h) /\ h.n = g.n /\ Blocks(h) = Blocks(g) /\ h.kind = g.kind
  BY AddEdgeLists
<1>2. /\ Shape(h) /\ Len(h.succs[a]) <= Len(g.succs[a]) + 1
      /\ Succs(h, a) \subseteq Succs(g, a) \union {b}
      /\ \A c \in Blocks(g) \ {a} : h.succs[c] = g.succs[c]
  BY AddEdgeShape
<1>3. /\ Silent(h) => Silent(g) /\ Edges(h) = Edges(g) \union {<<a, b>>}
      /\ Silent(h) /\ Flags(g) => Flags(h) /\ BackEdges(h) = BackEdges(g)
  BY AddEdgeFlow
<1>4. \A r : Ranked(g, r) /\ Along(r, {<<a, b>>}) => Ranked(h, r)
  BY AddEdgeRanked DEF Along
<1> DEFINE e == {<<a, b>>}
<1>5. \A c \in Blocks(g) : (\A x \in e \union {} : x[1] # c) => h.succs[c] = g.succs[c]
  BY <1>2
<1>6. /\ Silent(h) => Silent(g) /\ Edges(h) = Edges(g) \union e \union {}
      /\ Silent(h) /\ Flags(g) => Flags(h) /\ BackEdges(h) = BackEdges(g) \union {}
      /\ \A r : Ranked(g, r) /\ Along(r, e) => Ranked(h, r)
  BY <1>3, <1>4
<1> HIDE DEF e
<1>7. Adds(g, h, e, {})
  BY <1>1, <1>2, <1>5, <1>6 DEF Adds
<1>8. Adds(g, h, {<<a, b>>}, {})
  BY <1>7 DEF e
<1> QED
  BY <1>1, <1>2, <1>8 DEF EdgeAdded

\* add_edge from a block that has no successor yet and may have one
LEMMA FirstEdgeAdds ==
  ASSUME NEW g, GraphOK(g), Shape(g), NEW a \in Blocks(g), NEW b \in Blocks(g),
         g.succs[a] = <<>>, g.kind[a] # "RETURN", NEW h, h = AddEdge(g, a, b)
  PROVE  EdgeAdded(g, h, a, b) /\ Len(h.succs[a]) <= 1 /\ Succs(h, a) \subseteq {b}
<1>1. Succs(g, a) = {} /\ Len(g.succs[a]) = 0
  BY DEF Succs
<1>2. Len(g.succs[a]) < Limit(g.kind[a])
  BY <1>1 DEF Limit
<1>3. EdgeAdded(g, h, a, b)
  BY <1>1, <1>2, AddEdgeAdds
<1> QED
  BY <1>1, <1>3 DEF EdgeAdded

\* add_back_edge from such a block
LEMMA FirstBackEdgeAdds ==
  ASSUME NEW g, GraphOK(g), Shape(g), NEW a \in Blocks(g), NEW b \in Blocks(g),
         g.succs[a] = <<>>, g.kind[a] # "RETURN", NEW h, h = AddBackEdge(g, a, b)
  PROVE  BackEdgeAdded(g, h, a, b)
<1>1. b \notin Succs(g, a) /\ Len(g.succs[a]) = 0
  BY DEF Succs
<1>2. Len(g.succs[a]) < Limit(g.kind[a])
  BY <1>1 DEF Limit
<1>3. /\ GraphOK(h) /\ h.n = g.n /\ Blocks(h) = Blocks(g) /\ h.kind = g.kind
      /\ Shape(h) /\ \A c \in Blocks(g) \ {a} : h.succs[c] = g.succs[c]
  BY <1>1, <1>2, AddBackEdgeShape
<1>4. /\ Silent(h) => Silent(g) /\ Edges(h) = Edges(g) \union {<<a, b>>}
      /\ Silent(h) /\ Flags(g) => Flags(h) /\ BackEdges(h) = BackEdges(g) \union {<<a, b>>}
      /\ \A r : Ranked(g, r) => Ranked(h, r)
  BY AddBackEdgeFlow
<1> QED
  BY <1>3, <1>4 DEF Adds, BackEdgeAdded

\* block_add_stmt
LEMMA AddStmtAdds ==
  ASSUME NEW g, GraphOK(g), Shape(g), NEW b \in Blocks(g), NEW h, h = AddStmt(g, b)
  PROVE  /\ Adds(g, h, {}, {}) /\ h.n = g.n /\ Blocks(h) = Blocks(g)
         /\ h.kind = g.kind /\ h.succs = g.succs
<1>1. /\ GraphOK(h) /\ h.n = g.n /\ Blocks(h) = Blocks(g)
      /\ h.kind = g.kind /\ h.succs = g.succs
      /\ Shape(g) => Shape(h)
      /\ Edges(h) = Edges(g) /\ BackEdges(h) = BackEdges(g)
      /\ Silent(h) => Silent(g)
      /\ Flags(g) => Flags(h)
      /\ \A r : Ranked(g, r) => Ranked(h, r)
  BY AddStmtGraph
<1> QED
  BY <1>1 DEF Adds

\* a graph that stays adds nothing
LEMMA AddsNothing ==
  ASSUME NEW g, GraphOK(g), Shape(g)
  PROVE  Adds(g, g, {}, {})
BY DEF Adds

\* a message adds nothing
LEMMA ReportAdds ==
  ASSUME NEW g, GraphOK(g), Shape(g), NEW m \in Messages, NEW h, h = Report(g, m)
  PROVE  /\ Adds(g, h, {}, {}) /\ h.n = g.n /\ Blocks(h) = Blocks(g)
         /\ h.kind = g.kind /\ h.succs = g.succs /\ ~Silent(h)
<1>1. GraphOK(h) /\ h.n = g.n /\ Blocks(h) = Blocks(g)
  BY ReportOK
<1>2. /\ h.kind = g.kind /\ h.succs = g.succs /\ h.preds = g.preds /\ h.back = g.back
      /\ h.stderr = g.stderr \union {m}
  BY ReportFields DEF GraphOK
<1>3. ~Silent(h)
  BY <1>2 DEF Silent
<1>4. Edges(h) = Edges(g) /\ BackEdges(h) = BackEdges(g)
  BY <1>1, <1>2 DEF Edges, BackEdges, Succs
<1>5. Shape(h)
  BY <1>1, <1>2 DEF Shape, Succs, Preds
<1>6. \A r : Ranked(g, r) => Ranked(h, r)
  BY <1>4 DEF Ranked
<1> QED
  BY <1>1, <1>2, <1>3, <1>5, <1>6 DEF Adds

\* The block that control is in has no successor yet and may have one; so does every
\* block that an open statement is to be left to, and a condition misses its second one.
Fresh(g, b) == g.succs[b] = <<>> /\ g.kind[b] # "RETURN"

Unjoined ==
  /\ current # NoBlock => Fresh(cfg, current)
  /\ \A i \in 1 .. Len(frames) :
       /\ Fresh(cfg, frames[i].join)
       /\ frames[i].k = "true" =>
            Len(cfg.succs[frames[i].at]) <= 1 /\ cfg.kind[frames[i].at] = "IF"

\* Blocks are made on the way in: the ones that an inner statement made are later than
\* those of the statements around it, and so is the block that control is in.
Ordered ==
  /\ \A i \in 1 .. Len(frames) : frames[i].join = frames[i].at + 1
  /\ \A i, j \in 1 .. Len(frames) : i < j => frames[i].join < frames[j].at
  /\ current # NoBlock => \A i \in 1 .. Len(frames) : frames[i].join < current

GraphInd == TypeOK /\ Shape(cfg) /\ Unjoined /\ Ordered

\* What the types say of the blocks, and what is on top of the stacks.
LEMMA Typed ==
  ASSUME TypeOK
  PROVE  /\ GraphOK(cfg) /\ cfg.n \in Nat /\ Blocks(cfg) = 0 .. cfg.n - 1
         /\ cfg.n \notin Blocks(cfg) /\ MaxBlocks \in Nat
         /\ Nest \in Nat /\ Depth \in Nat /\ Len(frames) \in Nat
         /\ current # NoBlock => current \in Blocks(cfg)
         /\ \A i \in 1 .. Len(frames) : frames[i].at \in Blocks(cfg) /\ frames[i].join \in Blocks(cfg)
         /\ frames # <<>> => /\ Len(frames) \in 1 .. Len(frames) /\ Top(frames) = frames[Len(frames)]
                             /\ Top(frames).at \in Blocks(cfg) /\ Top(frames).join \in Blocks(cfg)
         /\ loops # <<>> => Top(loops).header \in Blocks(cfg) /\ Top(loops).exit \in Blocks(cfg)
<1>1. /\ GraphOK(cfg) /\ cfg.n \in Nat /\ Blocks(cfg) = 0 .. cfg.n - 1 /\ MaxBlocks \in Nat
      /\ Nest \in Nat /\ Depth \in Nat
      /\ current \in Blocks(cfg) \union {NoBlock}
      /\ frames \in Seq(Frame(cfg)) /\ loops \in Seq(Loop(cfg))
  BY BlocksOf, NestType, LimitsAssumption DEF TypeOK
<1>2. Len(frames) \in Nat /\ \A i \in 1 .. Len(frames) : frames[i] \in Frame(cfg)
  BY <1>1
<1>3. \A i \in 1 .. Len(frames) : frames[i].at \in Blocks(cfg) /\ frames[i].join \in Blocks(cfg)
  BY <1>2 DEF Frame
<1>4. frames # <<>> => Len(frames) \in 1 .. Len(frames)
  BY <1>1
<1>5. loops # <<>> => Top(loops).header \in Blocks(cfg) /\ Top(loops).exit \in Blocks(cfg)
  <2>1. loops # <<>> => Top(loops) \in Loop(cfg)
    BY <1>1, PopType
  <2> QED
    BY <2>1 DEF Loop
<1> QED
  BY <1>1, <1>2, <1>3, <1>4, <1>5 DEF Top

\* Return
LEMMA ReturnAdds ==
  ASSUME GraphInd, Return
  PROVE  /\ Adds(cfg, cfg', {<<current, cfg.n>>}, {}) /\ cfg'.n = cfg.n + 1
         /\ Blocks(cfg') = Blocks(cfg) \union {cfg.n} /\ cfg'.kind[cfg.n] = "RETURN"
<1> DEFINE n == cfg.n
           g1 == NewBlock(cfg, "RETURN", Depth)
           g2 == AddStmt(g1, n)
<1>1. cfg' = AddEdge(g2, current, n) /\ n + 1 <= MaxBlocks /\ current # NoBlock
  BY DEF Return, Live, Room
<1>2. /\ GraphOK(cfg) /\ Shape(cfg) /\ n \in Nat /\ Depth \in Nat /\ "RETURN" \in Kinds
      /\ current \in Blocks(cfg) /\ Fresh(cfg, current) /\ n < MaxBlocks
  BY <1>1, Typed DEF GraphInd, Unjoined, Kinds
<1>3. BlockAdded(cfg, g1, "RETURN")
  BY <1>2, NewBlockAdds
<1> HIDE DEF g1
<1>4. /\ Adds(cfg, g1, {}, {}) /\ GraphOK(g1) /\ Shape(g1)
      /\ Blocks(g1) = Blocks(cfg) \union {n} /\ g1.n = n + 1 /\ g1.kind[n] = "RETURN"
      /\ g1.succs[current] = <<>> /\ g1.kind[current] # "RETURN"
  BY <1>2, <1>3 DEF Adds, BlockAdded, Fresh
<1>5. /\ Adds(g1, g2, {}, {}) /\ g2.n = g1.n /\ Blocks(g2) = Blocks(g1)
      /\ g2.kind = g1.kind /\ g2.succs = g1.succs
  BY <1>4, AddStmtAdds
<1>6. GraphOK(g2) /\ Shape(g2)
  BY <1>5 DEF Adds
<1> HIDE DEF g2
<1>7. EdgeAdded(g2, cfg', current, n)
  BY <1>1, <1>2, <1>4, <1>5, <1>6, FirstEdgeAdds
<1>8. Adds(g2, cfg', {<<current, n>>}, {}) /\ cfg'.n = g2.n /\ Blocks(cfg') = Blocks(g2)
      /\ cfg'.kind = g2.kind
  BY <1>7 DEF EdgeAdded
<1>9. Adds(cfg, g2, {}, {})
  BY <1>4, <1>5, AddsBoth
<1>10. Adds(cfg, cfg', {<<current, n>>}, {})
  BY <1>8, <1>9, AddsBoth
<1> QED
  BY <1>4, <1>5, <1>8, <1>10

\* STMT_IF up to the walk of the true arm
LEMMA IfBeginAdds ==
  ASSUME GraphInd, IfBegin
  PROVE  /\ Adds(cfg, cfg', {<<current, cfg.n>>, <<cfg.n, cfg.n + 2>>}, {})
         /\ cfg'.n = cfg.n + 3 /\ Blocks(cfg') = Blocks(cfg) \union {cfg.n, cfg.n + 1, cfg.n + 2}
         /\ cfg'.kind[cfg.n] = "IF" /\ cfg'.kind[cfg.n + 1] = "MERGE"
         /\ cfg'.kind[cfg.n + 2] = "IF_TRUE"
         /\ Len(cfg'.succs[cfg.n]) <= 1
         /\ cfg'.succs[cfg.n + 1] = <<>> /\ cfg'.succs[cfg.n + 2] = <<>>
<1> DEFINE n == cfg.n
           c == current
           g1 == NewBlock(cfg, "IF", Depth)
           g2 == AddEdge(g1, c, n)
           g3 == NewBlock(g2, "MERGE", Depth)
           g4 == NewBlock(g3, "IF_TRUE", Depth)
<1>1. cfg' = AddEdge(g4, n, n + 2) /\ n + 3 <= MaxBlocks /\ c # NoBlock
  BY DEF IfBegin, Live, Room
<1>2. /\ GraphOK(cfg) /\ Shape(cfg) /\ n \in Nat /\ Depth \in Nat /\ MaxBlocks \in Nat
      /\ "IF" \in Kinds /\ "MERGE" \in Kinds /\ "IF_TRUE" \in Kinds
      /\ c \in Blocks(cfg) /\ Fresh(cfg, c) /\ n \notin Blocks(cfg) /\ n = cfg.n
      /\ n < MaxBlocks /\ n + 1 < MaxBlocks /\ n + 2 < MaxBlocks
  BY <1>1, Typed DEF GraphInd, Unjoined, Kinds
<1> HIDE DEF n, c
<1>3. BlockAdded(cfg, g1, "IF")
  BY <1>1, <1>2, NewBlockAdds
<1> HIDE DEF g1
<1>4. /\ Adds(cfg, g1, {}, {}) /\ GraphOK(g1) /\ Shape(g1)
      /\ Blocks(g1) = Blocks(cfg) \union {n} /\ g1.n = n + 1
      /\ g1.kind[n] = "IF" /\ g1.succs[n] = <<>>
      /\ g1.succs[c] = <<>> /\ g1.kind[c] # "RETURN"
  BY <1>2, <1>3 DEF Adds, BlockAdded, Fresh
<1>5. EdgeAdded(g1, g2, c, n)
  <2>1. c \in Blocks(g1) /\ n \in Blocks(g1)
    BY <1>2, <1>4
  <2> QED
    BY <1>4, <2>1, FirstEdgeAdds
<1> HIDE DEF g2
<1>6. /\ Adds(g1, g2, {<<c, n>>}, {}) /\ GraphOK(g2) /\ Shape(g2)
      /\ Blocks(g2) = Blocks(g1) /\ g2.n = n + 1
      /\ g2.kind[n] = "IF" /\ g2.succs[n] = <<>>
  BY <1>2, <1>4, <1>5 DEF Adds, EdgeAdded
<1>7. BlockAdded(g2, g3, "MERGE")
  BY <1>1, <1>2, <1>6, NewBlockAdds
<1> HIDE DEF g3
<1>8. /\ Adds(g2, g3, {}, {}) /\ GraphOK(g3) /\ Shape(g3)
      /\ Blocks(g3) = Blocks(g2) \union {n + 1} /\ g3.n = n + 2
      /\ g3.kind[n] = "IF" /\ g3.succs[n] = <<>>
      /\ g3.kind[n + 1] = "MERGE" /\ g3.succs[n + 1] = <<>>
  BY <1>2, <1>4, <1>6, <1>7 DEF Adds, BlockAdded
<1>9. BlockAdded(g3, g4, "IF_TRUE")
  BY <1>1, <1>2, <1>8, NewBlockAdds
<1> HIDE DEF g4
<1>10. /\ Adds(g3, g4, {}, {}) /\ GraphOK(g4) /\ Shape(g4)
       /\ Blocks(g4) = Blocks(g3) \union {n + 2} /\ g4.n = n + 3
       /\ g4.kind[n] = "IF" /\ g4.succs[n] = <<>>
       /\ g4.kind[n + 1] = "MERGE" /\ g4.succs[n + 1] = <<>>
       /\ g4.kind[n + 2] = "IF_TRUE" /\ g4.succs[n + 2] = <<>>
  BY <1>2, <1>4, <1>6, <1>8, <1>9 DEF Adds, BlockAdded
<1>11. n \in Blocks(g4) /\ n + 1 \in Blocks(g4) /\ n + 2 \in Blocks(g4)
  BY <1>4, <1>6, <1>8, <1>10
<1>12. EdgeAdded(g4, cfg', n, n + 2) /\ Len(cfg'.succs[n]) <= 1
  BY <1>1, <1>10, <1>11, FirstEdgeAdds
<1>13. /\ Adds(g4, cfg', {<<n, n + 2>>}, {}) /\ cfg'.n = n + 3 /\ Blocks(cfg') = Blocks(g4)
       /\ cfg'.kind = g4.kind
  BY <1>10, <1>12 DEF EdgeAdded
<1>14. cfg'.succs[n + 1] = <<>> /\ cfg'.succs[n + 2] = <<>>
  BY <1>2, <1>10, <1>11, <1>13 DEF Adds
<1>15. Adds(cfg, g2, {<<c, n>>}, {})
  BY <1>4, <1>6, AddsBoth
<1>16. Adds(cfg, g3, {<<c, n>>}, {})
  BY <1>8, <1>15, AddsBoth
<1>17. Adds(cfg, g4, {<<c, n>>}, {})
  BY <1>10, <1>16, AddsBoth
<1>18. Adds(cfg, cfg', {<<c, n>>, <<n, n + 2>>}, {})
  <2>1. {<<c, n>>, <<n, n + 2>>} = {<<c, n>>} \union {<<n, n + 2>>} /\ {} = {} \union {}
    OBVIOUS
  <2> QED
    BY <1>13, <1>17, <2>1, AddsBoth
<1> QED
  BY <1>4, <1>6, <1>8, <1>10, <1>12, <1>13, <1>14, <1>18 DEF n, c

\* the edge from the block that control is in, if it is in one
To(b) == IF current = NoBlock THEN {} ELSE {<<current, b>>}

\* The end of an arm joins a block that was made for it.
LEMMA JoinAdds ==
  ASSUME GraphInd, NEW b \in Blocks(cfg), NEW h, h = JoinTo(cfg, b)
  PROVE  /\ Adds(cfg, h, To(b), {}) /\ h.n = cfg.n /\ Blocks(h) = Blocks(cfg)
         /\ h.kind = cfg.kind /\ \A c \in Blocks(cfg) : c # current => h.succs[c] = cfg.succs[c]
<1>1. GraphOK(cfg) /\ Shape(cfg)
  BY Typed DEF GraphInd
<1>2. CASE current = NoBlock
  <2>1. h = cfg /\ To(b) = {}
    BY <1>2 DEF JoinTo, To
  <2> QED
    BY <1>1, <2>1, AddsNothing
<1>3. CASE current # NoBlock
  <2>1. /\ h = AddEdge(cfg, current, b) /\ To(b) = {<<current, b>>}
        /\ current \in Blocks(cfg) /\ cfg.succs[current] = <<>> /\ cfg.kind[current] # "RETURN"
    BY <1>3, Typed DEF JoinTo, To, GraphInd, Unjoined, Fresh
  <2>2. EdgeAdded(cfg, h, current, b)
    BY <1>1, <2>1, FirstEdgeAdds
  <2> QED
    BY <2>1, <2>2 DEF EdgeAdded
<1> QED
  BY <1>2, <1>3

\* The end of the true arm, and the second successor of the condition
LEMMA EndTrueAdds ==
  ASSUME GraphInd, EndTrue
  PROVE  /\ \A u : u = To(Top(frames).join) \union {<<Top(frames).at, cfg.n>>}
                     => Adds(cfg, cfg', u, {})
         /\ cfg'.n = cfg.n + 1 /\ Blocks(cfg') = Blocks(cfg) \union {cfg.n}
         /\ cfg'.kind[cfg.n] = "IF_FALSE" /\ cfg'.succs[cfg.n] = <<>>
<1> DEFINE n == cfg.n
           at == Top(frames).at
           join == Top(frames).join
           g1 == JoinTo(cfg, join)
           g2 == NewBlock(g1, "IF_FALSE", Depth)
<1>1. cfg' = AddEdge(g2, at, n) /\ n + 1 <= MaxBlocks /\ frames # <<>> /\ Top(frames).k = "true"
  BY DEF EndTrue, Room
<1>2. /\ n \in Nat /\ Depth \in Nat /\ MaxBlocks \in Nat /\ "IF_FALSE" \in Kinds
      /\ n = cfg.n /\ n < MaxBlocks /\ n \notin Blocks(cfg) /\ GraphOK(cfg)
      /\ at \in Blocks(cfg) /\ join \in Blocks(cfg)
  BY <1>1, Typed DEF GraphInd, Kinds
<1>3. Len(cfg.succs[at]) <= 1 /\ cfg.kind[at] = "IF" /\ at # current
  <2>1. Len(frames) \in 1 .. Len(frames) /\ Top(frames) = frames[Len(frames)]
    BY <1>1, Typed DEF GraphInd
  <2>2. Len(cfg.succs[at]) <= 1 /\ cfg.kind[at] = "IF"
    BY <1>1, <2>1 DEF GraphInd, Unjoined
  <2>3. at # current
    <3>1. join = at + 1 /\ (current # NoBlock => join < current)
      BY <2>1 DEF GraphInd, Ordered
    <3>2. at \in Nat
      BY <1>2, Typed DEF GraphInd
    <3> QED
      BY <3>1, <3>2 DEF NoBlock
  <2> QED
    BY <2>2, <2>3
<1> DEFINE e == To(join)
<1>4. /\ Adds(cfg, g1, e, {}) /\ g1.n = n /\ Blocks(g1) = Blocks(cfg)
      /\ g1.kind = cfg.kind /\ \A c \in Blocks(cfg) : c # current => g1.succs[c] = cfg.succs[c]
  BY <1>2, JoinAdds
<1> HIDE DEF n, at, join, g1, e
<1>5. GraphOK(g1) /\ Shape(g1)
  BY <1>4 DEF Adds
<1>6. BlockAdded(g1, g2, "IF_FALSE")
  BY <1>2, <1>4, <1>5, NewBlockAdds
<1> HIDE DEF g2
<1>7. /\ Adds(g1, g2, {}, {}) /\ GraphOK(g2) /\ Shape(g2) /\ g2.n = n + 1
      /\ Blocks(g2) = Blocks(cfg) \union {n} /\ g2.kind[n] = "IF_FALSE" /\ g2.succs[n] = <<>>
      /\ g2.succs[at] = cfg.succs[at] /\ g2.kind[at] = "IF"
  BY <1>2, <1>3, <1>4, <1>6 DEF Adds, BlockAdded
<1>8. n \notin Succs(g2, at) /\ Len(g2.succs[at]) < Limit(g2.kind[at])
  <2>1. Succs(g2, at) = Succs(cfg, at)
    BY <1>7 DEF Succs
  <2>2. Succs(cfg, at) \subseteq Blocks(cfg) /\ Len(cfg.succs[at]) \in Nat
    BY <1>2, SuccsOf
  <2>3. Limit(g2.kind[at]) = 2
    BY <1>7 DEF Limit
  <2> QED
    BY <1>2, <1>3, <1>7, <2>1, <2>2, <2>3
<1>9. EdgeAdded(g2, cfg', at, n)
  <2>1. at \in Blocks(g2) /\ n \in Blocks(g2)
    BY <1>2, <1>7
  <2> QED
    BY <1>1, <1>7, <1>8, <2>1, AddEdgeAdds
<1>10. /\ Adds(g2, cfg', {<<at, n>>}, {}) /\ cfg'.n = n + 1 /\ Blocks(cfg') = Blocks(g2)
       /\ cfg'.kind = g2.kind /\ cfg'.succs[n] = <<>>
  <2>1. n # at /\ n \in Blocks(g2)
    BY <1>2, <1>7
  <2> QED
    BY <1>7, <1>9, <2>1 DEF EdgeAdded
<1>11. Adds(cfg, g2, e, {})
  BY <1>4, <1>7, AddsBoth
<1>12. \A u : u = e \union {<<at, n>>} => Adds(cfg, cfg', u, {})
  BY <1>10, <1>11, AddsBoth
<1> QED
  BY <1>7, <1>10, <1>12 DEF n, at, join, e

\* The end of the false arm
LEMMA EndFalseAdds ==
  ASSUME GraphInd, EndFalse
  PROVE  /\ Adds(cfg, cfg', To(Top(frames).join), {})
         /\ cfg'.n = cfg.n /\ Blocks(cfg') = Blocks(cfg) /\ cfg'.kind = cfg.kind
         /\ \A c \in Blocks(cfg) : c # current => cfg'.succs[c] = cfg.succs[c]
<1>1. frames # <<>> /\ cfg' = JoinTo(cfg, Top(frames).join)
  BY DEF EndFalse
<1>2. Top(frames).join \in Blocks(cfg)
  BY <1>1, Typed DEF GraphInd
<1> QED
  BY <1>1, <1>2, JoinAdds

\* The end of the body of a loop
LEMMA EndBodyAdds ==
  ASSUME GraphInd, EndBody
  PROVE  /\ Adds(cfg, cfg', {}, To(Top(frames).at))
         /\ cfg'.n = cfg.n /\ Blocks(cfg') = Blocks(cfg) /\ cfg'.kind = cfg.kind
         /\ \A c \in Blocks(cfg) : c # current => cfg'.succs[c] = cfg.succs[c]
<1>1. /\ cfg' = IF current # NoBlock THEN AddBackEdge(cfg, current, Top(frames).at) ELSE cfg
      /\ Top(frames).at \in Blocks(cfg) /\ GraphOK(cfg) /\ Shape(cfg)
  BY Typed DEF EndBody, GraphInd
<1>2. CASE current = NoBlock
  <2>1. cfg' = cfg /\ To(Top(frames).at) = {}
    BY <1>1, <1>2 DEF To
  <2> QED
    BY <1>1, <2>1, AddsNothing
<1>3. CASE current # NoBlock
  <2>1. /\ current \in Blocks(cfg) /\ cfg.succs[current] = <<>> /\ cfg.kind[current] # "RETURN"
        /\ cfg' = AddBackEdge(cfg, current, Top(frames).at)
        /\ To(Top(frames).at) = {<<current, Top(frames).at>>}
    BY <1>1, <1>3, Typed DEF To, GraphInd, Unjoined, Fresh
  <2>2. BackEdgeAdded(cfg, cfg', current, Top(frames).at)
    BY <1>1, <2>1, FirstBackEdgeAdds
  <2> QED
    BY <2>1, <2>2 DEF BackEdgeAdded
<1> QED
  BY <1>2, <1>3

\* STMT_BREAK
LEMMA BreakAdds ==
  ASSUME GraphInd, Break
  PROVE  /\ loops # <<>> => Adds(cfg, cfg', {<<current, Top(loops).exit>>}, {})
         /\ loops = <<>> => Adds(cfg, cfg', {}, {})
         /\ cfg'.n = cfg.n /\ Blocks(cfg') = Blocks(cfg) /\ cfg'.kind = cfg.kind
         /\ \A c \in Blocks(cfg) : c # current => cfg'.succs[c] = cfg.succs[c]
<1>1. /\ GraphOK(cfg) /\ Shape(cfg) /\ current \in Blocks(cfg)
      /\ cfg.succs[current] = <<>> /\ cfg.kind[current] # "RETURN"
  BY Typed DEF GraphInd, Unjoined, Fresh, Break, Live
<1>2. CASE loops = <<>>
  <2>1. cfg' = cfg
    BY <1>2 DEF Break
  <2> QED
    BY <1>1, <1>2, <2>1, AddsNothing
<1>3. CASE loops # <<>>
  <2>1. Top(loops).exit \in Blocks(cfg) /\ cfg' = AddEdge(cfg, current, Top(loops).exit)
    BY <1>3, Typed DEF GraphInd, Break
  <2>2. EdgeAdded(cfg, cfg', current, Top(loops).exit)
    BY <1>1, <2>1, FirstEdgeAdds
  <2> QED
    BY <1>3, <2>2 DEF EdgeAdded
<1> QED
  BY <1>2, <1>3

\* STMT_CONTINUE
LEMMA ContinueAdds ==
  ASSUME GraphInd, Continue
  PROVE  /\ loops # <<>> => Adds(cfg, cfg', {}, {<<current, Top(loops).header>>})
         /\ loops = <<>> => Adds(cfg, cfg', {}, {})
         /\ cfg'.n = cfg.n /\ Blocks(cfg') = Blocks(cfg) /\ cfg'.kind = cfg.kind
         /\ \A c \in Blocks(cfg) : c # current => cfg'.succs[c] = cfg.succs[c]
<1>1. /\ GraphOK(cfg) /\ Shape(cfg) /\ current \in Blocks(cfg)
      /\ cfg.succs[current] = <<>> /\ cfg.kind[current] # "RETURN"
  BY Typed DEF GraphInd, Unjoined, Fresh, Continue, Live
<1>2. CASE loops = <<>>
  <2>1. cfg' = cfg
    BY <1>2 DEF Continue
  <2> QED
    BY <1>1, <1>2, <2>1, AddsNothing
<1>3. CASE loops # <<>>
  <2>1. Top(loops).header \in Blocks(cfg) /\ cfg' = AddBackEdge(cfg, current, Top(loops).header)
    BY <1>3, Typed DEF GraphInd, Continue
  <2>2. BackEdgeAdded(cfg, cfg', current, Top(loops).header)
    BY <1>1, <2>1, FirstBackEdgeAdds
  <2> QED
    BY <1>3, <2>2 DEF BackEdgeAdded
<1> QED
  BY <1>2, <1>3

\* Steps that draw nothing: a plain statement, the end of the walk, MAX_BLOCKS
LEMMA StillAdds ==
  ASSUME GraphInd, PlainStmt \/ Finish \/ TooManyBlocks \/ UNCHANGED vars
  PROVE  /\ Adds(cfg, cfg', {}, {}) /\ cfg'.n = cfg.n /\ Blocks(cfg') = Blocks(cfg)
         /\ cfg'.kind = cfg.kind /\ cfg'.succs = cfg.succs
         /\ UNCHANGED <<current, frames, loops>>
<1>1. GraphOK(cfg) /\ Shape(cfg)
  BY Typed DEF GraphInd
<1>2. CASE PlainStmt
  BY <1>1, <1>2, Typed, AddStmtAdds DEF PlainStmt, Live, GraphInd
<1>3. CASE TooManyBlocks
  <2>1. "too many blocks" \in Messages
    BY DEF Messages
  <2> QED
    BY <1>1, <1>3, <2>1, ReportAdds DEF TooManyBlocks
<1>4. CASE Finish \/ UNCHANGED vars
  <2>1. cfg' = cfg /\ UNCHANGED <<current, frames, loops>>
    BY <1>4 DEF Finish, vars
  <2> QED
    BY <1>1, <2>1, AddsNothing
<1> QED
  BY <1>2, <1>3, <1>4

\* STMT_LOOP up to the walk of its body
LEMMA LoopBeginAdds ==
  ASSUME GraphInd, LoopBegin
  PROVE  /\ Adds(cfg, cfg', {<<current, cfg.n>>, <<cfg.n, cfg.n + 1>>, <<cfg.n, cfg.n + 2>>}, {})
         /\ cfg'.n = cfg.n + 3 /\ Blocks(cfg') = Blocks(cfg) \union {cfg.n, cfg.n + 1, cfg.n + 2}
         /\ cfg'.kind[cfg.n] = "LOOP_HEADER" /\ cfg'.kind[cfg.n + 1] = "LOOP_EXIT"
         /\ cfg'.kind[cfg.n + 2] = "LOOP_BODY"
         /\ cfg'.succs[cfg.n + 1] = <<>> /\ cfg'.succs[cfg.n + 2] = <<>>
<1> DEFINE n == cfg.n
           c == current
           g1 == NewBlock(cfg, "LOOP_HEADER", Nest)
           g2 == AddEdge(g1, c, n)
           g3 == NewBlock(g2, "LOOP_EXIT", Nest)
           g4 == AddEdge(g3, n, n + 1)
           g5 == IF Len(loops) < MaxLoopDepth THEN g4 ELSE Report(g4, "loop nesting too deep")
           g6 == NewBlock(g5, "LOOP_BODY", Nest)
<1>1. cfg' = AddEdge(g6, n, n + 2)
  BY DEF LoopBegin
<1>0. n + 3 <= MaxBlocks /\ c # NoBlock
  BY DEF LoopBegin, Live, Room
<1>2. /\ GraphOK(cfg) /\ Shape(cfg) /\ n \in Nat /\ Nest \in Nat /\ MaxBlocks \in Nat
      /\ "LOOP_HEADER" \in Kinds /\ "LOOP_EXIT" \in Kinds /\ "LOOP_BODY" \in Kinds
      /\ c \in Blocks(cfg) /\ Fresh(cfg, c) /\ n \notin Blocks(cfg) /\ n = cfg.n
      /\ n < MaxBlocks /\ n + 1 < MaxBlocks /\ n + 2 < MaxBlocks
  <2>1. /\ GraphOK(cfg) /\ Shape(cfg) /\ n \in Nat /\ Nest \in Nat /\ MaxBlocks \in Nat
        /\ c \in Blocks(cfg) /\ n \notin Blocks(cfg)
    BY <1>0, Typed DEF GraphInd
  <2>2. "LOOP_HEADER" \in Kinds /\ "LOOP_EXIT" \in Kinds /\ "LOOP_BODY" \in Kinds
    BY DEF Kinds
  <2>3. Fresh(cfg, c)
    BY <1>0 DEF GraphInd, Unjoined
  <2> QED
    BY <1>0, <2>1, <2>2, <2>3
<1> HIDE DEF n, c
<1>3. BlockAdded(cfg, g1, "LOOP_HEADER")
  BY <1>2, NewBlockAdds
<1> HIDE DEF g1
<1>4. /\ Adds(cfg, g1, {}, {}) /\ GraphOK(g1) /\ Shape(g1)
      /\ Blocks(g1) = Blocks(cfg) \union {n} /\ g1.n = n + 1
      /\ g1.kind[n] = "LOOP_HEADER" /\ g1.succs[n] = <<>>
      /\ g1.succs[c] = <<>> /\ g1.kind[c] # "RETURN"
  BY <1>2, <1>3 DEF Adds, BlockAdded, Fresh
<1>5. EdgeAdded(g1, g2, c, n)
  <2>1. c \in Blocks(g1) /\ n \in Blocks(g1)
    BY <1>2, <1>4
  <2> QED
    BY <1>4, <2>1, FirstEdgeAdds
<1> HIDE DEF g2
<1>6. /\ Adds(g1, g2, {<<c, n>>}, {}) /\ GraphOK(g2) /\ Shape(g2)
      /\ Blocks(g2) = Blocks(g1) /\ g2.n = n + 1
      /\ g2.kind[n] = "LOOP_HEADER" /\ g2.succs[n] = <<>>
  BY <1>2, <1>4, <1>5 DEF Adds, EdgeAdded
<1>7. BlockAdded(g2, g3, "LOOP_EXIT")
  BY <1>2, <1>6, NewBlockAdds
<1> HIDE DEF g3
<1>8. /\ Adds(g2, g3, {}, {}) /\ GraphOK(g3) /\ Shape(g3)
      /\ Blocks(g3) = Blocks(g2) \union {n + 1} /\ g3.n = n + 2
      /\ g3.kind[n] = "LOOP_HEADER" /\ g3.succs[n] = <<>>
      /\ g3.kind[n + 1] = "LOOP_EXIT" /\ g3.succs[n + 1] = <<>>
  BY <1>2, <1>4, <1>6, <1>7 DEF Adds, BlockAdded
<1>9. EdgeAdded(g3, g4, n, n + 1) /\ Len(g4.succs[n]) <= 1 /\ Succs(g4, n) \subseteq {n + 1}
  <2>1. n \in Blocks(g3) /\ n + 1 \in Blocks(g3)
    BY <1>4, <1>6, <1>8
  <2> QED
    BY <1>8, <2>1, FirstEdgeAdds
<1> HIDE DEF g4
<1>10. /\ Adds(g3, g4, {<<n, n + 1>>}, {}) /\ GraphOK(g4) /\ Shape(g4)
       /\ Blocks(g4) = Blocks(g3) /\ g4.n = n + 2
       /\ g4.kind[n] = "LOOP_HEADER" /\ g4.kind[n + 1] = "LOOP_EXIT" /\ g4.succs[n + 1] = <<>>
  BY <1>2, <1>8, <1>9 DEF Adds, EdgeAdded
<1>11. /\ Adds(g4, g5, {}, {}) /\ g5.n = g4.n /\ Blocks(g5) = Blocks(g4)
       /\ g5.kind = g4.kind /\ g5.succs = g4.succs
  <2>1. CASE Len(loops) < MaxLoopDepth
    BY <1>10, <2>1, AddsNothing
  <2>2. CASE ~(Len(loops) < MaxLoopDepth)
    <3>1. g5 = Report(g4, "loop nesting too deep") /\ "loop nesting too deep" \in Messages
      BY <2>2 DEF Messages
    <3> QED
      BY <1>10, <3>1, ReportAdds
  <2> QED
    BY <2>1, <2>2
<1>12. GraphOK(g5) /\ Shape(g5)
  BY <1>11 DEF Adds
<1> HIDE DEF g5
<1>13. BlockAdded(g5, g6, "LOOP_BODY")
  BY <1>2, <1>10, <1>11, <1>12, NewBlockAdds
<1> HIDE DEF g6
<1>14. /\ Adds(g5, g6, {}, {}) /\ GraphOK(g6) /\ Shape(g6)
       /\ Blocks(g6) = Blocks(g5) \union {n + 2} /\ g6.n = n + 3
       /\ g6.kind[n] = "LOOP_HEADER" /\ g6.succs[n] = g4.succs[n]
       /\ g6.kind[n + 1] = "LOOP_EXIT" /\ g6.succs[n + 1] = <<>>
       /\ g6.kind[n + 2] = "LOOP_BODY" /\ g6.succs[n + 2] = <<>>
  BY <1>2, <1>4, <1>6, <1>8, <1>10, <1>11, <1>13 DEF Adds, BlockAdded
<1>15. n \in Blocks(g6) /\ n + 1 \in Blocks(g6) /\ n + 2 \in Blocks(g6)
  BY <1>4, <1>6, <1>8, <1>10, <1>11, <1>14
<1>16. n + 2 \notin Succs(g6, n) /\ Len(g6.succs[n]) < Limit(g6.kind[n])
  <2>1. Succs(g6, n) = Succs(g4, n)
    BY <1>14 DEF Succs
  <2>2. Limit(g6.kind[n]) = 2
    BY <1>14 DEF Limit
  <2>3. Len(g6.succs[n]) \in Nat
    BY <1>14, <1>15, SuccsOf
  <2> QED
    BY <1>2, <1>9, <1>14, <2>1, <2>2, <2>3
<1>17. EdgeAdded(g6, cfg', n, n + 2)
  BY <1>1, <1>14, <1>15, <1>16, AddEdgeAdds
<1>18. /\ Adds(g6, cfg', {<<n, n + 2>>}, {}) /\ cfg'.n = n + 3 /\ Blocks(cfg') = Blocks(g6)
       /\ cfg'.kind = g6.kind
       /\ cfg'.succs[n + 1] = <<>> /\ cfg'.succs[n + 2] = <<>>
  BY <1>2, <1>14, <1>15, <1>17 DEF EdgeAdded
<1>19. Adds(cfg, g2, {<<c, n>>}, {})
  BY <1>4, <1>6, AddsBoth
<1>20. Adds(cfg, g3, {<<c, n>>}, {})
  BY <1>8, <1>19, AddsBoth
<1>21. Adds(cfg, g4, {<<c, n>>, <<n, n + 1>>}, {})
  <2>1. {<<c, n>>, <<n, n + 1>>} = {<<c, n>>} \union {<<n, n + 1>>} /\ {} = {} \union {}
    OBVIOUS
  <2> QED
    BY <1>10, <1>20, <2>1, AddsBoth
<1>22. Adds(cfg, g5, {<<c, n>>, <<n, n + 1>>}, {})
  BY <1>11, <1>21, AddsBoth
<1>23. Adds(cfg, g6, {<<c, n>>, <<n, n + 1>>}, {})
  BY <1>14, <1>22, AddsBoth
<1>24. Adds(cfg, cfg', {<<c, n>>, <<n, n + 1>>, <<n, n + 2>>}, {})
  <2>1. /\ {<<c, n>>, <<n, n + 1>>, <<n, n + 2>>} = {<<c, n>>, <<n, n + 1>>} \union {<<n, n + 2>>}
        /\ {} = {} \union {}
    OBVIOUS
  <2> QED
    BY <1>18, <1>23, <2>1, AddsBoth
<1> QED
  BY <1>4, <1>6, <1>8, <1>10, <1>11, <1>14, <1>18, <1>24 DEF n, c

\* The graph of the entry block alone.
LEMMA EntryGraph ==
  ASSUME Init
  PROVE  /\ TypeOK /\ Shape(cfg) /\ Flags(cfg) /\ Edges(cfg) = {} /\ BackEdges(cfg) = {}
         /\ Blocks(cfg) = {0} /\ cfg.succs[0] = <<>> /\ cfg.kind = [b \in {0} |-> "ENTRY"]
<1>1. TypeOK /\ cfg = EntryOnly
  BY TypeInit DEF Init
<1>2. /\ Blocks(cfg) = {0} /\ cfg.kind = [b \in {0} |-> "ENTRY"] /\ cfg.succs = [b \in {0} |-> <<>>]
      /\ cfg.preds = [b \in {0} |-> <<>>] /\ cfg.back = [b \in {0} |-> {}]
  BY <1>1 DEF Blocks, EntryOnly
<1>3. Succs(cfg, 0) = {} /\ Preds(cfg, 0) = {}
  BY <1>2 DEF Succs, Preds
<1>4. Shape(cfg)
  <2>1. Apart(cfg.succs[0]) /\ Len(cfg.succs[0]) = 0
    BY <1>2 DEF Apart
  <2>2. Len(cfg.succs[0]) <= Limit(cfg.kind[0])
    BY <2>1 DEF Limit
  <2> QED
    BY <1>2, <1>3, <2>1, <2>2 DEF Shape
<1>5. Edges(cfg) = {}
  BY <1>2, <1>3 DEF Edges
<1>6. BackEdges(cfg) = {} /\ Flags(cfg)
  BY <1>2 DEF BackEdges, Flags
<1> QED
  BY <1>1, <1>2, <1>4, <1>5, <1>6

\* So the walk begins in a graph that has the shape, and with nothing open.
LEMMA GraphInit == Init => GraphInd
<1> SUFFICES ASSUME Init PROVE GraphInd
  OBVIOUS
<1>1. TypeOK /\ Shape(cfg) /\ cfg.succs[0] = <<>> /\ cfg.kind[0] = "ENTRY"
  BY EntryGraph
<1>2. current = 0 /\ frames = <<>>
  BY DEF Init
<1> QED
  BY <1>1, <1>2 DEF GraphInd, Unjoined, Ordered, Fresh

\* Every step keeps the shape of the graph, the blocks that wait, and their order.
LEMMA GraphStep == GraphInd /\ [Next]_vars => GraphInd'
<1> SUFFICES ASSUME GraphInd, [Next]_vars PROVE GraphInd'
  OBVIOUS
<1> USE DEF NoBlock
<1>1. TypeOK /\ TypeOK' /\ Shape(cfg) /\ Unjoined /\ Ordered
  BY TypeStep DEF GraphInd
<1> DEFINE n == cfg.n
           m == Len(frames)
           At(i) == frames[i].at
           Join(i) == frames[i].join
<1>2. /\ n \in Nat /\ Blocks(cfg) = 0 .. n - 1 /\ m \in Nat
      /\ current # NoBlock => current \in Blocks(cfg)
      /\ \A i \in 1 .. m : At(i) \in Blocks(cfg) /\ Join(i) \in Blocks(cfg)
      /\ frames # <<>> => m \in 1 .. m /\ Top(frames) = frames[m]
      /\ frames \in Seq(Frame(cfg))
  BY <1>1, Typed DEF TypeOK
\* control is in a block that no open statement waits for
<1>3. \A i \in 1 .. m : At(i) # current /\ Join(i) # current /\ Join(i) = At(i) + 1
  BY <1>1, <1>2 DEF Ordered
<1> DEFINE Kept(S) == \A b \in Blocks(cfg) \ S : cfg'.kind[b] = cfg.kind[b] /\ cfg'.succs[b] = cfg.succs[b]
\* the blocks that the statements wait for stay as they are
<1>4. ASSUME NEW i \in 1 .. m, NEW S, Kept(S), At(i) \notin S, Join(i) \notin S
      PROVE  /\ Fresh(cfg', Join(i))
             /\ frames[i].k = "true" => Len(cfg'.succs[At(i)]) <= 1 /\ cfg'.kind[At(i)] = "IF"
  BY <1>1, <1>2, <1>4 DEF Unjoined, Fresh
<1>5. ASSUME Kept({current}), frames' = frames, current' = NoBlock
      PROVE  Unjoined' /\ Ordered'
  <2>1. Unjoined'
    BY <1>3, <1>4, <1>5 DEF Unjoined
  <2>2. Ordered'
    BY <1>1, <1>5 DEF Ordered
  <2> QED
    BY <2>1, <2>2
\* an If or a Loop begins
<1>6. ASSUME NEW e, frames' = Append(frames, e), Kept({current}), e.at = n, e.join = n + 1,
             current' = n + 2, cfg'.succs[n + 1] = <<>>, cfg'.succs[n + 2] = <<>>,
             cfg'.kind[n + 1] # "RETURN", cfg'.kind[n + 2] # "RETURN",
             e.k = "true" => Len(cfg'.succs[n]) <= 1 /\ cfg'.kind[n] = "IF"
      PROVE  Unjoined' /\ Ordered'
  <2>1. /\ Len(frames') = m + 1 /\ frames'[m + 1] = e
        /\ \A i \in 1 .. m : frames'[i] = frames[i]
    BY <1>2, <1>6
  <2>2. \A i \in 1 .. m + 1 : i \in 1 .. m \/ i = m + 1
    BY <1>2
  <2>3. Unjoined'
    <3>1. Fresh(cfg', current')
      BY <1>6 DEF Fresh
    <3>2. ASSUME NEW i \in 1 .. m + 1
          PROVE  /\ Fresh(cfg', frames'[i].join)
                 /\ frames'[i].k = "true" =>
                      Len(cfg'.succs[frames'[i].at]) <= 1 /\ cfg'.kind[frames'[i].at] = "IF"
      <4>1. CASE i = m + 1
        BY <1>6, <2>1, <4>1 DEF Fresh
      <4>2. CASE i \in 1 .. m
        <5>1. At(i) \notin {current} /\ Join(i) \notin {current} /\ frames'[i] = frames[i]
          BY <1>3, <2>1, <4>2
        <5>2. /\ Fresh(cfg', Join(i))
              /\ frames[i].k = "true" => Len(cfg'.succs[At(i)]) <= 1 /\ cfg'.kind[At(i)] = "IF"
          BY <1>4, <1>6, <4>2, <5>1
        <5> QED
          BY <5>1, <5>2 DEF Fresh
      <4> QED
        BY <2>2, <4>1, <4>2
    <3> QED
      BY <2>1, <3>1, <3>2 DEF Unjoined
  <2>4. Ordered'
    <3>1. \A i \in 1 .. m + 1 : frames'[i].join = frames'[i].at + 1
      BY <1>3, <1>6, <2>1, <2>2
    <3>2. \A i, j \in 1 .. m + 1 : i < j => frames'[i].join < frames'[j].at
      <4> SUFFICES ASSUME NEW i \in 1 .. m + 1, NEW j \in 1 .. m + 1, i < j
                   PROVE  frames'[i].join < frames'[j].at
        OBVIOUS
      <4>1. i \in 1 .. m /\ frames'[i] = frames[i]
        BY <1>2, <2>1, <2>2
      <4>2. CASE j = m + 1
        BY <1>2, <1>6, <2>1, <4>1, <4>2
      <4>3. CASE j \in 1 .. m
        BY <1>1, <2>1, <4>1, <4>3 DEF Ordered
      <4> QED
        BY <2>2, <4>2, <4>3
    <3>3. \A i \in 1 .. m + 1 : frames'[i].join < current'
      <4>1. \A i \in 1 .. m : Join(i) < n + 2
        BY <1>2
      <4>2. frames'[m + 1].join < n + 2
        BY <1>2, <1>6, <2>1
      <4> QED
        BY <1>6, <2>1, <2>2, <4>1, <4>2
    <3> QED
      BY <2>1, <3>1, <3>2, <3>3 DEF Ordered
  <2> QED
    BY <2>3, <2>4
\* the innermost statement is left for the block that waits for it
<1>7. ASSUME frames # <<>>, frames' = Pop(frames), Kept({current}), current' = Join(m)
      PROVE  Unjoined' /\ Ordered'
  <2>1. Len(frames') = m - 1 /\ \A i \in 1 .. m - 1 : frames'[i] = frames[i]
    BY <1>2, <1>7, PopType
  <2>2. \A i \in 1 .. m - 1 : i \in 1 .. m /\ i < m /\ At(i) \notin {current} /\ Join(i) \notin {current}
    BY <1>2, <1>3
  <2>3. m \in 1 .. m /\ At(m) \notin {current} /\ Join(m) \notin {current}
    BY <1>2, <1>3, <1>7
  <2>4. Unjoined'
    <3>1. Fresh(cfg', current')
      BY <1>4, <1>7, <2>3 DEF Fresh
    <3>2. ASSUME NEW i \in 1 .. m - 1
          PROVE  /\ Fresh(cfg', frames'[i].join)
                 /\ frames'[i].k = "true" =>
                      Len(cfg'.succs[frames'[i].at]) <= 1 /\ cfg'.kind[frames'[i].at] = "IF"
      <4>1. /\ Fresh(cfg', Join(i))
            /\ frames[i].k = "true" => Len(cfg'.succs[At(i)]) <= 1 /\ cfg'.kind[At(i)] = "IF"
        BY <1>4, <1>7, <2>2
      <4> QED
        BY <2>1, <4>1 DEF Fresh
    <3> QED
      BY <2>1, <3>1, <3>2 DEF Unjoined
  <2>5. Ordered'
    <3>1. \A i \in 1 .. m - 1 : frames'[i].join = frames'[i].at + 1
      BY <1>3, <2>1, <2>2
    <3>2. \A i, j \in 1 .. m - 1 : i < j => frames'[i].join < frames'[j].at
      BY <1>1, <2>1, <2>2 DEF Ordered
    <3>3. \A i \in 1 .. m - 1 : Join(i) < At(m) /\ Join(m) = At(m) + 1 /\ At(m) \in Nat /\ Join(i) \in Nat
      BY <1>1, <1>2, <1>3, <2>2, <2>3 DEF Ordered
    <3>4. \A i \in 1 .. m - 1 : frames'[i].join < current'
      <4>1. \A i \in 1 .. m - 1 : Join(i) < Join(m)
        BY <3>3
      <4> QED
        BY <1>7, <2>1, <4>1
    <3> QED
      BY <2>1, <3>1, <3>2, <3>4 DEF Ordered
  <2> QED
    BY <2>4, <2>5
<1>8. CASE Return
  <2>1. frames' = frames /\ current' = NoBlock
    BY <1>8 DEF Return
  <2>2. Adds(cfg, cfg', {<<current, n>>}, {})
    BY <1>8, ReturnAdds
  <2>3. Kept({current})
    <3>1. \A b \in Blocks(cfg) \ {current} : \A x \in {<<current, n>>} \union {} : x[1] # b
      OBVIOUS
    <3> QED
      BY <2>2, <3>1 DEF Adds
  <2>4. Shape(cfg')
    BY <2>2 DEF Adds
  <2> QED
    BY <1>1, <1>5, <2>1, <2>3, <2>4 DEF GraphInd
<1>9. CASE IfBegin
  <2> DEFINE e == [k |-> "true", at |-> n, join |-> n + 1, nest |-> Nest]
  <2>1. frames' = Append(frames, e) /\ current' = n + 2
    BY <1>9 DEF IfBegin, Push
  <2>2. /\ Adds(cfg, cfg', {<<current, n>>, <<n, n + 2>>}, {})
        /\ cfg'.kind[n] = "IF" /\ cfg'.kind[n + 1] = "MERGE" /\ cfg'.kind[n + 2] = "IF_TRUE"
        /\ Len(cfg'.succs[n]) <= 1 /\ cfg'.succs[n + 1] = <<>> /\ cfg'.succs[n + 2] = <<>>
    BY <1>9, IfBeginAdds
  <2>3. Kept({current})
    <3>1. \A b \in Blocks(cfg) \ {current} :
            \A x \in {<<current, n>>, <<n, n + 2>>} \union {} : x[1] # b
      BY <1>2
    <3> QED
      BY <2>2, <3>1 DEF Adds
  <2>4. Shape(cfg')
    BY <2>2 DEF Adds
  <2>5. e.k = "true" /\ e.at = n /\ e.join = n + 1
    OBVIOUS
  <2> HIDE DEF e
  <2>6. Unjoined' /\ Ordered'
    BY <1>6, <2>1, <2>2, <2>3, <2>5
  <2> QED
    BY <1>1, <2>4, <2>6 DEF GraphInd
<1>10. CASE LoopBegin
  <2> DEFINE e == [k |-> "body", at |-> n, join |-> n + 1, nest |-> Nest + 1]
  <2>1. frames' = Append(frames, e) /\ current' = n + 2
    BY <1>10 DEF LoopBegin, Push
  <2>2. /\ Adds(cfg, cfg', {<<current, n>>, <<n, n + 1>>, <<n, n + 2>>}, {})
        /\ cfg'.kind[n + 1] = "LOOP_EXIT" /\ cfg'.kind[n + 2] = "LOOP_BODY"
        /\ cfg'.succs[n + 1] = <<>> /\ cfg'.succs[n + 2] = <<>>
    BY <1>10, LoopBeginAdds
  <2>3. Kept({current})
    <3>1. \A b \in Blocks(cfg) \ {current} :
            \A x \in {<<current, n>>, <<n, n + 1>>, <<n, n + 2>>} \union {} : x[1] # b
      BY <1>2
    <3> QED
      BY <2>2, <3>1 DEF Adds
  <2>4. Shape(cfg')
    BY <2>2 DEF Adds
  <2>5. e.k # "true" /\ e.at = n /\ e.join = n + 1
    OBVIOUS
  <2> HIDE DEF e
  <2>6. Unjoined' /\ Ordered'
    BY <1>6, <2>1, <2>2, <2>3, <2>5
  <2> QED
    BY <1>1, <2>4, <2>6 DEF GraphInd
<1>11. CASE EndTrue
  <2> DEFINE f == [Top(frames) EXCEPT !.k = "false"]
             u == To(Join(m)) \union {<<At(m), n>>}
  <2>1. /\ frames # <<>> /\ frames' = [frames EXCEPT ![m] = f] /\ current' = n
    BY <1>11 DEF EndTrue
  <2>2. m \in 1 .. m /\ Top(frames) = frames[m] /\ frames[m] \in Frame(cfg)
    BY <1>2, <2>1
  <2>3. /\ Adds(cfg, cfg', u, {})
        /\ cfg'.kind[n] = "IF_FALSE" /\ cfg'.succs[n] = <<>>
    BY <1>11, <2>2, EndTrueAdds
  <2>4. f.k = "false" /\ f.at = At(m) /\ f.join = Join(m)
    BY <2>2 DEF Frame
  <2> HIDE DEF f
  <2>5. /\ Len(frames') = m
        /\ \A i \in 1 .. m : /\ frames'[i].at = At(i) /\ frames'[i].join = Join(i)
                             /\ frames'[i].k = "true" => frames[i].k = "true" /\ i # m
    BY <1>2, <2>1, <2>2, <2>4
  <2>6. Kept({current, At(m)})
    <3>1. \A b \in Blocks(cfg) \ {current, At(m)} : \A x \in u \union {} : x[1] # b
      BY DEF To
    <3> QED
      BY <2>3, <3>1 DEF Adds
  <2>7. \A i \in 1 .. m : i < m => At(i) # At(m) /\ Join(i) # At(m)
    BY <1>1, <1>2, <1>3, <2>2 DEF Ordered
  <2>8. Join(m) # At(m)
    BY <1>2, <1>3, <2>2
  <2>9. Unjoined'
    <3>1. Fresh(cfg', current')
      BY <2>1, <2>3 DEF Fresh
    <3>2. \A i \in 1 .. m : Join(i) \in Blocks(cfg) /\ Join(i) \notin {current, At(m)}
      BY <1>2, <1>3, <2>7, <2>8
    <3>3. \A i \in 1 .. m : Fresh(cfg', Join(i))
      BY <1>1, <2>6, <3>2 DEF Unjoined, Fresh
    <3>4. ASSUME NEW i \in 1 .. m, frames[i].k = "true", i # m
          PROVE  Len(cfg'.succs[At(i)]) <= 1 /\ cfg'.kind[At(i)] = "IF"
      <4>0. i < m
        BY <1>2, <3>4
      <4>1. At(i) \notin {current, At(m)} /\ Join(i) \notin {current, At(m)}
        BY <1>3, <2>7, <3>2, <4>0
      <4> QED
        BY <1>4, <2>6, <3>4, <4>1
    <3> QED
      BY <2>5, <3>1, <3>3, <3>4 DEF Unjoined, Fresh
  <2>10. Ordered'
    <3>1. \A i \in 1 .. m : Join(i) < n
      BY <1>2
    <3>2. \A i \in 1 .. m : frames'[i].join = frames'[i].at + 1
      BY <1>3, <2>5
    <3>3. \A i, j \in 1 .. m : i < j => frames'[i].join < frames'[j].at
      <4>1. \A i, j \in 1 .. m : i < j => Join(i) < At(j)
        BY <1>1 DEF Ordered
      <4> QED
        BY <2>5, <4>1, Zenon
    <3>4. \A i \in 1 .. m : frames'[i].join < current'
      BY <2>1, <2>5, <3>1, Zenon
    <3> QED
      BY <2>5, <3>2, <3>3, <3>4 DEF Ordered
  <2>11. Shape(cfg')
    BY <2>3 DEF Adds
  <2> QED
    BY <1>1, <2>9, <2>10, <2>11 DEF GraphInd
<1>12. CASE EndFalse
  <2>1. frames # <<>> /\ frames' = Pop(frames) /\ current' = Join(m)
    BY <1>2, <1>12 DEF EndFalse
  <2>2. Shape(cfg') /\ Kept({current})
    BY <1>12, EndFalseAdds DEF Adds
  <2> QED
    BY <1>1, <1>7, <2>1, <2>2 DEF GraphInd
<1>13. CASE EndBody
  <2>1. frames # <<>> /\ frames' = Pop(frames) /\ current' = Join(m)
    BY <1>2, <1>13 DEF EndBody
  <2>2. Shape(cfg') /\ Kept({current})
    BY <1>13, EndBodyAdds DEF Adds
  <2> QED
    BY <1>1, <1>7, <2>1, <2>2 DEF GraphInd
<1>14. CASE Break
  <2>1. frames' = frames /\ current' = NoBlock
    BY <1>14 DEF Break
  <2>2. Shape(cfg') /\ Kept({current})
    BY <1>14, BreakAdds DEF Adds
  <2> QED
    BY <1>1, <1>5, <2>1, <2>2 DEF GraphInd
<1>15. CASE Continue
  <2>1. frames' = frames /\ current' = NoBlock
    BY <1>15 DEF Continue
  <2>2. Shape(cfg') /\ Kept({current})
    BY <1>15, ContinueAdds DEF Adds
  <2> QED
    BY <1>1, <1>5, <2>1, <2>2 DEF GraphInd
<1>16. CASE PlainStmt \/ Finish \/ TooManyBlocks \/ UNCHANGED vars
  <2>1. /\ Adds(cfg, cfg', {}, {}) /\ cfg'.kind = cfg.kind /\ cfg'.succs = cfg.succs
        /\ UNCHANGED <<current, frames, loops>>
    BY <1>16, StillAdds
  <2>2. Unjoined' /\ Ordered'
    BY <1>1, <2>1 DEF Unjoined, Ordered, Fresh
  <2>3. Shape(cfg')
    BY <2>1 DEF Adds
  <2> QED
    BY <1>1, <2>2, <2>3 DEF GraphInd
<1> QED
  BY <1>8, <1>9, <1>10, <1>11, <1>12, <1>13, <1>14, <1>15, <1>16 DEF Next, Stopped

\* Whatever edge lists were full, an edge is in the successors of its source exactly when it
\* is in the predecessors of its target, no list names a block twice, and no block has more
\* successors than its last statement gives it.
THEOREM GraphShapeCorrect == Spec => []GraphShape
<1>1. GraphInd => GraphShape
  BY DEF GraphInd, Shape, Apart, Limit, GraphShape, EdgeSymmetry, OutDegree
<1> QED
  BY <1>1, GraphInit, GraphStep, PTL DEF Spec

\* The blocks whose successors a step may add to.
LEMMA SealedStep ==
  ASSUME GraphInd, [Next]_vars
  PROVE  [\A b \in Blocks(cfg) :
            cfg'.succs[b] # cfg.succs[b] =>
              \/ b = current
              \/ \E i \in 1 .. Len(frames) : b = frames[i].at]_vars
<1> DEFINE Sealed(b) == b # current /\ \A i \in 1 .. Len(frames) : b # frames[i].at
<1>1. ASSUME NEW e, Adds(cfg, cfg', e, {}), NEW b \in Blocks(cfg), \A x \in e : x[1] # b
      PROVE  cfg'.succs[b] = cfg.succs[b]
  BY <1>1 DEF Adds
<1>2. cfg.n \notin Blocks(cfg)
  BY Typed DEF GraphInd
<1>3. SUFFICES ASSUME NEW b \in Blocks(cfg), Sealed(b) PROVE cfg'.succs[b] = cfg.succs[b]
  OBVIOUS
<1>4. CASE Return
  <2>1. \A x \in {<<current, cfg.n>>} : x[1] # b
    BY <1>3
  <2> QED
    BY <1>1, <1>4, <2>1, ReturnAdds
<1>5. CASE IfBegin
  <2>1. \A x \in {<<current, cfg.n>>, <<cfg.n, cfg.n + 2>>} : x[1] # b
    BY <1>2, <1>3
  <2> QED
    BY <1>1, <1>5, <2>1, IfBeginAdds
<1>6. CASE LoopBegin
  <2>1. \A x \in {<<current, cfg.n>>, <<cfg.n, cfg.n + 1>>, <<cfg.n, cfg.n + 2>>} : x[1] # b
    BY <1>2, <1>3
  <2> QED
    BY <1>1, <1>6, <2>1, LoopBeginAdds
<1>7. CASE EndTrue
  <2> DEFINE u == To(Top(frames).join) \union {<<Top(frames).at, cfg.n>>}
  <2>1. Len(frames) \in 1 .. Len(frames) /\ Top(frames) = frames[Len(frames)]
    BY <1>7, Typed DEF GraphInd, EndTrue
  <2>2. \A x \in u : x[1] # b
    BY <1>3, <2>1 DEF To
  <2>3. Adds(cfg, cfg', u, {})
    BY <1>7, EndTrueAdds
  <2> QED
    BY <1>1, <2>2, <2>3
<1>8. CASE EndFalse
  BY <1>3, <1>8, EndFalseAdds
<1>9. CASE EndBody
  BY <1>3, <1>9, EndBodyAdds
<1>10. CASE Break
  BY <1>3, <1>10, BreakAdds
<1>11. CASE Continue
  BY <1>3, <1>11, ContinueAdds
<1>12. CASE PlainStmt \/ Finish \/ TooManyBlocks \/ UNCHANGED vars
  BY <1>12, StillAdds
<1> QED
  BY <1>4, <1>5, <1>6, <1>7, <1>8, <1>9, <1>10, <1>11, <1>12 DEF Next, Stopped

\* Nothing is added after a jump or a return: only the block that control is in and the
\* condition of an open statement get a successor.
THEOREM SealedCorrect == Spec => SealedBlocks
<1>1. Spec => []GraphInd
  BY GraphInit, GraphStep, PTL DEF Spec
<1>2. Spec => [][Next]_vars
  BY DEF Spec
<1> QED
  BY <1>1, <1>2, SealedStep, PTL DEF SealedBlocks

(***************************************************************************)
(* Cycles.  Every block has a rank, and the rank grows along every edge    *)
(* that is not flagged: the blocks of a statement come before the block    *)
(* that follows it, whenever they were made.                               *)
(***************************************************************************)
\* A new block gets a rank between two that are taken: there is room when they are 4 apart.
LEMMA RanksApart ==
  ASSUME NEW g, GraphOK(g), NEW r \in [Nat -> Nat], Ranked(g, r),
         NEW s \in [Nat -> Nat], \A b \in Blocks(g) : s[b] = 4 * r[b]
  PROVE  Ranked(g, s)
<1>1. Blocks(g) \subseteq Nat
  <2>1. g.n \in Nat /\ Blocks(g) = 0 .. g.n - 1
    BY BlocksOf
  <2> HIDE DEF Blocks
  <2> QED
    BY <2>1
<1>2. \A e \in Edges(g) : e[1] \in Blocks(g) /\ e[2] \in Blocks(g)
  BY DEF Edges
<1> SUFFICES ASSUME NEW e \in Edges(g) \ BackEdges(g) PROVE s[e[1]] < s[e[2]]
  BY DEF Ranked
<1>3. r[e[1]] < r[e[2]] /\ r[e[1]] \in Nat /\ r[e[2]] \in Nat
  BY <1>1, <1>2 DEF Ranked
<1>4. s[e[1]] = 4 * r[e[1]] /\ s[e[2]] = 4 * r[e[2]]
  BY <1>2
<1> QED
  BY <1>3, <1>4

\* The loops that break and continue know are Loop statements that are open, each once,
\* even where MAX_LOOP_DEPTH was passed.
LoopsOpen ==
  /\ \A d \in 1 .. Len(loops) : \E i \in 1 .. Len(frames) :
       frames[i].k = "body" /\ loops[d] = [header |-> frames[i].at, exit |-> frames[i].join]
  /\ \A d, e \in 1 .. Len(loops) : d < e => loops[d].header < loops[e].header

RankOK(g, fs, c, r) ==
  /\ r \in [Nat -> Nat] /\ Ranked(g, r)
  /\ \A i \in 1 .. Len(fs) : r[fs[i].at] < r[fs[i].join]
  /\ \A i, j \in 1 .. Len(fs) : i < j => r[fs[j].join] < r[fs[i].join]
  /\ c # NoBlock => \A i \in 1 .. Len(fs) : r[c] < r[fs[i].join]

CycleInd == GraphInd /\ LoopsOpen /\ \E r : RankOK(cfg, frames, current, r)

\* loop_push and loop_pop keep to the open Loop statements.
LEMMA LoopsOpenStep ==
  ASSUME GraphInd, LoopsOpen, [Next]_vars
  PROVE  LoopsOpen'
<1> DEFINE m == Len(frames)
           l == Len(loops)
<1>1. /\ m \in Nat /\ l \in Nat /\ Blocks(cfg) = 0 .. cfg.n - 1 /\ cfg.n \in Nat
      /\ \A i \in 1 .. m : frames[i].at \in Blocks(cfg) /\ frames[i].join \in Blocks(cfg)
      /\ frames \in Seq(Frame(cfg)) /\ loops \in Seq(Loop(cfg))
  <2>1. frames \in Seq(Frame(cfg)) /\ loops \in Seq(Loop(cfg))
    BY DEF GraphInd, TypeOK
  <2>2. l \in Nat
    BY <2>1
  <2> QED
    BY <2>1, <2>2, Typed DEF GraphInd
<1>2. \A d \in 1 .. l : loops[d].header \in Nat /\ loops[d].header < cfg.n
  <2> SUFFICES ASSUME NEW d \in 1 .. l
               PROVE  loops[d].header \in Nat /\ loops[d].header < cfg.n
    OBVIOUS
  <2>1. loops[d].header \in Blocks(cfg)
    <3>1. loops[d] \in Loop(cfg)
      BY <1>1
    <3> QED
      BY <3>1 DEF Loop
  <2> QED
    BY <1>1, <2>1
<1>3. CASE PlainStmt \/ Return \/ Break \/ Continue \/ Finish \/ TooManyBlocks \/ UNCHANGED vars
  <2>1. frames' = frames /\ loops' = loops
    BY <1>3 DEF PlainStmt, Return, Break, Continue, Finish, TooManyBlocks, vars
  <2> QED
    BY <2>1 DEF LoopsOpen
\* frames that come or change, and are not the body of a loop
<1>4. ASSUME loops' = loops,
             \A i \in 1 .. m : frames[i].k = "body" =>
               i \in 1 .. Len(frames') /\ frames'[i] = frames[i]
      PROVE  LoopsOpen'
  <2>1. \A d \in 1 .. Len(loops') : \E i \in 1 .. Len(frames') :
          frames'[i].k = "body" /\ loops'[d] = [header |-> frames'[i].at, exit |-> frames'[i].join]
    <3> SUFFICES ASSUME NEW d \in 1 .. l
                 PROVE  \E i \in 1 .. Len(frames') :
                          frames'[i].k = "body"
                          /\ loops'[d] = [header |-> frames'[i].at, exit |-> frames'[i].join]
      BY <1>4
    <3>1. PICK i \in 1 .. m :
            frames[i].k = "body" /\ loops[d] = [header |-> frames[i].at, exit |-> frames[i].join]
      BY DEF LoopsOpen
    <3>2. i \in 1 .. Len(frames') /\ frames'[i] = frames[i]
      BY <1>4, <3>1
    <3> QED
      BY <1>4, <3>1, <3>2
  <2> QED
    BY <1>4, <2>1 DEF LoopsOpen
<1>5. CASE IfBegin
  <2> DEFINE e == [k |-> "true", at |-> cfg.n, join |-> cfg.n + 1, nest |-> Nest]
  <2>1. frames' = Append(frames, e) /\ loops' = loops
    BY <1>5 DEF IfBegin, Push
  <2> HIDE DEF e
  <2>2. \A i \in 1 .. m : i \in 1 .. Len(frames') /\ frames'[i] = frames[i]
    <3>1. Len(frames') = m + 1 /\ \A i \in 1 .. m : frames'[i] = frames[i]
      <4>1. frames \in Seq(Frame(cfg)) /\ m \in Nat
        BY <1>1
      <4> QED
        BY <2>1, <4>1
    <3>2. \A i \in 1 .. m : i \in 1 .. m + 1
      BY <1>1
    <3> QED
      BY <3>1, <3>2
  <2> QED
    BY <1>4, <2>1, <2>2
<1>6. CASE EndTrue
  <2> DEFINE f == [Top(frames) EXCEPT !.k = "false"]
  <2>1. frames' = [frames EXCEPT ![m] = f] /\ loops' = loops /\ frames[m].k = "true"
    BY <1>6 DEF EndTrue, Top
  <2> HIDE DEF f
  <2>2. Len(frames') = m /\ \A i \in 1 .. m : i # m => frames'[i] = frames[i]
    BY <1>1, <2>1
  <2> QED
    BY <1>4, <2>1, <2>2, Zenon
<1>7. CASE EndFalse
  <2>1. frames # <<>> /\ frames' = Pop(frames) /\ loops' = loops /\ frames[m].k = "false"
    BY <1>7 DEF EndFalse, Top
  <2>2. /\ Len(frames') = m - 1 /\ m \in Nat /\ m # 0
        /\ \A i \in 1 .. m - 1 : frames'[i] = frames[i]
    BY <1>1, <2>1, PopType
  <2>3. \A i \in 1 .. m : i # m => i \in 1 .. m - 1
    BY <2>2
  <2> QED
    BY <1>4, <2>1, <2>2, <2>3
<1>8. CASE LoopBegin
  <2> DEFINE e == [k |-> "body", at |-> cfg.n, join |-> cfg.n + 1, nest |-> Nest + 1]
             p == [header |-> cfg.n, exit |-> cfg.n + 1]
  <2>1. frames' = Append(frames, e) /\ loops' \in {loops, Append(loops, p)}
    BY <1>8 DEF LoopBegin, LoopPush, Push
  <2>2. e.k = "body" /\ p = [header |-> e.at, exit |-> e.join] /\ p.header = cfg.n
    OBVIOUS
  <2> HIDE DEF e, p
  <2>3. /\ Len(frames') = m + 1 /\ frames'[m + 1] = e
        /\ \A i \in 1 .. m : i \in 1 .. Len(frames') /\ frames'[i] = frames[i]
    BY <1>1, <2>1
  <2>4. CASE loops' = loops
    BY <1>4, <2>3, <2>4
  <2>5. CASE loops' = Append(loops, p)
    <3>1. /\ Len(loops') = l + 1 /\ loops'[l + 1] = p
          /\ \A d \in 1 .. l : loops'[d] = loops[d]
          /\ \A d \in 1 .. l + 1 : d \in 1 .. l \/ d = l + 1
      BY <1>1, <2>5
    <3>2. ASSUME NEW d \in 1 .. l + 1
          PROVE  \E i \in 1 .. Len(frames') :
                   frames'[i].k = "body"
                   /\ loops'[d] = [header |-> frames'[i].at, exit |-> frames'[i].join]
      <4>1. CASE d = l + 1
        <5>1. m + 1 \in 1 .. Len(frames')
          BY <1>1, <2>3
        <5> QED
          BY <2>2, <2>3, <3>1, <4>1, <5>1
      <4>2. CASE d \in 1 .. l
        <5>1. PICK i \in 1 .. m :
                frames[i].k = "body" /\ loops[d] = [header |-> frames[i].at, exit |-> frames[i].join]
          BY <4>2 DEF LoopsOpen
        <5> QED
          BY <2>3, <3>1, <4>2, <5>1
      <4> QED
        BY <3>1, <4>1, <4>2
    <3>3. \A d, c \in 1 .. l + 1 : d < c => loops'[d].header < loops'[c].header
      <4> SUFFICES ASSUME NEW d \in 1 .. l + 1, NEW c \in 1 .. l + 1, d < c
                   PROVE  loops'[d].header < loops'[c].header
        OBVIOUS
      <4>1. d \in 1 .. l
        BY <1>1
      <4>2. CASE c = l + 1
        BY <1>2, <2>2, <3>1, <4>1, <4>2
      <4>3. CASE c \in 1 .. l
        BY <3>1, <4>1, <4>3 DEF LoopsOpen
      <4> QED
        BY <3>1, <4>2, <4>3
    <3> QED
      BY <3>1, <3>2, <3>3 DEF LoopsOpen
  <2> QED
    BY <2>1, <2>4, <2>5
\* the body that ends is the innermost loop: if it is on the stack, it is on top
<1>9. CASE EndBody
  <2>1. frames # <<>> /\ frames' = Pop(frames) /\ loops' = LoopPop(loops)
    BY <1>9 DEF EndBody
  <2>2. /\ Len(frames') = m - 1 /\ m \in Nat /\ m # 0
        /\ \A i \in 1 .. m - 1 : frames'[i] = frames[i]
    BY <1>1, <2>1, PopType
  <2>3. CASE loops = <<>>
    <3>1. loops' = <<>>
      BY <2>1, <2>3 DEF LoopPop
    <3> QED
      BY <3>1 DEF LoopsOpen
  <2>4. CASE loops # <<>>
    <3>1. /\ Len(loops') = l - 1 /\ l # 0
          /\ \A d \in 1 .. l - 1 : loops'[d] = loops[d]
      BY <1>1, <2>1, <2>4, PopType DEF LoopPop
    <3>2. ASSUME NEW d \in 1 .. l - 1
          PROVE  \E i \in 1 .. m - 1 :
                   frames[i].k = "body"
                   /\ loops[d] = [header |-> frames[i].at, exit |-> frames[i].join]
      <4>1. d \in 1 .. l /\ l \in 1 .. l /\ d < l
        BY <1>1, <3>1
      <4>2. PICK i \in 1 .. m :
              frames[i].k = "body" /\ loops[d] = [header |-> frames[i].at, exit |-> frames[i].join]
        BY <4>1 DEF LoopsOpen
      <4>3. PICK j \in 1 .. m :
              frames[j].k = "body" /\ loops[l] = [header |-> frames[j].at, exit |-> frames[j].join]
        BY <4>1 DEF LoopsOpen
      <4>4. frames[i].at < frames[j].at
        BY <4>1, <4>2, <4>3 DEF LoopsOpen
      <4>5. i # m
        <5> SUFFICES ASSUME i = m PROVE FALSE
          OBVIOUS
        <5>1. j < m
          BY <1>1, <4>4
        <5>2. frames[j].join < frames[m].at /\ frames[j].join = frames[j].at + 1
          BY <5>1, <2>2 DEF GraphInd, Ordered
        <5>3. frames[j].at \in Nat /\ frames[m].at \in Nat
          BY <1>1
        <5> QED
          BY <4>4, <5>2, <5>3
      <4>6. i \in 1 .. m - 1
        BY <1>1, <4>5
      <4> QED
        BY <4>2, <4>6
    <3>3. ASSUME NEW d \in 1 .. Len(loops')
          PROVE  \E i \in 1 .. Len(frames') :
            frames'[i].k = "body" /\ loops'[d] = [header |-> frames'[i].at, exit |-> frames'[i].join]
      <4>1. d \in 1 .. l - 1 /\ loops'[d] = loops[d]
        BY <3>1
      <4>2. PICK i \in 1 .. m - 1 :
              frames[i].k = "body" /\ loops[d] = [header |-> frames[i].at, exit |-> frames[i].join]
        BY <3>2, <4>1
      <4>3. i \in 1 .. Len(frames') /\ frames'[i] = frames[i]
        BY <2>2
      <4> QED
        BY <4>1, <4>2, <4>3
    <3>4. ASSUME NEW d \in 1 .. Len(loops'), NEW c \in 1 .. Len(loops'), d < c
          PROVE  loops'[d].header < loops'[c].header
      <4>0. d \in 1 .. l - 1 /\ c \in 1 .. l - 1
        BY <3>1
      <4>1. d \in 1 .. l /\ c \in 1 .. l /\ loops'[d] = loops[d] /\ loops'[c] = loops[c]
        BY <1>1, <3>1, <4>0
      <4>2. \A x, y \in 1 .. l : x < y => loops[x].header < loops[y].header
        BY DEF LoopsOpen
      <4>3. loops[d].header < loops[c].header
        BY <3>4, <4>1, <4>2
      <4> QED
        BY <4>1, <4>3
    <3> QED
      BY <3>3, <3>4 DEF LoopsOpen
  <2> QED
    BY <2>3, <2>4
<1> QED
  BY <1>3, <1>5, <1>6, <1>7, <1>8, <1>9 DEF Next, Stopped

\* Every step can rank the blocks that it makes.
LEMMA RankStep ==
  ASSUME GraphInd, LoopsOpen, NEW r, RankOK(cfg, frames, current, r), [Next]_vars
  PROVE  \E s : RankOK(cfg', frames', current', s)
<1> USE DEF NoBlock
<1> DEFINE n == cfg.n
           m == Len(frames)
           c == current
           At(i) == frames[i].at
           Join(i) == frames[i].join
<1>0. n \in Nat /\ Blocks(cfg) = 0 .. n - 1 /\ m \in Nat
  BY Typed DEF GraphInd
<1>1. /\ TypeOK /\ n \in Nat /\ m \in Nat /\ GraphOK(cfg)
      /\ c # NoBlock => c \in Blocks(cfg)
      /\ \A i \in 1 .. m : At(i) \in Blocks(cfg) /\ Join(i) \in Blocks(cfg)
      /\ frames # <<>> => m \in 1 .. m /\ Top(frames) = frames[m]
      /\ frames \in Seq(Frame(cfg)) /\ loops \in Seq(Loop(cfg))
  BY Typed DEF GraphInd, TypeOK
<1>2. \A b \in Blocks(cfg) : b \in Nat /\ b < n /\ r[b] \in Nat
  <2>1. \A b \in Blocks(cfg) : b \in Nat /\ b < n
    BY <1>0
  <2>2. r \in [Nat -> Nat]
    BY DEF RankOK
  <2> QED
    BY <2>1, <2>2
<1>31. r \in [Nat -> Nat]
  BY DEF RankOK
<1>3. /\ Ranked(cfg, r)
      /\ \A i \in 1 .. m : r[At(i)] < r[Join(i)]
      /\ \A i, j \in 1 .. m : i < j => r[Join(j)] < r[Join(i)]
      /\ c # NoBlock => \A i \in 1 .. m : r[c] < r[Join(i)]
  BY DEF RankOK
\* the step makes no block
<1>4. ASSUME frames' = frames, current' \in {current, NoBlock}, Ranked(cfg', r)
      PROVE  RankOK(cfg', frames', current', r)
  BY <1>3, <1>4 DEF RankOK
<1>5. ASSUME frames # <<>>, frames' = Pop(frames), current' = Join(m), Ranked(cfg', r)
      PROVE  RankOK(cfg', frames', current', r)
  <2>1. Len(frames') = m - 1 /\ \A i \in 1 .. m - 1 : frames'[i] = frames[i]
    BY <1>1, <1>5, PopType
  <2>2. \A i \in 1 .. m - 1 : i \in 1 .. m /\ i < m
    BY <1>0
  <2>3. m \in 1 .. m
    BY <1>1, <1>5
  <2>4. \A i \in 1 .. m - 1 : r[frames'[i].at] < r[frames'[i].join] /\ r[current'] < r[frames'[i].join]
    BY <1>3, <1>5, <2>1, <2>2, <2>3
  <2>5. \A i, j \in 1 .. m - 1 : i < j => r[frames'[j].join] < r[frames'[i].join]
    BY <1>3, <2>1, <2>2
  <2> QED
    BY <1>5, <2>1, <2>4, <2>5 DEF RankOK
<1>6. CASE PlainStmt \/ Finish \/ TooManyBlocks \/ UNCHANGED vars
  <2>1. Adds(cfg, cfg', {}, {}) /\ frames' = frames /\ current' = current
    BY <1>6, StillAdds
  <2>2. Ranked(cfg', r)
    BY <1>3, <2>1 DEF Adds, Along
  <2> QED
    BY <1>4, <2>1, <2>2
<1>7. CASE EndFalse
  <2>1. frames # <<>> /\ frames' = Pop(frames) /\ current' = Join(m) /\ Top(frames) = frames[m] /\ m \in 1 .. m
    BY <1>1, <1>7 DEF EndFalse
  <2>2. Adds(cfg, cfg', To(Join(m)), {})
    BY <1>7, <2>1, EndFalseAdds
  <2>3. Along(r, To(Join(m)))
    <3>1. \A x \in To(Join(m)) : c # NoBlock /\ x = <<c, Join(m)>>
      BY DEF To
    <3>2. \A x \in To(Join(m)) : r[x[1]] < r[x[2]]
      BY <1>3, <2>1, <3>1
    <3> QED
      BY <3>2 DEF Along
  <2> QED
    BY <1>3, <1>5, <2>1, <2>2, <2>3 DEF Adds
<1>8. CASE EndBody
  <2>1. frames # <<>> /\ frames' = Pop(frames) /\ current' = Join(m)
    BY <1>1, <1>8 DEF EndBody
  <2>2. Adds(cfg, cfg', {}, To(Top(frames).at))
    BY <1>8, EndBodyAdds
  <2>3. Ranked(cfg', r)
    BY <1>3, <2>2 DEF Adds, Along
  <2> QED
    BY <1>5, <2>1, <2>3
<1>9. CASE Break
  <2>1. frames' = frames /\ current' = NoBlock /\ c # NoBlock
    BY <1>9 DEF Break, Live
  <2>2. CASE loops = <<>>
    <3>1. Adds(cfg, cfg', {}, {})
      BY <1>9, <2>2, BreakAdds
    <3>2. Ranked(cfg', r)
      BY <1>3, <3>1 DEF Adds, Along
    <3> QED
      BY <1>4, <2>1, <3>2
  <2>3. CASE loops # <<>>
    <3>1. Adds(cfg, cfg', {<<c, Top(loops).exit>>}, {})
      BY <1>9, <2>3, BreakAdds
    <3>2. Len(loops) \in 1 .. Len(loops)
      BY <1>1, <2>3
    <3>3. PICK i \in 1 .. m : Top(loops) = [header |-> At(i), exit |-> Join(i)]
      BY <3>2 DEF LoopsOpen, Top
    <3>4. Along(r, {<<c, Top(loops).exit>>})
      <4>1. r[c] < r[Top(loops).exit]
        BY <1>3, <2>1, <3>3
      <4> QED
        BY <4>1 DEF Along
    <3>5. Ranked(cfg', r)
      BY <1>3, <3>1, <3>4 DEF Adds
    <3> QED
      BY <1>4, <2>1, <3>5
  <2> QED
    BY <2>2, <2>3
<1>10. CASE Continue
  <2>1. frames' = frames /\ current' = NoBlock
    BY <1>10 DEF Continue
  <2>2. \E f : Adds(cfg, cfg', {}, f)
    BY <1>10, ContinueAdds
  <2>3. Ranked(cfg', r)
    BY <1>3, <2>2 DEF Adds, Along
  <2> QED
    BY <1>4, <2>1, <2>3
\* the step makes blocks: they go between the old ones
<1> DEFINE Spread(s) == s \in [Nat -> Nat] /\ \A b \in Blocks(cfg) : s[b] = 4 * r[b]
<1>11. ASSUME NEW s, Spread(s)
       PROVE  RankOK(cfg, frames, current, s)
  <2>1. Ranked(cfg, s)
    BY <1>1, <1>3, <1>31, <1>11, RanksApart
  <2>2. \A b \in Blocks(cfg) : s[b] = 4 * r[b] /\ r[b] \in Nat
    BY <1>2, <1>11
  <2>3. \A a, b \in Blocks(cfg) : r[a] < r[b] => s[a] < s[b]
    BY <2>2
  <2> QED
    BY <1>1, <1>3, <1>11, <2>1, <2>3 DEF RankOK
<1>12. CASE Return
  <2> DEFINE s == [b \in Nat |-> IF b < n THEN 4 * r[b] ELSE 4 * r[c] + 1]
  <2>1. frames' = frames /\ current' = NoBlock /\ c \in Blocks(cfg)
    BY <1>1, <1>12 DEF Return, Live
  <2>2. Spread(s) /\ s[c] = 4 * r[c] /\ r[c] \in Nat /\ s[n] = 4 * r[c] + 1
    <3>1. r[c] \in Nat /\ c \in Nat /\ c < n
      BY <1>2, <2>1
    <3>2. s \in [Nat -> Nat]
      <4>1. \A b \in Nat : r[b] \in Nat
        BY <1>31
      <4>2. \A b \in Nat : 4 * r[b] \in Nat
        BY <4>1
      <4>3. 4 * r[c] + 1 \in Nat
        BY <3>1
      <4> QED
        BY <4>2, <4>3
    <3>3. \A b \in Blocks(cfg) : s[b] = 4 * r[b]
      BY <1>2
    <3>4. s[n] = 4 * r[c] + 1
      BY <1>0
    <3> HIDE DEF s
    <3> QED
      BY <2>1, <3>1, <3>2, <3>3, <3>4
  <2> HIDE DEF s
  <2>3. Along(s, {<<c, n>>})
    BY <1>2, <2>1, <2>2 DEF Along
  <2>4. RankOK(cfg, frames, current, s)
    BY <1>11, <2>2
  <2>5. Ranked(cfg', s)
    BY <1>12, <2>3, <2>4, ReturnAdds DEF Adds, RankOK
  <2>6. RankOK(cfg', frames', current', s)
    BY <2>1, <2>4, <2>5 DEF RankOK
  <2> QED
    BY <2>2, <2>6
<1>13. ASSUME IfBegin \/ LoopBegin
       PROVE  \E s : RankOK(cfg', frames', current', s)
  <2> DEFINE s == [b \in Nat |-> IF b < n THEN 4 * r[b]
                                 ELSE IF b = n THEN 4 * r[c] + 1
                                 ELSE IF b = n + 1 THEN 4 * r[c] + 3
                                 ELSE 4 * r[c] + 2]
             e == frames'[m + 1]
  <2>1. /\ c \in Blocks(cfg) /\ current' = n + 2
        /\ Len(frames') = m + 1 /\ \A i \in 1 .. m : frames'[i] = frames[i]
        /\ frames'[m + 1].at = n /\ frames'[m + 1].join = n + 1
    <3>1. c \in Blocks(cfg) /\ current' = n + 2
      BY <1>1, <1>13 DEF IfBegin, LoopBegin, Live
    <3>2. \E k, d : frames' = Append(frames, [k |-> k, at |-> n, join |-> n + 1, nest |-> d])
      BY <1>13 DEF IfBegin, LoopBegin, Push
    <3>3. PICK k, d : frames' = Append(frames, [k |-> k, at |-> n, join |-> n + 1, nest |-> d])
      BY <3>2
    <3> DEFINE f == [k |-> k, at |-> n, join |-> n + 1, nest |-> d]
    <3>4. f.at = n /\ f.join = n + 1 /\ frames' = Append(frames, f)
      BY <3>3
    <3> HIDE DEF f
    <3>5. Len(frames') = m + 1 /\ frames'[m + 1] = f /\ \A i \in 1 .. m : frames'[i] = frames[i]
      BY <1>1, <3>4
    <3> QED
      BY <3>1, <3>4, <3>5
  <2>2. Spread(s) /\ s[c] = 4 * r[c] /\ r[c] \in Nat /\ s \in [Nat -> Nat]
        /\ s[n] = 4 * r[c] + 1 /\ s[n + 1] = 4 * r[c] + 3 /\ s[n + 2] = 4 * r[c] + 2
    <3>1. r[c] \in Nat /\ c \in Nat /\ c < n
      BY <1>2, <2>1
    <3>2. s \in [Nat -> Nat]
      <4>1. \A b \in Nat : r[b] \in Nat
        BY <1>31
      <4>2. \A b \in Nat : 4 * r[b] \in Nat
        BY <4>1
      <4>3. 4 * r[c] + 1 \in Nat /\ 4 * r[c] + 2 \in Nat /\ 4 * r[c] + 3 \in Nat
        BY <3>1
      <4> QED
        BY <4>2, <4>3
    <3>3. \A b \in Blocks(cfg) : s[b] = 4 * r[b]
      BY <1>2
    <3>4. s[n] = 4 * r[c] + 1 /\ s[n + 1] = 4 * r[c] + 3 /\ s[n + 2] = 4 * r[c] + 2
      BY <1>0
    <3> HIDE DEF s
    <3> QED
      BY <2>1, <3>1, <3>2, <3>3, <3>4
  <2> HIDE DEF s
  <2>20. /\ s[c] = 4 * r[c] /\ r[c] \in Nat
         /\ s[n] = 4 * r[c] + 1 /\ s[n + 1] = 4 * r[c] + 3 /\ s[n + 2] = 4 * r[c] + 2
    BY <2>2, Zenon
  <2>3. RankOK(cfg, frames, current, s)
    BY <1>11, <2>2
  <2>4. s[c] < s[n] /\ s[n] < s[n + 1] /\ s[n] < s[n + 2] /\ s[n + 2] < s[n + 1]
    BY <2>20
  <2>5. Ranked(cfg', s)
    <3>1. CASE IfBegin
      <4>1. Along(s, {<<c, n>>, <<n, n + 2>>})
        BY <2>4 DEF Along
      <4> QED
        BY <3>1, <4>1, <2>3, IfBeginAdds DEF Adds, RankOK
    <3>2. CASE LoopBegin
      <4>1. Along(s, {<<c, n>>, <<n, n + 1>>, <<n, n + 2>>})
        BY <2>4 DEF Along
      <4> QED
        BY <3>2, <4>1, <2>3, LoopBeginAdds DEF Adds, RankOK
    <3> QED
      BY <1>13, <3>1, <3>2
  <2>6. \A i \in 1 .. m : s[n + 1] < s[Join(i)] /\ s[n + 2] < s[Join(i)]
    <3> SUFFICES ASSUME NEW i \in 1 .. m PROVE s[n + 1] < s[Join(i)] /\ s[n + 2] < s[Join(i)]
      OBVIOUS
    <3> DEFINE b == Join(i)
    <3>1. b \in Blocks(cfg)
      BY <1>1
    <3>2. c # NoBlock
      BY <1>2, <2>1
    <3>3. r[c] < r[b]
      BY <1>3, <3>2
    <3> HIDE DEF b
    <3>4. r[b] \in Nat /\ s[b] = 4 * r[b]
      BY <1>2, <2>2, <3>1, Zenon
    <3>5. s[n + 1] < s[b] /\ s[n + 2] < s[b]
      BY <2>20, <3>3, <3>4
    <3> QED
      BY <3>5 DEF b
  <2>7. \A i \in 1 .. m + 1 : i \in 1 .. m \/ i = m + 1
    BY <1>1
  <2>8. \A i \in 1 .. m + 1 : s[frames'[i].at] < s[frames'[i].join]
    BY <2>1, <2>3, <2>4, <2>7 DEF RankOK
  <2>9. \A i, j \in 1 .. m + 1 : i < j => s[frames'[j].join] < s[frames'[i].join]
    <3> SUFFICES ASSUME NEW i \in 1 .. m + 1, NEW j \in 1 .. m + 1, i < j
                 PROVE  s[frames'[j].join] < s[frames'[i].join]
      OBVIOUS
    <3>1. i \in 1 .. m
      BY <1>1
    <3>2. CASE j = m + 1
      BY <2>1, <2>6, <3>1, <3>2
    <3>3. CASE j \in 1 .. m
      BY <2>1, <2>3, <3>1, <3>3 DEF RankOK
    <3> QED
      BY <2>7, <3>2, <3>3
  <2>10. \A i \in 1 .. m + 1 : s[current'] < s[frames'[i].join]
    BY <2>1, <2>4, <2>6, <2>7
  <2>11. RankOK(cfg', frames', current', s)
    BY <2>1, <2>2, <2>5, <2>8, <2>9, <2>10 DEF RankOK
  <2> QED
    BY <2>2, <2>11
<1>14. CASE EndTrue
  <2> DEFINE s == [b \in Nat |-> IF b < n THEN 4 * r[b] ELSE 4 * r[At(m)] + 1]
             f == [Top(frames) EXCEPT !.k = "false"]
             u == To(Join(m)) \union {<<At(m), n>>}
  <2>1. /\ frames # <<>> /\ frames' = [frames EXCEPT ![m] = f] /\ current' = n
    BY <1>14 DEF EndTrue
  <2>2. m \in 1 .. m /\ Top(frames) = frames[m] /\ frames[m] \in Frame(cfg)
        /\ At(m) \in Blocks(cfg) /\ Join(m) \in Blocks(cfg)
    <3>1. m \in 1 .. m /\ Top(frames) = frames[m]
      BY <1>1, <2>1
    <3>2. frames[m] \in Frame(cfg)
      BY <1>1, <3>1
    <3> QED
      BY <1>1, <3>1, <3>2
  <2>3. Adds(cfg, cfg', u, {})
    BY <1>14, <2>2, EndTrueAdds
  <2>4. f.at = At(m) /\ f.join = Join(m)
    BY <2>2 DEF Frame
  <2> HIDE DEF f
  <2>5. /\ Len(frames') = m
        /\ \A i \in 1 .. m : frames'[i].at = At(i) /\ frames'[i].join = Join(i)
    BY <1>1, <2>1, <2>2, <2>4
  <2>6. Spread(s) /\ s[At(m)] = 4 * r[At(m)] /\ r[At(m)] \in Nat /\ s \in [Nat -> Nat]
        /\ s[n] = 4 * r[At(m)] + 1
    <3>1. r[At(m)] \in Nat
      BY <1>2, <2>2
    <3>2. s \in [Nat -> Nat]
      <4>1. \A b \in Nat : r[b] \in Nat
        BY <1>31
      <4>2. \A b \in Nat : 4 * r[b] \in Nat
        BY <4>1
      <4>3. 4 * r[At(m)] + 1 \in Nat
        BY <3>1
      <4> QED
        BY <4>2, <4>3
    <3>3. \A b \in Blocks(cfg) : s[b] = 4 * r[b]
      BY <1>2
    <3>4. s[n] = 4 * r[At(m)] + 1
      BY <1>0
    <3> HIDE DEF s
    <3> QED
      BY <2>2, <3>1, <3>2, <3>3, <3>4
  <2> HIDE DEF s
  <2>60. s[At(m)] = 4 * r[At(m)] /\ r[At(m)] \in Nat /\ s[n] = 4 * r[At(m)] + 1
    BY <2>6, Zenon
  <2>7. RankOK(cfg, frames, current, s)
    BY <1>11, <2>6
  <2>8. Along(s, u)
    <3>1. s[At(m)] < s[n]
      BY <2>60
    <3>2. c # NoBlock => s[c] < s[Join(m)]
      BY <2>2, <2>7 DEF RankOK
    <3>3. \A x \in u : x = <<At(m), n>> \/ (c # NoBlock /\ x = <<c, Join(m)>>)
      BY DEF To
    <3> HIDE DEF u
    <3>4. \A x \in u : s[x[1]] < s[x[2]]
      BY <3>1, <3>2, <3>3
    <3> QED
      BY <3>4 DEF Along
  <2> HIDE DEF u
  <2>9. Ranked(cfg', s)
    BY <2>3, <2>7, <2>8 DEF Adds, RankOK
  <2>10. \A i \in 1 .. m : s[n] < s[Join(i)]
    <3> SUFFICES ASSUME NEW i \in 1 .. m PROVE s[n] < s[Join(i)]
      OBVIOUS
    <3>1. r[At(m)] < r[Join(i)]
      <4>1. r[At(m)] < r[Join(m)]
        BY <1>3, <2>2
      <4>2. i = m \/ i < m
        BY <1>0
      <4>3. i < m => r[Join(m)] < r[Join(i)]
        BY <1>3, <2>2
      <4>4. r[At(m)] \in Nat /\ r[Join(m)] \in Nat
        BY <1>2, <2>2
      <4>5. Join(i) \in Blocks(cfg)
        BY <1>1
      <4>6. r[Join(i)] \in Nat
        BY <1>2, <4>5
      <4> QED
        BY <4>1, <4>2, <4>3, <4>4, <4>6
    <3>2. Join(i) \in Blocks(cfg)
      BY <1>1
    <3>3. r[Join(i)] \in Nat /\ s[Join(i)] = 4 * r[Join(i)]
      BY <1>2, <2>6, <3>2, ZenonT(60)
    <3>4. \A x, y \in Nat : x < y => 4 * x + 1 < 4 * y
      OBVIOUS
    <3>5. 4 * r[At(m)] + 1 < 4 * r[Join(i)]
      <4>1. r[At(m)] \in Nat /\ r[Join(i)] \in Nat
        BY <2>60, <3>3, Zenon
      <4> QED
        BY <3>1, <3>4, <4>1, Zenon
    <3> QED
      BY <2>60, <3>3, <3>5, ZenonT(60)
  <2>11. RankOK(cfg', frames', current', s)
    <3>1. /\ \A i \in 1 .. m : s[At(i)] < s[Join(i)]
          /\ \A i, j \in 1 .. m : i < j => s[Join(j)] < s[Join(i)]
      BY <2>7 DEF RankOK
    <3>2. /\ \A i \in 1 .. m : s[frames'[i].at] < s[frames'[i].join]
          /\ \A i, j \in 1 .. m : i < j => s[frames'[j].join] < s[frames'[i].join]
          /\ \A i \in 1 .. m : s[current'] < s[frames'[i].join]
      BY <2>1, <2>5, <2>10, <3>1, Zenon
    <3>3. s \in [Nat -> Nat]
      BY <2>6
    <3> QED
      BY <2>5, <2>9, <3>2, <3>3, ZenonT(60) DEF RankOK
  <2> QED
    BY <2>6, <2>11
<1> QED
  BY <1>6, <1>7, <1>8, <1>9, <1>10, <1>12, <1>13, <1>14 DEF Next, Stopped

\* The entry block alone can be ranked, and no step takes that away.
LEMMA CycleInit == Init => CycleInd
<1> SUFFICES ASSUME Init PROVE CycleInd
  OBVIOUS
<1> DEFINE r == [b \in Nat |-> 0]
<1>1. GraphInd /\ Edges(cfg) = {} /\ frames = <<>> /\ loops = <<>>
  BY GraphInit, EntryGraph DEF Init
<1>2. LoopsOpen
  BY <1>1 DEF LoopsOpen
<1>3. r \in [Nat -> Nat]
  OBVIOUS
<1> HIDE DEF r
<1>4. RankOK(cfg, frames, current, r)
  BY <1>1, <1>3 DEF RankOK, Ranked
<1> QED
  BY <1>1, <1>2, <1>4 DEF CycleInd

\* Nor does a step take it away from a graph that it grows.
LEMMA CycleStep == CycleInd /\ [Next]_vars => CycleInd'
<1> SUFFICES ASSUME CycleInd, [Next]_vars PROVE CycleInd'
  OBVIOUS
<1>1. GraphInd /\ LoopsOpen /\ \E r : RankOK(cfg, frames, current, r)
  BY DEF CycleInd
<1>2. GraphInd'
  BY <1>1, GraphStep
<1>3. LoopsOpen'
  BY <1>1, LoopsOpenStep
<1>4. \E s : RankOK(cfg', frames', current', s)
  BY <1>1, RankStep
<1> QED
  BY <1>2, <1>3, <1>4 DEF CycleInd

\* A set of numbers that has any has a least one.
LEMMA LeastNumber ==
  ASSUME NEW T \in SUBSET Nat, T # {}
  PROVE  \E m \in T : \A k \in T : m <= k
<1> DEFINE R == OpToRel(<, Nat)
<1>1. IsWellFoundedOn(R, Nat)
  BY NatLessThanWellFounded
<1>2. PICK m \in T : \A k \in T : ~ (<<k, m>> \in R)
  <2> HIDE DEF R
  <2> QED BY <1>1, WFMin
<1>3. \A k \in T : ~(k < m)
  BY <1>2 DEF OpToRel
<1> QED
  BY <1>3

\* What is reached in one step more.
Hop(s, E, reach, i) ==
  IF i = 0 THEN s
  ELSE LET known == reach[i - 1]
       IN  known \union {e[2] : e \in {x \in E : x[1] \in known}}

\* The recursion has a value, whatever the number of blocks: if there were none for some
\* number of steps, there would be a least one.
LEMMA ReachingIsDefined ==
  ASSUME cfg.n \in Nat, NEW s, NEW E
  PROVE  Reaching(s, E) = [i \in 0 .. cfg.n |-> Hop(s, E, Reaching(s, E), i)]
<1> DEFINE V(g, i) == Hop(s, E, g, i)
           Upto(g, n) == g = [i \in 0 .. n |-> V(g, i)]
           Bad == {n \in Nat : ~ \E g : Upto(g, n)}
<1>1. Bad = {}
  <2> SUFFICES ASSUME Bad # {} PROVE FALSE
    OBVIOUS
  <2>1. PICK m \in Bad : \A k \in Bad : m <= k
    BY LeastNumber
  <2>2. CASE m = 0
    <3> DEFINE g == [i \in 0 .. 0 |-> s]
    <3>1. Upto(g, 0)
      BY DEF Hop
    <3> QED
      BY <2>2, <3>1
  <2>3. CASE m # 0
    <3>1. m - 1 \in Nat /\ m - 1 \notin Bad
      <4>1. m \in Nat
        BY <2>1
      <4>2. m - 1 \in Nat /\ ~(m <= m - 1)
        BY <4>1, <2>3
      <4> HIDE DEF Bad
      <4> QED
        BY <4>2, <2>1
    <3>2. PICK h : Upto(h, m - 1)
      BY <3>1
    <3> DEFINE g == [i \in 0 .. m |-> IF i = m THEN V(h, m) ELSE h[i]]
    <3>3. ASSUME NEW i \in 0 .. m
          PROVE  g[i] = V(g, i)
      <4>1. CASE i = 0
        <5>1. h[0] = V(h, 0)
          <6>1. 0 \in 0 .. m - 1
            BY <3>1
          <6> HIDE DEF V
          <6> QED
            BY <6>1, <3>2
        <5> QED
          BY <4>1, <2>3, <5>1 DEF Hop
      <4>2. CASE i # 0
        <5>1. i - 1 \in 0 .. m /\ i - 1 # m /\ g[i - 1] = h[i - 1]
          BY <4>2
        <5> DEFINE a == g[i - 1]
        <5>2. V(g, i) = V(h, i)
          <6>1. i - 1 \in 0 .. m /\ g[i - 1] = h[i - 1]
            BY <5>1
          <6> HIDE DEF g
          <6> QED
            BY <6>1 DEF Hop
        <5>3. CASE i = m
          <6>1. g[i] = V(h, m)
            <7> HIDE DEF V
            <7> QED BY <5>3
          <6> QED
            BY <5>2, <5>3, <6>1
        <5>4. CASE i # m
          <6>1. i \in 0 .. m - 1
            BY <5>4
          <6>2. h[i] = V(h, i)
            <7> HIDE DEF V
            <7> QED BY <6>1, <3>2
          <6>3. g[i] = h[i]
            <7> HIDE DEF V
            <7> QED BY <5>4
          <6> QED
            BY <5>2, <6>2, <6>3
        <5> QED
          BY <5>3, <5>4
      <4> QED
        BY <4>1, <4>2
    <3>4. Upto(g, m)
      <4>1. g = [i \in 0 .. m |-> g[i]]
        OBVIOUS
      <4> HIDE DEF g, V
      <4> QED
        BY <4>1, <3>3
    <3> QED
      BY <3>4, <2>1
  <2> QED
    BY <2>2, <2>3
<1>2. \E g : Upto(g, cfg.n)
  BY <1>1
<1>3. Reaching(s, E) = CHOOSE g : Upto(g, cfg.n)
  BY DEF Reaching, Hop
<1>4. Upto(Reaching(s, E), cfg.n)
  <2> HIDE DEF Upto
  <2> QED BY <1>2, <1>3
<1> QED
  BY <1>4

\* Where r grows along the edges of E, it is nowhere less than at the start of the way.
LEMMA ReachedIsLater ==
  ASSUME cfg.n \in Nat, NEW r, NEW a \in Blocks(cfg), NEW E \in SUBSET (Blocks(cfg) \X Blocks(cfg)),
         \A b \in Blocks(cfg) : r[b] \in Nat, \A e \in E : r[e[1]] < r[e[2]]
  PROVE  \A b \in ReachFrom({a}, E) : b \in Blocks(cfg) /\ r[a] <= r[b]
<1> DEFINE f == Reaching({a}, E)
           Later(S) == \A b \in S : b \in Blocks(cfg) /\ r[a] <= r[b]
           Bad == {i \in Nat : i <= cfg.n /\ ~Later(f[i])}
<1>1. ASSUME NEW i \in 0 .. cfg.n
      PROVE  f[i] = Hop({a}, E, f, i)
  <2>1. f = [j \in 0 .. cfg.n |-> Hop({a}, E, f, j)]
    BY ReachingIsDefined
  <2> HIDE DEF f
  <2> QED
    BY <2>1
<1> HIDE DEF f
<1>2. Later({a})
  <2>1. r[a] \in Nat
    OBVIOUS
  <2>2. r[a] <= r[a]
    BY <2>1
  <2> QED
    BY <2>2
<1>3. Bad = {}
  <2> SUFFICES ASSUME Bad # {} PROVE FALSE
    OBVIOUS
  <2>1. PICK m \in Bad : \A k \in Bad : m <= k
    BY LeastNumber
  <2>2. m \in 0 .. cfg.n /\ ~Later(f[m])
    <3>1. m \in Nat /\ m <= cfg.n /\ ~Later(f[m])
      BY <2>1
    <3> HIDE DEF Later
    <3> QED
      BY <3>1
  <2>3. f[m] = Hop({a}, E, f, m)
    BY <1>1, <2>2
  <2>4. m # 0
    BY <1>2, <2>2, <2>3 DEF Hop
  <2>5. m - 1 \in Nat /\ m - 1 <= cfg.n /\ ~(m <= m - 1)
    BY <2>2, <2>4
  <2>6. m - 1 \notin Bad
    <3> HIDE DEF Bad
    <3> QED BY <2>1, <2>5
  <2> DEFINE known == f[m - 1]
  <2>7. Later(known)
    BY <2>5, <2>6
  <2>8. f[m] = known \union {e[2] : e \in {x \in E : x[1] \in known}}
    BY <2>3, <2>4 DEF Hop
  <2> HIDE DEF known
  <2>9. ASSUME NEW e \in E, e[1] \in known
        PROVE  e[2] \in Blocks(cfg) /\ r[a] <= r[e[2]]
    <3>1. e[1] \in Blocks(cfg) /\ e[2] \in Blocks(cfg) /\ r[e[1]] < r[e[2]]
      OBVIOUS
    <3>2. r[a] <= r[e[1]]
      BY <2>7, <2>9
    <3>3. r[a] \in Nat /\ r[e[1]] \in Nat /\ r[e[2]] \in Nat
      BY <3>1
    <3> QED
      BY <3>1, <3>2, <3>3
  <2> QED
    BY <2>2, <2>7, <2>8, <2>9
<1>4. cfg.n \notin Bad
  BY <1>3
<1>5. Later(f[cfg.n])
  BY <1>4
<1> QED
  BY <1>5 DEF ReachFrom, f

\* Every cycle of a graph that cfg_build has finished goes through a flagged edge, for
\* every value of the limits, whatever they made the builder leave out: what the blocks
\* can be ranked by grows along every other edge.
THEOREM CyclesAreFlaggedCorrect == Spec => []CyclesAreFlagged
<1>1. CycleInd => CyclesAreFlagged
  <2> DEFINE forward == Edges(cfg) \ BackEdges(cfg)
  <2> SUFFICES ASSUME CycleInd, NEW e \in forward
               PROVE  e[1] \notin ReachFrom({e[2]}, forward)
    BY DEF CyclesAreFlagged
  <2>1. PICK r : r \in [Nat -> Nat] /\ Ranked(cfg, r)
    BY DEF CycleInd, RankOK
  <2>2. cfg.n \in Nat /\ Blocks(cfg) = 0 .. cfg.n - 1
    BY Typed DEF CycleInd, GraphInd
  <2>3. \A b \in Blocks(cfg) : r[b] \in Nat
    BY <2>1, <2>2
  <2>4. forward \in SUBSET (Blocks(cfg) \X Blocks(cfg)) /\ \A x \in forward : r[x[1]] < r[x[2]]
    BY <2>1 DEF Edges, Ranked
  <2> HIDE DEF forward
  <2>5. e[1] \in Blocks(cfg) /\ e[2] \in Blocks(cfg) /\ r[e[1]] < r[e[2]]
    BY <2>4
  <2>6. \A b \in ReachFrom({e[2]}, forward) : b \in Blocks(cfg) /\ r[e[2]] <= r[b]
    BY <2>2, <2>3, <2>4, <2>5, ReachedIsLater
  <2>7. r[e[1]] \in Nat /\ r[e[2]] \in Nat /\ ~(r[e[2]] <= r[e[1]])
    BY <2>3, <2>5
  <2> QED
    BY <2>6, <2>7
<1> QED
  BY <1>1, CycleInit, CycleStep, PTL DEF Spec

(***************************************************************************)
(* The refinement: while nothing is reported, every step of the builder is *)
(* a step of StructuredFlow.  What it takes: the graph of GraphInd, the    *)
(* LoopStack of LoopStackInd, and flags on nothing but edges.              *)
(***************************************************************************)
FlowInd == GraphInd /\ LoopStackInd /\ (Silent(cfg) => Flags(cfg))

\* Every step only adds to the graph.
LEMMA StepAdds ==
  ASSUME GraphInd, [Next]_vars
  PROVE  \E e, f : Adds(cfg, cfg', e, f)
<1>1. CASE PlainStmt \/ Finish \/ TooManyBlocks \/ UNCHANGED vars
  BY <1>1, StillAdds
<1>2. CASE Return
  BY <1>2, ReturnAdds
<1>3. CASE IfBegin
  BY <1>3, IfBeginAdds
<1>4. CASE EndTrue
  BY <1>4, EndTrueAdds
<1>5. CASE EndFalse
  BY <1>5, EndFalseAdds
<1>6. CASE LoopBegin
  BY <1>6, LoopBeginAdds
<1>7. CASE EndBody
  BY <1>7, EndBodyAdds
<1>8. CASE Break
  BY <1>8, BreakAdds
<1>9. CASE Continue
  BY <1>9, ContinueAdds
<1> QED
  BY <1>1, <1>2, <1>3, <1>4, <1>5, <1>6, <1>7, <1>8, <1>9 DEF Next, Stopped

\* The walk begins with all that.
LEMMA FlowInit == Init => FlowInd
BY GraphInit, LoopStackInit, EntryGraph DEF FlowInd

\* Every step keeps it.
LEMMA FlowStep == FlowInd /\ [Next]_vars => FlowInd'
<1> SUFFICES ASSUME FlowInd, [Next]_vars PROVE FlowInd'
  OBVIOUS
<1>1. GraphInd' /\ LoopStackInd'
  BY GraphStep, LoopStackStep DEF FlowInd
<1>2. Silent(cfg') => Flags(cfg')
  <2>1. Silent(cfg') => Silent(cfg)
    BY ReportsStay DEF FlowInd, GraphInd
  <2>2. PICK e, f : Adds(cfg, cfg', e, f)
    BY StepAdds DEF FlowInd
  <2> QED
    BY <2>1, <2>2 DEF Adds, FlowInd
<1> QED
  BY <1>1, <1>2 DEF FlowInd

\* The new blocks of a step have the kinds ks.
KindsGrow(g, h, ks) ==
  /\ \A b \in Blocks(g) : h.kind[b] = g.kind[b]
  /\ \A i \in 1 .. Len(ks) : h.kind[g.n + i - 1] = ks[i]

\* The kinds are then those that StructuredFlow asks for.
LEMMA DrawsKinds ==
  ASSUME GraphOK(cfg), GraphOK(cfg'), NEW ks \in Seq(Kinds),
         cfg'.n = cfg.n + Len(ks), KindsGrow(cfg, cfg', ks)
  PROVE  Structured!New(ks)
<1>1. cfg.n \in Nat /\ Blocks(cfg) = 0 .. cfg.n - 1 /\ Blocks(cfg') = 0 .. cfg'.n - 1
      /\ Len(ks) \in Nat
  BY DEF GraphOK, GraphTypes, Blocks
<1>2. cfg'.kind = [b \in 0 .. cfg.n + Len(ks) - 1 |-> cfg'.kind[b]]
  <2>1. DOMAIN cfg'.kind = Blocks(cfg') /\ cfg'.kind = [b \in DOMAIN cfg'.kind |-> cfg'.kind[b]]
    BY DEF GraphOK, GraphTypes
  <2>2. Blocks(cfg') = 0 .. cfg.n + Len(ks) - 1
    BY <1>1
  <2> QED
    BY <2>1, <2>2
<1>3. ASSUME NEW b \in 0 .. cfg.n + Len(ks) - 1
      PROVE  cfg'.kind[b] = IF b < cfg.n THEN cfg.kind[b] ELSE ks[b - cfg.n + 1]
  <2>1. CASE b < cfg.n
    <3>1. b \in Blocks(cfg)
      BY <1>1, <2>1
    <3> QED
      BY <2>1, <3>1 DEF KindsGrow
  <2>2. CASE ~(b < cfg.n)
    <3> DEFINE i == b - cfg.n + 1
    <3>1. i \in 1 .. Len(ks) /\ cfg.n + i - 1 = b
      <4>1. \A n, l \in Nat : \A x \in 0 .. n + l - 1 :
              ~(x < n) => x - n + 1 \in 1 .. l /\ n + (x - n + 1) - 1 = x
        OBVIOUS
      <4>2. cfg.n \in Nat /\ Len(ks) \in Nat
        BY <1>1
      <4> QED
        BY <2>2, <4>1, <4>2, Zenon
    <3> HIDE DEF i
    <3>2. cfg'.kind[cfg.n + i - 1] = ks[i]
      BY <3>1 DEF KindsGrow
    <3>3. cfg'.kind[b] = ks[i]
      BY <3>1, <3>2
    <3> QED
      BY <2>2, <3>3 DEF i
  <2> QED
    BY <2>1, <2>2
<1>4. cfg'.kind = [b \in 0 .. cfg.n + Len(ks) - 1 |->
                     IF b < cfg.n THEN cfg.kind[b] ELSE ks[b - cfg.n + 1]]
  BY <1>2, <1>3
<1> QED
  BY <1>4 DEF Structured!New

\* While nothing is reported, the top of the LoopStack is the innermost open Loop
\* statement, and the stack is empty only outside all of them.
LEMMA TopIsInnermost ==
  ASSUME LoopStackInd, Silent(cfg)
  PROVE  /\ loops = <<>> => ~Structured!InsideLoop
         /\ loops # <<>> => \E i \in 1 .. Len(frames) :
              Structured!InnermostLoop(i)
                /\ Top(loops) = [header |-> frames[i].at, exit |-> frames[i].join]
<1> DEFINE m == Len(frames)
<1>1. /\ frames \in Seq(Frame(cfg)) /\ loops \in Seq(Loop(cfg)) /\ m \in Nat
      /\ Nesting /\ Len(loops) = Nest /\ Owned
  BY DEF LoopStackInd, TypeOK
<1>2. \A i \in 1 .. m : frames[i].nest \in Nat
  <2> SUFFICES ASSUME NEW i \in 1 .. m PROVE frames[i].nest \in Nat
    OBVIOUS
  <2>1. frames[i] \in Frame(cfg)
    BY <1>1
  <2> QED
    BY <2>1 DEF Frame
<1>3. m # 0 => Nest = frames[m].nest /\ m \in 1 .. m
  BY <1>1 DEF Nest, Top
<1>4. \A i \in 1 .. m : frames[i].nest <= Nest
  BY <1>1, <1>3 DEF Nesting
<1>5. \A i \in 1 .. m : NestUnder(i) \in Nat
  BY <1>1, <1>2 DEF NestUnder
<1>6. CASE loops = <<>>
  <2>1. Nest = 0
    BY <1>1, <1>6
  <2>2. ASSUME NEW i \in 1 .. m PROVE frames[i].k # "body"
    <3>1. frames[i].k = "body" => frames[i].nest = NestUnder(i) + 1
      BY <1>1 DEF Nesting
    <3> QED
      BY <1>2, <1>4, <1>5, <2>1, <3>1
  <2> QED
    BY <1>6, <2>2 DEF Structured!InsideLoop
<1>7. CASE loops # <<>>
  <2>1. Len(loops) \in Nat \ {0} /\ Top(loops) = loops[Nest]
    BY <1>1, <1>7 DEF Top
  <2>2. m # 0
    BY <1>1, <2>1 DEF Nest
  <2> DEFINE T == {i \in 1 .. m : frames[i].nest = Nest}
  <2>3. m \in T /\ T \in SUBSET Nat
    BY <1>3, <2>2
  <2>4. PICK i \in T : \A k \in T : i <= k
    <3> HIDE DEF T
    <3> QED BY <2>3, LeastNumber
  <2>5. i \in 1 .. m /\ frames[i].nest = Nest
    OBVIOUS
  <2>6. NestUnder(i) # Nest
    <3>1. CASE i = 1
      BY <1>1, <2>1, <3>1 DEF NestUnder
    <3>2. CASE i # 1
      <4>1. i - 1 \in 1 .. m /\ ~(i <= i - 1)
        BY <1>1, <2>5, <3>2
      <4>2. i - 1 \notin T
        <5> HIDE DEF T
        <5> QED BY <2>4, <4>1
      <4> QED
        BY <3>2, <4>1, <4>2 DEF NestUnder
    <3> QED
      BY <3>1, <3>2
  <2>7. frames[i].k = "body"
    <3>1. frames[i].k # "body" => frames[i].nest = NestUnder(i)
      BY <1>1, <2>5 DEF Nesting
    <3> QED
      BY <2>5, <2>6, <3>1
  <2>8. ASSUME NEW j \in i + 1 .. m PROVE frames[j].k # "body"
    <3>1. j \in 1 .. m /\ j # 1 /\ j - 1 \in 1 .. m /\ i <= j - 1
      BY <1>1, <2>5
    <3>2. frames[j].k = "body" => frames[j].nest = frames[j - 1].nest + 1
      BY <1>1, <3>1 DEF Nesting, NestUnder
    <3>3. Nest <= frames[j - 1].nest
      BY <1>1, <2>5, <3>1 DEF Nesting
    <3>4. frames[j].nest <= Nest /\ frames[j - 1].nest \in Nat /\ Nest \in Nat
      BY <1>2, <1>4, <2>5, <3>1
    <3>5. \A x, y \in Nat : ~(x <= y /\ y + 1 <= x)
      OBVIOUS
    <3> QED
      BY <3>2, <3>3, <3>4, <3>5, Zenon
  <2>9. Top(loops) = [header |-> frames[i].at, exit |-> frames[i].join]
    BY <1>1, <2>1, <2>5, <2>7 DEF Owned
  <2> QED
    BY <1>7, <2>5, <2>7, <2>8, <2>9 DEF Structured!InnermostLoop
<1> QED
  BY <1>6, <1>7

\* The refinement: every step of the builder is a step of StructuredFlow, or draws nothing.
LEMMA DrawStep ==
  FlowInd /\ [Next]_vars =>
    [Structured!Next /\ (~Silent(cfg) => ~Silent(cfg'))]_(Structured!flow)
<1> SUFFICES ASSUME FlowInd, [Next]_vars
             PROVE  [Structured!Next /\ (~Silent(cfg) => ~Silent(cfg'))]_(Structured!flow)
  OBVIOUS
<1>1. GraphInd /\ TypeOK /\ TypeOK' /\ LoopStackInd
  BY TypeStep DEF FlowInd, GraphInd
<1>2. Silent(cfg') => Silent(cfg) /\ Flags(cfg)
  BY <1>1, ReportsStay DEF FlowInd
<1>3. CASE ~Silent(cfg')
  <2>1. Structured!Next
    BY <1>3 DEF Structured!Next, Structured!GiveUp
  <2> QED
    BY <1>3, <2>1
<1>4. CASE Silent(cfg')
  <2> DEFINE n == cfg.n
             m == Len(frames)
             E == Edges(cfg)
             B == BackEdges(cfg)
  <2>1. /\ GraphOK(cfg) /\ GraphOK(cfg') /\ Silent(cfg) /\ Flags(cfg) /\ m \in Nat
        /\ frames # <<>> => Top(frames) = frames[m]
        /\ n \in Nat /\ Structured!NoBlock = NoBlock
    BY <1>1, <1>2, <1>4, Typed DEF TypeOK, Structured!NoBlock, NoBlock
  <2>2. ASSUME NEW e, Adds(cfg, cfg', e, {})
        PROVE  Edges(cfg') = E \union e /\ BackEdges(cfg') = B
    BY <1>4, <2>1, <2>2 DEF Adds
  <2>15. ASSUME NEW f, Adds(cfg, cfg', {}, f)
         PROVE  Edges(cfg') = E \union f /\ BackEdges(cfg') = B \union f
    BY <1>4, <2>1, <2>15 DEF Adds
  <2>3. \A b : Structured!GoTo(b) = To(b)
    BY <2>1 DEF Structured!GoTo, To
  <2>4. Structured!Innermost = frames[m]
    BY DEF Structured!Innermost
  <2>5. SUFFICES Structured!Next \/ UNCHANGED Structured!flow
    BY <1>4, <2>1
  <2>6. CASE PlainStmt \/ Finish \/ TooManyBlocks \/ UNCHANGED vars
    <3>1. /\ Adds(cfg, cfg', {}, {}) /\ cfg'.n = cfg.n /\ cfg'.kind = cfg.kind
          /\ UNCHANGED <<current, frames>>
      BY <1>1, <2>6, StillAdds
    <3>2. Edges(cfg') = E /\ BackEdges(cfg') = B
      BY <2>2, <3>1
    <3>3. UNCHANGED Structured!flow
      BY <1>4, <2>1, <3>1, <3>2 DEF Structured!flow
    <3> QED
      BY <3>3
  <2>7. CASE Return
    <3>1. current # NoBlock /\ current' = NoBlock /\ frames' = frames
      BY <2>7 DEF Return, Live
    <3>2. /\ Adds(cfg, cfg', {<<current, n>>}, {}) /\ cfg'.n = n + 1 /\ cfg'.kind[n] = "RETURN"
      BY <1>1, <2>7, ReturnAdds
    <3>3. Edges(cfg') = E \union To(n) /\ BackEdges(cfg') = B
      <4>1. To(n) = {<<current, n>>}
        BY <3>1 DEF To
      <4> QED
        BY <2>2, <3>2, <4>1
    <3>4. Structured!New(<<"RETURN">>)
      <4> DEFINE ks == <<"RETURN">>
      <4>1. ks \in Seq(Kinds) /\ Len(ks) = 1 /\ ks[1] = "RETURN"
        BY DEF Kinds
      <4> HIDE DEF ks
      <4>2. KindsGrow(cfg, cfg', ks)
        BY <2>1, <3>2, <4>1 DEF KindsGrow, Adds
      <4>3. Structured!New(ks)
        BY <2>1, <3>2, <4>1, <4>2, DrawsKinds
      <4> QED
        BY <4>3 DEF ks
    <3>5. Structured!Return
      BY <1>4, <2>1, <2>3, <3>1, <3>3, <3>4 DEF Structured!Return, Structured!Here
    <3> QED
      BY <3>5 DEF Structured!Next
  <2>8. CASE IfBegin
    <3>1. /\ current # NoBlock /\ current' = n + 2
          /\ frames' = Append(frames, [k |-> "true", at |-> n, join |-> n + 1, nest |-> Nest])
      BY <2>8 DEF IfBegin, Live, Push
    <3>2. /\ Adds(cfg, cfg', {<<current, n>>, <<n, n + 2>>}, {}) /\ cfg'.n = n + 3
          /\ cfg'.kind[n] = "IF" /\ cfg'.kind[n + 1] = "MERGE" /\ cfg'.kind[n + 2] = "IF_TRUE"
      BY <1>1, <2>8, IfBeginAdds
    <3>3. Edges(cfg') = E \union To(n) \union {<<n, n + 2>>} /\ BackEdges(cfg') = B
      <4>1. To(n) = {<<current, n>>}
        BY <3>1 DEF To
      <4> QED
        BY <2>2, <3>2, <4>1
    <3>4. Structured!New(<<"IF", "MERGE", "IF_TRUE">>)
      <4> DEFINE ks == <<"IF", "MERGE", "IF_TRUE">>
      <4>1. ks \in Seq(Kinds) /\ Len(ks) = 3 /\ ks[1] = "IF" /\ ks[2] = "MERGE" /\ ks[3] = "IF_TRUE"
        BY DEF Kinds
      <4> HIDE DEF ks
      <4>2. KindsGrow(cfg, cfg', ks)
        <5>1. \A i \in 1 .. Len(ks) : i = 1 \/ i = 2 \/ i = 3
          BY <4>1
        <5>2. n + 1 - 1 = n /\ n + 2 - 1 = n + 1 /\ n + 3 - 1 = n + 2
          BY <2>1
        <5> QED
          BY <3>2, <4>1, <5>1, <5>2 DEF KindsGrow, Adds
      <4>3. Structured!New(ks)
        BY <2>1, <3>2, <4>1, <4>2, DrawsKinds
      <4> QED
        BY <4>3 DEF ks
    <3>5. Structured!Open("true", n, n + 1)
      BY <3>1 DEF Structured!Open, Nest, Top
    <3>6. Structured!If
      BY <1>4, <2>1, <2>3, <3>1, <3>3, <3>4, <3>5 DEF Structured!If, Structured!Here
    <3> QED
      BY <3>6 DEF Structured!Next
  <2>9. CASE LoopBegin
    <3>1. /\ current # NoBlock /\ current' = n + 2
          /\ frames' = Append(frames, [k |-> "body", at |-> n, join |-> n + 1, nest |-> Nest + 1])
      BY <2>9 DEF LoopBegin, Live, Push
    <3>2. /\ Adds(cfg, cfg', {<<current, n>>, <<n, n + 1>>, <<n, n + 2>>}, {}) /\ cfg'.n = n + 3
          /\ cfg'.kind[n] = "LOOP_HEADER" /\ cfg'.kind[n + 1] = "LOOP_EXIT"
          /\ cfg'.kind[n + 2] = "LOOP_BODY"
      BY <1>1, <2>9, LoopBeginAdds
    <3>3. Edges(cfg') = E \union To(n) \union {<<n, n + 1>>, <<n, n + 2>>} /\ BackEdges(cfg') = B
      <4>1. To(n) = {<<current, n>>}
        BY <3>1 DEF To
      <4> QED
        BY <2>2, <3>2, <4>1
    <3>4. Structured!New(<<"LOOP_HEADER", "LOOP_EXIT", "LOOP_BODY">>)
      <4> DEFINE ks == <<"LOOP_HEADER", "LOOP_EXIT", "LOOP_BODY">>
      <4>1. /\ ks \in Seq(Kinds) /\ Len(ks) = 3
            /\ ks[1] = "LOOP_HEADER" /\ ks[2] = "LOOP_EXIT" /\ ks[3] = "LOOP_BODY"
        BY DEF Kinds
      <4> HIDE DEF ks
      <4>2. KindsGrow(cfg, cfg', ks)
        <5>1. \A i \in 1 .. Len(ks) : i = 1 \/ i = 2 \/ i = 3
          BY <4>1
        <5>2. n + 1 - 1 = n /\ n + 2 - 1 = n + 1 /\ n + 3 - 1 = n + 2
          BY <2>1
        <5> QED
          BY <3>2, <4>1, <5>1, <5>2 DEF KindsGrow, Adds
      <4>3. Structured!New(ks)
        BY <2>1, <3>2, <4>1, <4>2, DrawsKinds
      <4> QED
        BY <4>3 DEF ks
    <3>5. Structured!Open("body", n, n + 1)
      BY <3>1 DEF Structured!Open, Nest, Top
    <3>6. Structured!Loop
      BY <1>4, <2>1, <2>3, <3>1, <3>3, <3>4, <3>5 DEF Structured!Loop, Structured!Here
    <3> QED
      BY <3>6 DEF Structured!Next
  <2>10. CASE EndTrue
    <3>1. /\ frames # <<>> /\ frames[m].k = "true" /\ current' = n
          /\ frames' = [frames EXCEPT ![m] = [frames[m] EXCEPT !.k = "false"]]
      BY <2>1, <2>10 DEF EndTrue
    <3>2. /\ Adds(cfg, cfg', To(frames[m].join) \union {<<frames[m].at, n>>}, {})
          /\ cfg'.n = n + 1 /\ cfg'.kind[n] = "IF_FALSE"
      BY <1>1, <2>1, <2>10, <3>1, EndTrueAdds
    <3>3. Edges(cfg') = E \union To(frames[m].join) \union {<<frames[m].at, n>>}
          /\ BackEdges(cfg') = B
      <4> DEFINE u == To(frames[m].join) \union {<<frames[m].at, n>>}
      <4>1. Edges(cfg') = E \union u /\ BackEdges(cfg') = B
        BY <2>2, <3>2
      <4> QED
        BY <4>1
    <3>4. Structured!New(<<"IF_FALSE">>)
      <4> DEFINE ks == <<"IF_FALSE">>
      <4>1. ks \in Seq(Kinds) /\ Len(ks) = 1 /\ ks[1] = "IF_FALSE"
        BY DEF Kinds
      <4> HIDE DEF ks
      <4>2. KindsGrow(cfg, cfg', ks)
        BY <2>1, <3>2, <4>1 DEF KindsGrow, Adds
      <4>3. Structured!New(ks)
        BY <2>1, <3>2, <4>1, <4>2, DrawsKinds
      <4> QED
        BY <4>3 DEF ks
    <3>5. Structured!Else
      BY <1>4, <2>3, <2>4, <3>1, <3>3, <3>4 DEF Structured!Else
    <3> QED
      BY <3>5 DEF Structured!Next
  <2>11. CASE EndFalse
    <3>1. /\ frames # <<>> /\ frames[m].k = "false" /\ current' = frames[m].join
          /\ frames' = SubSeq(frames, 1, m - 1)
      BY <2>1, <2>11 DEF EndFalse, Pop
    <3>2. Adds(cfg, cfg', To(frames[m].join), {}) /\ cfg'.n = n /\ cfg'.kind = cfg.kind
      BY <1>1, <2>1, <2>11, <3>1, EndFalseAdds
    <3>3. Edges(cfg') = E \union To(frames[m].join) /\ BackEdges(cfg') = B
      BY <2>2, <3>2
    <3>4. Structured!EndIf
      BY <1>4, <2>3, <2>4, <3>1, <3>2, <3>3 DEF Structured!EndIf, Structured!Close
    <3> QED
      BY <3>4 DEF Structured!Next
  <2>12. CASE EndBody
    <3>1. /\ frames # <<>> /\ frames[m].k = "body" /\ current' = frames[m].join
          /\ frames' = SubSeq(frames, 1, m - 1)
      BY <2>1, <2>12 DEF EndBody, Pop
    <3>2. Adds(cfg, cfg', {}, To(frames[m].at)) /\ cfg'.n = n /\ cfg'.kind = cfg.kind
      BY <1>1, <2>1, <2>12, <3>1, EndBodyAdds
    <3>3. Edges(cfg') = E \union To(frames[m].at) /\ BackEdges(cfg') = B \union To(frames[m].at)
      BY <2>15, <3>2
    <3>4. Structured!EndLoop
      BY <1>4, <2>3, <2>4, <3>1, <3>2, <3>3 DEF Structured!EndLoop, Structured!Close
    <3> QED
      BY <3>4 DEF Structured!Next
  <2>13. CASE Break
    <3>1. current # NoBlock /\ current' = NoBlock /\ frames' = frames
      BY <2>13 DEF Break, Live
    <3>2. cfg'.n = n /\ cfg'.kind = cfg.kind
      BY <1>1, <2>13, BreakAdds
    <3>3. CASE loops = <<>>
      <4>1. Edges(cfg') = E /\ BackEdges(cfg') = B
        <5>1. Adds(cfg, cfg', {}, {})
          BY <1>1, <2>13, <3>3, BreakAdds
        <5> QED
          BY <2>2, <5>1
      <4>2. ~Structured!InsideLoop
        BY <1>1, <2>1, <3>3, TopIsInnermost
      <4>3. Structured!Break
        BY <1>4, <2>1, <3>1, <3>2, <4>1, <4>2 DEF Structured!Break, Structured!Here
      <4> QED
        BY <4>3 DEF Structured!Next
    <3>4. CASE loops # <<>>
      <4>1. PICK i \in 1 .. m :
              /\ Structured!InnermostLoop(i)
              /\ Top(loops) = [header |-> frames[i].at, exit |-> frames[i].join]
        BY <1>1, <2>1, <3>4, TopIsInnermost
      <4>2. Adds(cfg, cfg', {<<current, frames[i].join>>}, {})
        BY <1>1, <2>13, <3>4, <4>1, BreakAdds
      <4>3. Edges(cfg') = E \union To(frames[i].join) /\ BackEdges(cfg') = B
        <5>1. To(frames[i].join) = {<<current, frames[i].join>>}
          BY <3>1 DEF To
        <5> QED
          BY <2>2, <4>2, <5>1
      <4>4. Structured!Break
        BY <1>4, <2>1, <2>3, <3>1, <3>2, <4>1, <4>3 DEF Structured!Break, Structured!Here
      <4> QED
        BY <4>4 DEF Structured!Next
    <3> QED
      BY <3>3, <3>4
  <2>14. CASE Continue
    <3>1. current # NoBlock /\ current' = NoBlock /\ frames' = frames
      BY <2>14 DEF Continue, Live
    <3>2. cfg'.n = n /\ cfg'.kind = cfg.kind
      BY <1>1, <2>14, ContinueAdds
    <3>3. CASE loops = <<>>
      <4>1. Edges(cfg') = E /\ BackEdges(cfg') = B
        <5>1. Adds(cfg, cfg', {}, {})
          BY <1>1, <2>14, <3>3, ContinueAdds
        <5> QED
          BY <2>2, <5>1
      <4>2. ~Structured!InsideLoop
        BY <1>1, <2>1, <3>3, TopIsInnermost
      <4>3. Structured!Continue
        BY <1>4, <2>1, <3>1, <3>2, <4>1, <4>2 DEF Structured!Continue, Structured!Here
      <4> QED
        BY <4>3 DEF Structured!Next
    <3>4. CASE loops # <<>>
      <4>1. PICK i \in 1 .. m :
              /\ Structured!InnermostLoop(i)
              /\ Top(loops) = [header |-> frames[i].at, exit |-> frames[i].join]
        BY <1>1, <2>1, <3>4, TopIsInnermost
      <4>2. Adds(cfg, cfg', {}, {<<current, frames[i].at>>})
        BY <1>1, <2>14, <3>4, <4>1, ContinueAdds
      <4>3. Edges(cfg') = E \union To(frames[i].at) /\ BackEdges(cfg') = B \union To(frames[i].at)
        <5>1. To(frames[i].at) = {<<current, frames[i].at>>}
          BY <3>1 DEF To
        <5> QED
          BY <2>15, <4>2, <5>1
      <4>4. Structured!Continue
        BY <1>4, <2>1, <2>3, <3>1, <3>2, <4>1, <4>3 DEF Structured!Continue, Structured!Here
      <4> QED
        BY <4>4 DEF Structured!Next
    <3> QED
      BY <3>3, <3>4
  <2> QED
    BY <2>6, <2>7, <2>8, <2>9, <2>10, <2>11, <2>12, <2>13, <2>14 DEF Next, Stopped
<1> QED
  BY <1>3, <1>4

\* cfg_build draws the flow of control that the nesting of the statements means, for every
\* function and every value of the limits, until it reports one: no edge is lost in silence,
\* no flag is on another edge, and no jump goes to another loop than the innermost one.
THEOREM DrawsStructuredFlowCorrect == Spec => DrawsStructuredFlow
<1>1. Init => Structured!Init
  <2> SUFFICES ASSUME Init PROVE Structured!Init
    OBVIOUS
  <2>1. Edges(cfg) = {} /\ BackEdges(cfg) = {} /\ cfg.kind = [b \in {0} |-> "ENTRY"]
    BY EntryGraph
  <2>2. cfg = EntryOnly /\ current = 0 /\ frames = <<>>
    BY DEF Init
  <2>3. cfg.n = 1 /\ Silent(cfg)
    BY <2>2 DEF EntryOnly, Silent
  <2> QED
    BY <2>1, <2>2, <2>3 DEF Structured!Init
<1>2. FlowInd /\ [Next]_vars =>
        [Structured!Next /\ (~Silent(cfg) => ~Silent(cfg)')]_(Structured!flow)
  BY DrawStep
<1> QED
  BY <1>1, <1>2, FlowInit, FlowStep, PTL DEF Spec, DrawsStructuredFlow, Structured!Spec

(***************************************************************************)
(* Natural loops.  The blocks that a Loop statement made, but for the one  *)
(* that follows it, are a region: from outside, the only way in is through *)
(* its header, and every flagged edge is one from the region of a header   *)
(* to that header.                                                         *)
(***************************************************************************)
\* The blocks that are reached are the least set with those of s that the edges of E do not
\* leave: the number of steps that ReachFrom takes is enough to get everywhere.
Closed(S, E) == \A e \in E : e[1] \in S => e[2] \in S

\* How the steps go.
LEMMA ReachSteps ==
  ASSUME cfg.n \in Nat, NEW s, NEW E, NEW f, f = Reaching(s, E)
  PROVE  /\ f[0] = s
         /\ \A i \in 1 .. cfg.n :
              f[i] = f[i - 1] \union {e[2] : e \in {x \in E : x[1] \in f[i - 1]}}
<1>1. ASSUME NEW i \in 0 .. cfg.n
      PROVE  f[i] = Hop(s, E, f, i)
  <2> DEFINE h == [j \in 0 .. cfg.n |-> Hop(s, E, f, j)]
  <2>1. f = h
    BY ReachingIsDefined
  <2>2. h[i] = Hop(s, E, f, i)
    OBVIOUS
  <2> HIDE DEF h
  <2> QED
    BY <2>1, <2>2
<1>2. f[0] = s
  <2>1. 0 \in 0 .. cfg.n
    OBVIOUS
  <2>2. f[0] = Hop(s, E, f, 0)
    BY <1>1, <2>1
  <2> QED
    BY <2>2 DEF Hop
<1>3. ASSUME NEW i \in 1 .. cfg.n
      PROVE  f[i] = f[i - 1] \union {e[2] : e \in {x \in E : x[1] \in f[i - 1]}}
  <2>1. i \in 0 .. cfg.n /\ i # 0
    OBVIOUS
  <2>2. f[i] = Hop(s, E, f, i)
    BY <1>1, <2>1
  <2> QED
    BY <2>1, <2>2 DEF Hop
<1> QED
  BY <1>2, <1>3

\* Nothing is reached that is not in every such set.
LEMMA ReachedIsLeast ==
  ASSUME cfg.n \in Nat, NEW s, NEW E, NEW R, s \subseteq R, Closed(R, E)
  PROVE  ReachFrom(s, E) \subseteq R
<1> DEFINE f == Reaching(s, E)
           Bad == {i \in Nat : i <= cfg.n /\ ~(f[i] \subseteq R)}
<1>1. /\ f[0] = s
      /\ \A i \in 1 .. cfg.n :
           f[i] = f[i - 1] \union {e[2] : e \in {x \in E : x[1] \in f[i - 1]}}
  <2>1. f = Reaching(s, E)
    OBVIOUS
  <2> HIDE DEF f
  <2> QED
    BY <2>1, ReachSteps
<1> HIDE DEF f
<1>2. Bad = {}
  <2> SUFFICES ASSUME Bad # {} PROVE FALSE
    OBVIOUS
  <2>1. PICK m \in Bad : \A k \in Bad : m <= k
    BY LeastNumber
  <2>2. m \in Nat /\ m <= cfg.n /\ ~(f[m] \subseteq R)
    BY <2>1
  <2>3. m # 0
    BY <1>1, <2>2
  <2>4. m - 1 \in Nat /\ m - 1 <= cfg.n /\ ~(m <= m - 1) /\ m \in 1 .. cfg.n
    BY <2>2, <2>3
  <2>5. m - 1 \notin Bad
    <3> HIDE DEF Bad
    <3> QED BY <2>1, <2>4
  <2> DEFINE known == f[m - 1]
  <2>6. known \subseteq R
    BY <2>4, <2>5
  <2>7. f[m] = known \union {e[2] : e \in {x \in E : x[1] \in known}}
    BY <1>1, <2>4
  <2> HIDE DEF known
  <2> QED
    BY <2>2, <2>6, <2>7 DEF Closed
<1>3. f[cfg.n] \subseteq R
  BY <1>2
<1> QED
  BY <1>3 DEF ReachFrom, f

\* A step that gets nowhere is the last, and there are no more blocks than steps.
LEMMA ReachedIsClosed ==
  ASSUME cfg.n \in Nat, NEW s \in SUBSET Blocks(cfg),
         NEW E \in SUBSET (Blocks(cfg) \X Blocks(cfg))
  PROVE  /\ s \subseteq ReachFrom(s, E) /\ ReachFrom(s, E) \subseteq Blocks(cfg)
         /\ Closed(ReachFrom(s, E), E)
<1> DEFINE f == Reaching(s, E)
           Good(i) == /\ s \subseteq f[i] /\ f[i] \subseteq Blocks(cfg)
                      /\ Closed(f[i], E) \/ Cardinality(f[i]) >= i + 1
           Bad == {i \in Nat : i <= cfg.n /\ ~Good(i)}
<1>1. /\ f[0] = s
      /\ \A i \in 1 .. cfg.n :
           f[i] = f[i - 1] \union {e[2] : e \in {x \in E : x[1] \in f[i - 1]}}
  <2>1. f = Reaching(s, E)
    OBVIOUS
  <2> HIDE DEF f
  <2> QED
    BY <2>1, ReachSteps
<1>2. /\ IsFiniteSet(Blocks(cfg)) /\ Cardinality(Blocks(cfg)) = cfg.n
      /\ \A T \in SUBSET Blocks(cfg) :
           IsFiniteSet(T) /\ Cardinality(T) \in Nat /\ Cardinality(T) <= cfg.n
  <2>1. 0 \in Int /\ cfg.n - 1 \in Int
    OBVIOUS
  <2>2. IsFiniteSet(0 .. cfg.n - 1)
        /\ Cardinality(0 .. cfg.n - 1) = IF 0 > cfg.n - 1 THEN 0 ELSE cfg.n - 1 - 0 + 1
    BY <2>1, FS_Interval
  <2>3. IsFiniteSet(Blocks(cfg)) /\ Cardinality(Blocks(cfg)) = cfg.n
    BY <2>2 DEF Blocks
  <2> QED
    BY <2>3, FS_Subset, FS_CardinalityType
<1> HIDE DEF f
<1>3. Good(0)
  <2>1. CASE s = {}
    BY <1>1, <2>1 DEF Closed
  <2>2. CASE s # {}
    <3>1. Cardinality(s) # 0 /\ Cardinality(s) \in Nat
      BY <1>2, <2>2, FS_EmptySet
    <3> QED
      BY <1>1, <3>1
  <2> QED
    BY <2>1, <2>2
<1>4. ASSUME NEW i \in 1 .. cfg.n, Good(i - 1)
      PROVE  Good(i)
  <2> DEFINE known == f[i - 1]
             next == f[i]
  <2>1. next = known \union {e[2] : e \in {x \in E : x[1] \in known}}
    BY <1>1
  <2>2. s \subseteq known /\ known \subseteq Blocks(cfg)
        /\ (Closed(known, E) \/ Cardinality(known) >= i - 1 + 1)
    BY <1>4
  <2> HIDE DEF known, next
  <2>3. s \subseteq next /\ next \subseteq Blocks(cfg) /\ known \subseteq next
    BY <2>1, <2>2
  <2>4. CASE Closed(known, E)
    <3>1. next = known
      BY <2>1, <2>4 DEF Closed
    <3> QED
      BY <2>3, <2>4, <3>1 DEF next
  <2>5. CASE ~Closed(known, E)
    <3>1. next # known
      BY <2>1, <2>5 DEF Closed
    <3>2. /\ IsFiniteSet(next) /\ Cardinality(next) \in Nat /\ Cardinality(known) \in Nat
          /\ known \in SUBSET next
      BY <1>2, <2>2, <2>3
    <3>3. Cardinality(known) <= Cardinality(next) /\ Cardinality(next) # Cardinality(known)
      BY <3>1, <3>2, FS_Subset
    <3>4. Cardinality(next) >= i + 1
      BY <2>2, <2>5, <3>2, <3>3
    <3> QED
      BY <2>3, <3>4 DEF next
  <2> QED
    BY <2>4, <2>5
<1>5. Bad = {}
  <2> SUFFICES ASSUME Bad # {} PROVE FALSE
    OBVIOUS
  <2>1. PICK m \in Bad : \A k \in Bad : m <= k
    BY LeastNumber
  <2>2. m \in Nat /\ m <= cfg.n /\ ~Good(m)
    BY <2>1
  <2> HIDE DEF Good
  <2>3. m # 0
    BY <1>3, <2>2
  <2>4. m - 1 \in Nat /\ m - 1 <= cfg.n /\ ~(m <= m - 1) /\ m \in 1 .. cfg.n
    BY <2>2, <2>3
  <2>5. m - 1 \notin Bad
    <3> HIDE DEF Bad
    <3> QED BY <2>1, <2>4
  <2>6. Good(m - 1)
    BY <2>4, <2>5
  <2> QED
    BY <1>4, <2>2, <2>4, <2>6
<1>6. Good(cfg.n)
  <2> HIDE DEF Good
  <2> QED BY <1>5
<1>7. f[cfg.n] = ReachFrom(s, E)
  BY DEF ReachFrom, f
<1>8. Closed(f[cfg.n], E)
  <2>1. Cardinality(f[cfg.n]) <= cfg.n /\ Cardinality(f[cfg.n]) \in Nat
    BY <1>2, <1>6
  <2> QED
    BY <1>6, <2>1
<1> QED
  BY <1>6, <1>7, <1>8

-----------------------------------------------------------------------------
\* The region of a header h: z[h] is its last block, or MaxBlocks while the loop is open.
In(z, h, b) == h <= b /\ b <= z[h] /\ b # h + 1

Headers(g) == {h \in Blocks(g) : g.kind[h] = "LOOP_HEADER"}

\* x does not enter the region of h but through h
Keeps(z, h, x) == In(z, h, x[2]) => In(z, h, x[1]) \/ x[2] = h

EdgesOK(g, z) ==
  /\ \A x \in Edges(g) : x[2] # 0 /\ \A h \in Headers(g) : Keeps(z, h, x)
  /\ \A x \in BackEdges(g) : x[2] \in Headers(g) /\ In(z, x[2], x[1])

\* the loops that are open are the bodies on the stack, and what is left to do is outside
\* of the others
OpenAt(fs, z, h) ==
  z[h] = MaxBlocks /\ \E i \in 1 .. Len(fs) : fs[i].k = "body" /\ fs[i].at = h

ClosedAt(g, fs, c, z, h) ==
  /\ z[h] < g.n /\ ~In(z, h, c)
  /\ \A i \in 1 .. Len(fs) : ~In(z, h, fs[i].at) /\ ~In(z, h, fs[i].join)

FramesOK(g, fs, c, z) ==
  /\ \A i \in 1 .. Len(fs) : fs[i].k = "body" => fs[i].at \in Headers(g) /\ z[fs[i].at] = MaxBlocks
  /\ \A h \in Headers(g) : OpenAt(fs, z, h) \/ ClosedAt(g, fs, c, z, h)

RegionOK(g, fs, c, z) ==
  z \in [Nat -> Nat] /\ g.kind[0] = "ENTRY" /\ EdgesOK(g, z) /\ FramesOK(g, fs, c, z)

RegionInd == FlowInd /\ (Silent(cfg) => \E z : RegionOK(cfg, frames, current, z))

\* A header is as old as its block.
LEMMA NewHeader ==
  ASSUME NEW g, NEW k, GraphOK(g), GraphOK(k),
         \A b \in Blocks(g) : k.kind[b] = g.kind[b], NEW h \in Headers(k)
  PROVE  h \in Headers(g) \/ (h >= g.n /\ h \in Nat)
<1>1. Blocks(g) = 0 .. g.n - 1 /\ g.n \in Nat /\ Blocks(k) = 0 .. k.n - 1 /\ k.n \in Nat
  BY BlocksOf
<1>2. h \in 0 .. k.n - 1 /\ k.kind[h] = "LOOP_HEADER"
  BY <1>1 DEF Headers
<1>3. h \in 0 .. g.n - 1 => h \in Headers(g)
  BY <1>1, <1>2 DEF Headers
<1> QED
  BY <1>1, <1>2, <1>3

\* What a step adds to the edges.
LEMMA EdgesGrow ==
  ASSUME GraphInd, NEW z, EdgesOK(cfg, z), NEW s \in [Nat -> Nat],
         NEW e, NEW f, Adds(cfg, cfg', e, f), Silent(cfg'), Flags(cfg),
         \A h \in Headers(cfg), b \in Blocks(cfg) : In(s, h, b) <=> In(z, h, b),
         \A x \in e \union f : x[2] # 0 /\ \A h \in Headers(cfg') : Keeps(s, h, x),
         \A x \in f : x[2] \in Headers(cfg') /\ In(s, x[2], x[1])
  PROVE  EdgesOK(cfg', s)
<1>1. /\ Edges(cfg') = Edges(cfg) \union e \union f /\ BackEdges(cfg') = BackEdges(cfg) \union f
      /\ Blocks(cfg) \subseteq Blocks(cfg') /\ \A b \in Blocks(cfg) : cfg'.kind[b] = cfg.kind[b]
      /\ GraphOK(cfg')
  BY DEF Adds
<1>2. /\ Blocks(cfg) = 0 .. cfg.n - 1 /\ cfg.n \in Nat
      /\ Blocks(cfg') = 0 .. cfg'.n - 1 /\ cfg'.n \in Nat
  BY <1>1, Typed, BlocksOf DEF GraphInd
<1>3. ASSUME NEW h \in Headers(cfg')
      PROVE  h \in Headers(cfg) \/ (h >= cfg.n /\ h \in Nat)
  BY <1>1, NewHeader, Typed DEF GraphInd
<1>4. ASSUME NEW x \in Edges(cfg), NEW h \in Headers(cfg')
      PROVE  Keeps(s, h, x)
  <2>1. x[1] \in Blocks(cfg) /\ x[2] \in Blocks(cfg)
    BY DEF Edges
  <2>2. CASE h \in Headers(cfg)
    BY <2>1, <2>2 DEF EdgesOK, Keeps
  <2>3. CASE h >= cfg.n /\ h \in Nat
    <3>1. x[2] < h /\ x[2] \in Nat
      <4>1. \A m, k \in Nat : k >= m => \A t \in 0 .. m - 1 : t < k /\ t \in Nat
        OBVIOUS
      <4>2. x[2] \in 0 .. cfg.n - 1
        BY <1>2, <2>1
      <4> QED
        BY <1>2, <2>3, <4>1, <4>2
    <3>2. ~(h <= x[2])
      BY <2>3, <3>1
    <3> QED
      BY <3>2 DEF Keeps, In
  <2> QED
    BY <1>3, <2>2, <2>3
<1>5. ASSUME NEW x \in BackEdges(cfg)
      PROVE  x[2] \in Headers(cfg') /\ In(s, x[2], x[1])
  <2>1. x[1] \in Blocks(cfg) /\ x[2] \in Headers(cfg) /\ In(z, x[2], x[1])
    BY DEF EdgesOK, BackEdges
  <2>2. x[2] \in Headers(cfg')
    BY <1>1, <2>1 DEF Headers
  <2> QED
    BY <2>1, <2>2
<1>6. ASSUME NEW x \in Edges(cfg')
      PROVE  x[2] # 0 /\ \A h \in Headers(cfg') : Keeps(s, h, x)
  <2>1. CASE x \in Edges(cfg)
    BY <1>4, <2>1 DEF EdgesOK
  <2>2. CASE x \in e \union f
    BY <2>2
  <2> QED
    BY <1>1, <2>1, <2>2
<1> QED
  BY <1>1, <1>5, <1>6 DEF EdgesOK

\* An edge to a block that is new or waits to be filled, from the end of a list or from
\* the condition of an If, is inside of every open loop, or goes to its header or its exit.
Waits(b) == b >= cfg.n \/ \E i \in 1 .. Len(frames) : b = frames[i].at \/ b = frames[i].join

Within(b) == \A i \in 1 .. Len(frames) : frames[i].k = "body" => frames[i].join < b

LEMMA EdgeInside ==
  ASSUME GraphInd, NEW z, RegionOK(cfg, frames, current, z),
         NEW a \in 0 .. MaxBlocks - 1, NEW b \in 0 .. MaxBlocks - 1, Within(a), Waits(b)
  PROVE  \A h \in Headers(cfg) : Keeps(z, h, <<a, b>>)
<1> SUFFICES ASSUME NEW h \in Headers(cfg), In(z, h, b) PROVE In(z, h, a)
  BY DEF Keeps
<1>1. h \in Nat /\ MaxBlocks \in Nat /\ z[h] \in Nat /\ cfg.n \in Nat
  BY Typed DEF GraphInd, Headers, RegionOK
<1>2. CASE ClosedAt(cfg, frames, current, z, h)
  BY <1>1, <1>2 DEF ClosedAt, Waits, In
<1>3. CASE OpenAt(frames, z, h)
  <2>1. PICK i \in 1 .. Len(frames) : frames[i].k = "body" /\ frames[i].at = h
    BY <1>3 DEF OpenAt
  <2>2. frames[i].join = h + 1 /\ frames[i].join < a /\ z[h] = MaxBlocks
    BY <1>3, <2>1 DEF GraphInd, Ordered, Within, OpenAt
  <2> QED
    BY <1>1, <2>2 DEF In
<1> QED
  BY <1>2, <1>3 DEF RegionOK, FramesOK

\* the same types after a step
LEMMA TypedNext ==
  ASSUME TypeOK'
  PROVE  /\ cfg'.n \in Nat /\ Blocks(cfg') = 0 .. cfg'.n - 1 /\ cfg'.n <= MaxBlocks
         /\ current' # NoBlock => current' \in Blocks(cfg')
         /\ \A i \in 1 .. Len(frames') :
              frames'[i].at \in Blocks(cfg') /\ frames'[i].join \in Blocks(cfg')
<1>1. /\ GraphOK(cfg') /\ current' \in Blocks(cfg') \union {NoBlock}
      /\ frames' \in Seq(Frame(cfg'))
  BY DEF TypeOK
<1>2. \A i \in 1 .. Len(frames') : frames'[i] \in Frame(cfg')
  BY <1>1
<1> QED
  BY <1>1, <1>2, BlocksOf DEF Frame

\* The frames after a step that opens and closes no loop.
LEMMA FramesKept ==
  ASSUME GraphInd, TypeOK', NEW z, RegionOK(cfg, frames, current, z),
         Headers(cfg') = Headers(cfg), cfg'.n \in Nat, cfg.n <= cfg'.n,
         current' \in {NoBlock, current} \/ Waits(current'),
         \A i \in 1 .. Len(frames') :
           \/ frames'[i].at >= cfg.n /\ frames'[i].join >= cfg.n /\ frames'[i].k # "body"
           \/ \E j \in 1 .. Len(frames) :
                /\ frames'[i].at = frames[j].at /\ frames'[i].join = frames[j].join
                /\ frames'[i].k = "body" => frames[j].k = "body",
         \A j \in 1 .. Len(frames) : frames[j].k = "body" =>
           \E i \in 1 .. Len(frames') : frames'[i].k = "body" /\ frames'[i].at = frames[j].at
  PROVE  FramesOK(cfg', frames', current', z)
<1>1. \A h \in Headers(cfg) : h \in Nat /\ z[h] \in Nat
  BY Typed DEF GraphInd, Headers, RegionOK
<1>2. cfg.n \in Nat
  BY Typed DEF GraphInd
<1>3. ASSUME NEW i \in 1 .. Len(frames'), frames'[i].k = "body"
      PROVE  frames'[i].at \in Headers(cfg') /\ z[frames'[i].at] = MaxBlocks
  BY <1>3 DEF RegionOK, FramesOK
<1>4. ASSUME NEW h \in Headers(cfg), OpenAt(frames, z, h)
      PROVE  OpenAt(frames', z, h)
  BY <1>4 DEF OpenAt
<1>5. ASSUME NEW h \in Headers(cfg), ClosedAt(cfg, frames, current, z, h)
      PROVE  ClosedAt(cfg', frames', current', z, h)
  <2>1. z[h] < cfg'.n /\ \A b \in Int : b >= cfg.n => ~In(z, h, b)
    <3>1. z[h] < cfg.n /\ z[h] \in Nat
      BY <1>1, <1>5 DEF ClosedAt
    <3>2. z[h] < cfg'.n
      BY <1>2, <3>1
    <3>3. \A b \in Int : b >= cfg.n => ~(b <= z[h])
      BY <1>2, <3>1
    <3> QED
      BY <3>2, <3>3 DEF In
  <2>4. /\ current' \in Int
        /\ \A i \in 1 .. Len(frames') : frames'[i].at \in Int /\ frames'[i].join \in Int
    <3>1. /\ cfg'.n \in Nat /\ Blocks(cfg') = 0 .. cfg'.n - 1
          /\ current' # NoBlock => current' \in Blocks(cfg')
          /\ \A i \in 1 .. Len(frames') :
               frames'[i].at \in Blocks(cfg') /\ frames'[i].join \in Blocks(cfg')
      BY TypedNext
    <3> QED
      BY <3>1 DEF NoBlock
  <2>2. ~In(z, h, current')
    <3>1. ~In(z, h, NoBlock)
      BY <1>1 DEF In, NoBlock
    <3> QED
      BY <1>5, <2>1, <2>4, <3>1 DEF ClosedAt, Waits
  <2>3. ASSUME NEW i \in 1 .. Len(frames')
        PROVE  ~In(z, h, frames'[i].at) /\ ~In(z, h, frames'[i].join)
    BY <1>5, <2>1, <2>4 DEF ClosedAt
  <2> QED
    BY <2>1, <2>2, <2>3 DEF ClosedAt
<1> QED
  BY <1>3, <1>4, <1>5 DEF FramesOK, RegionOK

\* Where control and the open lists are after a step that opens and closes no loop.
Going ==
  /\ current' \in {NoBlock, current} \/ Waits(current')
  /\ \A i \in 1 .. Len(frames') :
       \/ frames'[i].at >= cfg.n /\ frames'[i].join >= cfg.n /\ frames'[i].k # "body"
       \/ \E j \in 1 .. Len(frames) :
            /\ frames'[i].at = frames[j].at /\ frames'[i].join = frames[j].join
            /\ frames'[i].k = "body" => frames[j].k = "body"
  /\ \A j \in 1 .. Len(frames) : frames[j].k = "body" =>
       \E i \in 1 .. Len(frames') : frames'[i].k = "body" /\ frames'[i].at = frames[j].at

\* an edge that such a step may add
Inside(x) ==
  x[2] # 0 /\ \E a, b \in 0 .. MaxBlocks - 1 : x = <<a, b>> /\ Within(a) /\ Waits(b)

NoNewHeader == \A b \in Blocks(cfg') : b \in Blocks(cfg) \/ cfg'.kind[b] # "LOOP_HEADER"

LEMMA HeadersKept ==
  ASSUME GraphInd, NEW e, NEW f, Adds(cfg, cfg', e, f), NoNewHeader
  PROVE  Headers(cfg') = Headers(cfg)
BY DEF Adds, Headers, NoNewHeader

LEMMA KeepsRegions ==
  ASSUME GraphInd, TypeOK', NEW z, RegionOK(cfg, frames, current, z),
         NEW e, NEW f, Adds(cfg, cfg', e, f), Silent(cfg'), Flags(cfg),
         cfg.n <= cfg'.n, NoNewHeader, Going,
         \A x \in e \union f : Inside(x),
         \A x \in f : x[2] \in Headers(cfg) /\ In(z, x[2], x[1])
  PROVE  RegionOK(cfg', frames', current', z)
<1>1. Headers(cfg') = Headers(cfg) /\ z \in [Nat -> Nat] /\ EdgesOK(cfg, z)
  BY HeadersKept DEF RegionOK
<1>2. ASSUME NEW x \in e \union f
      PROVE  x[2] # 0 /\ \A h \in Headers(cfg') : Keeps(z, h, x)
  <2>1. PICK a, b \in 0 .. MaxBlocks - 1 : x = <<a, b>> /\ Within(a) /\ Waits(b)
    BY DEF Inside
  <2>2. \A h \in Headers(cfg) : Keeps(z, h, <<a, b>>)
    BY <2>1, EdgeInside
  <2> QED
    BY <1>1, <2>1, <2>2 DEF Inside
<1>3. EdgesOK(cfg', z)
  BY <1>1, <1>2, EdgesGrow
<1>4. FramesOK(cfg', frames', current', z)
  <2>1. cfg'.n \in Nat
    BY TypedNext
  <2> QED
    BY <1>1, <2>1, FramesKept DEF Going
<1>5. cfg'.kind[0] = "ENTRY"
  <2>1. 0 \in Blocks(cfg)
    BY BlocksOf, Typed DEF GraphInd
  <2> QED
    BY <2>1 DEF Adds, RegionOK
<1> QED
  BY <1>1, <1>3, <1>4, <1>5 DEF RegionOK

\* Control is inside of every open loop, and the blocks that an edge may go to exist.
LEMMA Around ==
  ASSUME GraphInd, NEW z, RegionOK(cfg, frames, current, z)
  PROVE  /\ cfg.n \in Nat \ {0} /\ MaxBlocks \in Nat /\ cfg.n <= MaxBlocks
         /\ Within(cfg.n) /\ Len(frames) \in Nat
         /\ current # NoBlock => current \in 0 .. cfg.n - 1 /\ Within(current)
         /\ \A i \in 1 .. Len(frames) :
              /\ frames[i].at \in 0 .. cfg.n - 1 /\ frames[i].join \in 0 .. cfg.n - 1
              /\ frames[i].join = frames[i].at + 1
              /\ Waits(frames[i].at) /\ Waits(frames[i].join) /\ frames[i].join # 0
              /\ frames[i].k = "body" =>
                   /\ frames[i].at # 0 /\ frames[i].at \in Headers(cfg)
                   /\ z[frames[i].at] = MaxBlocks
                   /\ current # NoBlock => In(z, frames[i].at, current)
<1>1. /\ cfg.n \in Nat /\ cfg.n > 0 /\ MaxBlocks \in Nat /\ cfg.n <= MaxBlocks
      /\ Blocks(cfg) = 0 .. cfg.n - 1 /\ Len(frames) \in Nat
      /\ current # NoBlock => current \in Blocks(cfg)
      /\ \A i \in 1 .. Len(frames) : frames[i].at \in Blocks(cfg) /\ frames[i].join \in Blocks(cfg)
  BY Typed, BlocksOf DEF GraphInd
<1>2. current # NoBlock => \A i \in 1 .. Len(frames) : frames[i].join < current
  BY DEF GraphInd, Ordered
<1>3. ASSUME NEW i \in 1 .. Len(frames)
      PROVE  /\ frames[i].join = frames[i].at + 1
             /\ Waits(frames[i].at) /\ Waits(frames[i].join)
             /\ frames[i].k = "body" =>
                  /\ frames[i].at # 0 /\ frames[i].at \in Headers(cfg)
                  /\ z[frames[i].at] = MaxBlocks
  <2>1. Waits(frames[i].at) /\ Waits(frames[i].join) /\ frames[i].join = frames[i].at + 1
    BY DEF Waits, GraphInd, Ordered
  <2>2. frames[i].k = "body" => frames[i].at \in Headers(cfg) /\ z[frames[i].at] = MaxBlocks
    BY DEF RegionOK, FramesOK
  <2>3. 0 \notin Headers(cfg)
    BY DEF RegionOK, Headers
  <2> QED
    BY <2>1, <2>2, <2>3
<1>4. ASSUME NEW i \in 1 .. Len(frames), frames[i].k = "body", current # NoBlock
      PROVE  In(z, frames[i].at, current)
  BY <1>1, <1>2, <1>3, <1>4 DEF In
<1> QED
  BY <1>1, <1>2, <1>3, <1>4 DEF Within

\* the edges from where control is
LEMMA InsideTo ==
  ASSUME GraphInd, NEW z, RegionOK(cfg, frames, current, z),
         NEW b \in 0 .. MaxBlocks - 1, Waits(b), b # 0
  PROVE  \A x \in To(b) : Inside(x)
<1>1. CASE current = NoBlock
  BY <1>1 DEF To
<1>2. CASE current # NoBlock
  <2>1. current \in 0 .. MaxBlocks - 1 /\ Within(current)
    BY <1>2, Around
  <2> QED
    BY <1>2, <2>1 DEF To, Inside
<1> QED
  BY <1>1, <1>2

LEMMA InsideFrom ==
  ASSUME NEW a \in 0 .. MaxBlocks - 1, NEW b \in 0 .. MaxBlocks - 1, Within(a), Waits(b), b # 0
  PROVE  Inside(<<a, b>>)
BY DEF Inside

-----------------------------------------------------------------------------
\* One lemma per kind of statement.
RegionsOK(z) == GraphInd /\ TypeOK' /\ RegionOK(cfg, frames, current, z) /\ Silent(cfg') /\ Flags(cfg)

LEMMA StillRegions ==
  ASSUME NEW z, RegionsOK(z), PlainStmt \/ Finish \/ TooManyBlocks \/ UNCHANGED vars
  PROVE  RegionOK(cfg', frames', current', z)
<1> DEFINE none == {}
<1>1. /\ Adds(cfg, cfg', {}, {}) /\ cfg'.n = cfg.n /\ Blocks(cfg') = Blocks(cfg)
      /\ UNCHANGED <<current, frames>>
  BY StillAdds DEF RegionsOK
<1>2. Going /\ NoNewHeader
  BY <1>1 DEF Going, NoNewHeader
<1>3. cfg.n <= cfg'.n
  BY <1>1, Around DEF RegionsOK
<1> QED
  BY <1>1, <1>2, <1>3, KeepsRegions DEF RegionsOK

LEMMA ReturnRegions ==
  ASSUME NEW z, RegionsOK(z), Return
  PROVE  RegionOK(cfg', frames', current', z)
<1> DEFINE e == {<<current, cfg.n>>}
<1>1. /\ Adds(cfg, cfg', e, {}) /\ cfg'.n = cfg.n + 1
      /\ Blocks(cfg') = Blocks(cfg) \union {cfg.n} /\ cfg'.kind[cfg.n] = "RETURN"
  BY ReturnAdds DEF RegionsOK
<1>2. current # NoBlock /\ current' = NoBlock /\ frames' = frames
  BY DEF Return, Live
<1>3. Going
  BY <1>2 DEF Going
<1>4. NoNewHeader
  BY <1>1 DEF NoNewHeader
<1>5. cfg.n \in 0 .. MaxBlocks - 1 /\ Waits(cfg.n) /\ cfg.n # 0 /\ cfg.n <= cfg'.n
  BY <1>1, Around, TypedNext DEF RegionsOK, Waits
<1>6. \A x \in e : Inside(x)
  BY <1>2, <1>5, InsideTo DEF RegionsOK, To
<1> HIDE DEF e
<1> QED
  BY <1>1, <1>3, <1>4, <1>5, <1>6, KeepsRegions DEF RegionsOK

LEMMA IfBeginRegions ==
  ASSUME NEW z, RegionsOK(z), IfBegin
  PROVE  RegionOK(cfg', frames', current', z)
<1> DEFINE n == cfg.n
           e == {<<current, n>>, <<n, n + 2>>}
           fr == [k |-> "true", at |-> n, join |-> n + 1, nest |-> Nest]
<1>1. /\ Adds(cfg, cfg', e, {}) /\ cfg'.n = n + 3
      /\ Blocks(cfg') = Blocks(cfg) \union {n, n + 1, n + 2}
      /\ cfg'.kind[n] = "IF" /\ cfg'.kind[n + 1] = "MERGE" /\ cfg'.kind[n + 2] = "IF_TRUE"
  BY IfBeginAdds DEF RegionsOK
<1>2. current # NoBlock /\ current' = n + 2 /\ frames' = Append(frames, fr)
  BY DEF IfBegin, Live, Push
<1>3. /\ n \in Nat \ {0} /\ MaxBlocks \in Nat /\ n + 3 <= MaxBlocks /\ Within(n)
      /\ frames \in Seq(Frame(cfg))
  BY <1>1, Around, TypedNext DEF RegionsOK, TypeOK, GraphInd
<1>4. Going
  <2>1. Waits(n + 2)
    BY <1>3 DEF Waits
  <2>2. /\ Len(frames) \in Nat /\ Len(frames') = Len(frames) + 1
        /\ \A i \in 1 .. Len(frames) : frames'[i] = frames[i]
        /\ frames'[Len(frames) + 1] = fr
    <3> HIDE DEF fr
    <3> QED BY <1>2, <1>3
  <2>3. fr.at >= n /\ fr.join >= n /\ fr.k # "body"
    BY <1>3
  <2> HIDE DEF fr
  <2>4. \A i \in 1 .. Len(frames') : i \in 1 .. Len(frames) \/ i = Len(frames) + 1
    BY <2>2
  <2>5. \A i \in 1 .. Len(frames) : i \in 1 .. Len(frames')
    BY <2>2
  <2> QED
    BY <1>2, <2>1, <2>2, <2>3, <2>4, <2>5 DEF Going
<1>5. NoNewHeader
  BY <1>1 DEF NoNewHeader
<1>6. n \in 0 .. MaxBlocks - 1 /\ n + 2 \in 0 .. MaxBlocks - 1 /\ n <= cfg'.n
      /\ Waits(n) /\ Waits(n + 2) /\ n # 0 /\ n + 2 # 0
  BY <1>1, <1>3 DEF Waits
<1>7. \A x \in e : Inside(x)
  <2>1. Inside(<<current, n>>)
    BY <1>2, <1>6, InsideTo DEF RegionsOK, To
  <2>2. Inside(<<n, n + 2>>)
    BY <1>3, <1>6, InsideFrom
  <2> QED
    BY <2>1, <2>2
<1> HIDE DEF e
<1> QED
  BY <1>1, <1>4, <1>5, <1>6, <1>7, KeepsRegions DEF RegionsOK

LEMMA EndTrueRegions ==
  ASSUME NEW z, RegionsOK(z), EndTrue
  PROVE  RegionOK(cfg', frames', current', z)
<1> DEFINE n == cfg.n
           m == Len(frames)
           e == To(frames[m].join) \union {<<frames[m].at, n>>}
<1>1. /\ frames # <<>> /\ Top(frames) = frames[m] /\ m \in 1 .. m /\ frames[m].k = "true"
      /\ frames \in Seq(Frame(cfg)) /\ m \in Nat
      /\ current' = n
      /\ frames' = [frames EXCEPT ![m] = [frames[m] EXCEPT !.k = "false"]]
  BY Typed DEF EndTrue, Top, RegionsOK, GraphInd, TypeOK
<1>2. /\ Adds(cfg, cfg', e, {}) /\ cfg'.n = n + 1 /\ Blocks(cfg') = Blocks(cfg) \union {n}
      /\ cfg'.kind[n] = "IF_FALSE"
  BY <1>1, EndTrueAdds DEF RegionsOK
<1>3. /\ n \in Nat \ {0} /\ MaxBlocks \in Nat /\ n + 1 <= MaxBlocks
      /\ frames[m].at \in 0 .. n - 1 /\ frames[m].join \in 0 .. n - 1
      /\ Waits(frames[m].join) /\ frames[m].join # 0
  BY <1>1, <1>2, Around, TypedNext DEF RegionsOK
<1>4. Going
  <2>1. /\ Len(frames') = m
        /\ \A i \in 1 .. m : i # m => frames'[i] = frames[i]
        /\ frames'[m] = [frames[m] EXCEPT !.k = "false"]
    BY <1>1
  <2>2. frames[m] \in Frame(cfg)
    BY <1>1
  <2>3. frames'[m].at = frames[m].at /\ frames'[m].join = frames[m].join /\ frames'[m].k = "false"
    BY <2>1, <2>2 DEF Frame
  <2>4. Waits(current')
    BY <1>1, <1>3 DEF Waits
  <2> QED
    BY <1>1, <2>1, <2>3, <2>4 DEF Going
<1>5. NoNewHeader
  BY <1>2 DEF NoNewHeader
<1>6. Within(frames[m].at)
  <2> SUFFICES ASSUME NEW i \in 1 .. m, frames[i].k = "body" PROVE frames[i].join < frames[m].at
    BY DEF Within
  <2>1. i < m
    BY <1>1
  <2> QED
    BY <1>1, <2>1 DEF RegionsOK, GraphInd, Ordered
<1>7. \A x \in e : Inside(x)
  <2>1. \A x \in To(frames[m].join) : Inside(x)
    BY <1>3, InsideTo DEF RegionsOK
  <2>2. Waits(n) /\ n # 0 /\ n \in 0 .. MaxBlocks - 1 /\ frames[m].at \in 0 .. MaxBlocks - 1
    BY <1>3 DEF Waits
  <2>3. Inside(<<frames[m].at, n>>)
    BY <1>6, <2>2, InsideFrom
  <2> QED
    BY <2>1, <2>3
<1>8. n <= cfg'.n
  BY <1>2, <1>3
<1> HIDE DEF e
<1> QED
  BY <1>2, <1>4, <1>5, <1>7, <1>8, KeepsRegions DEF RegionsOK

LEMMA EndFalseRegions ==
  ASSUME NEW z, RegionsOK(z), EndFalse
  PROVE  RegionOK(cfg', frames', current', z)
<1> DEFINE m == Len(frames)
           e == To(frames[m].join)
<1>1. /\ frames # <<>> /\ Top(frames) = frames[m] /\ m \in 1 .. m /\ frames[m].k = "false"
      /\ frames \in Seq(Frame(cfg)) /\ m \in Nat
      /\ current' = frames[m].join /\ frames' = Pop(frames)
  BY Typed DEF EndFalse, Top, RegionsOK, GraphInd, TypeOK
<1>2. Adds(cfg, cfg', e, {}) /\ cfg'.n = cfg.n /\ Blocks(cfg') = Blocks(cfg)
  BY <1>1, EndFalseAdds DEF RegionsOK
<1>3. /\ cfg.n \in Nat \ {0} /\ MaxBlocks \in Nat /\ cfg.n <= MaxBlocks
      /\ frames[m].join \in 0 .. cfg.n - 1
      /\ Waits(frames[m].join) /\ frames[m].join # 0
  BY <1>1, Around DEF RegionsOK
<1>4. Going
  <2>1. Len(frames') = m - 1 /\ \A i \in 1 .. m - 1 : frames'[i] = frames[i]
    BY <1>1, PopType
  <2>2. \A i \in 1 .. m - 1 : i \in 1 .. m
    BY <1>1
  <2>3. \A i \in 1 .. m : i \in 1 .. m - 1 \/ i = m
    BY <1>1
  <2> QED
    BY <1>1, <1>3, <2>1, <2>2, <2>3 DEF Going
<1>5. NoNewHeader /\ cfg.n <= cfg'.n
  BY <1>2, <1>3 DEF NoNewHeader
<1>6. \A x \in e : Inside(x)
  BY <1>3, InsideTo DEF RegionsOK
<1> HIDE DEF e
<1> QED
  BY <1>2, <1>4, <1>5, <1>6, KeepsRegions DEF RegionsOK

LEMMA JumpRegions ==
  ASSUME NEW z, RegionsOK(z), LoopStackInd, Break \/ Continue
  PROVE  RegionOK(cfg', frames', current', z)
<1>1. current # NoBlock /\ current' = NoBlock /\ frames' = frames
  BY DEF Break, Continue, Live
<1>2. Going
  BY <1>1 DEF Going
<1>3. cfg'.n = cfg.n /\ Blocks(cfg') = Blocks(cfg)
  BY BreakAdds, ContinueAdds DEF RegionsOK
<1>4. NoNewHeader /\ cfg.n <= cfg'.n
  BY <1>3, Around DEF NoNewHeader, RegionsOK
<1>5. CASE loops = <<>>
  <2>1. Adds(cfg, cfg', {}, {})
    BY <1>5, BreakAdds, ContinueAdds DEF RegionsOK
  <2> QED
    BY <1>2, <1>4, <2>1, KeepsRegions DEF RegionsOK
<1>6. CASE loops # <<>>
  <2>1. Silent(cfg)
    <3>1. \E e, f : Adds(cfg, cfg', e, f)
      BY <1>6, BreakAdds, ContinueAdds DEF RegionsOK
    <3> QED
      BY <3>1 DEF Adds, RegionsOK
  <2>2. PICK i \in 1 .. Len(frames) :
          frames[i].k = "body" /\ Top(loops) = [header |-> frames[i].at, exit |-> frames[i].join]
    BY <1>6, <2>1, TopIsInnermost DEF Structured!InnermostLoop
  <2>3. /\ frames[i].at \in 0 .. MaxBlocks - 1 /\ frames[i].join \in 0 .. MaxBlocks - 1
        /\ Waits(frames[i].at) /\ Waits(frames[i].join)
        /\ frames[i].join # 0 /\ frames[i].at # 0
        /\ frames[i].at \in Headers(cfg) /\ In(z, frames[i].at, current)
    <3>1. /\ cfg.n \in Nat \ {0} /\ MaxBlocks \in Nat /\ cfg.n <= MaxBlocks
          /\ frames[i].at \in 0 .. cfg.n - 1 /\ frames[i].join \in 0 .. cfg.n - 1
          /\ Waits(frames[i].at) /\ Waits(frames[i].join)
          /\ frames[i].join # 0 /\ frames[i].at # 0
          /\ frames[i].at \in Headers(cfg) /\ In(z, frames[i].at, current)
      BY <1>1, <2>2, Around DEF RegionsOK
    <3> QED
      BY <3>1
  <2>4. CASE Break
    <3> DEFINE e == {<<current, frames[i].join>>}
    <3>1. Adds(cfg, cfg', e, {})
      BY <1>6, <2>2, <2>4, BreakAdds DEF RegionsOK
    <3>2. \A x \in e : Inside(x)
      BY <1>1, <2>3, InsideTo DEF RegionsOK, To
    <3> HIDE DEF e
    <3> QED
      BY <1>2, <1>4, <3>1, <3>2, KeepsRegions DEF RegionsOK
  <2>5. CASE Continue
    <3> DEFINE f == {<<current, frames[i].at>>}
    <3>1. Adds(cfg, cfg', {}, f)
      BY <1>6, <2>2, <2>5, ContinueAdds DEF RegionsOK
    <3>2. \A x \in f : Inside(x)
      BY <1>1, <2>3, InsideTo DEF RegionsOK, To
    <3>3. \A x \in f : x[2] \in Headers(cfg) /\ In(z, x[2], x[1])
      BY <2>3
    <3> HIDE DEF f
    <3> QED
      BY <1>2, <1>4, <3>1, <3>2, <3>3, KeepsRegions DEF RegionsOK
  <2> QED
    BY <2>4, <2>5
<1> QED
  BY <1>5, <1>6

\* a region with another last block
LEMMA Override ==
  ASSUME NEW z \in [Nat -> Nat], NEW h \in Nat, NEW v \in Nat, NEW s, s = [z EXCEPT ![h] = v]
  PROVE  /\ s \in [Nat -> Nat] /\ s[h] = v
         /\ \A g \in Nat : g # h => s[g] = z[g]
OBVIOUS

\* A loop that is over gets its last block.
LEMMA EndBodyRegions ==
  ASSUME NEW z, RegionsOK(z), EndBody
  PROVE  \E s : RegionOK(cfg', frames', current', s)
<1>0. PICK n, m, h : n = cfg.n /\ m = Len(frames) /\ h = frames[m].at
  OBVIOUS
<1> DEFINE f == To(h)
           s == [z EXCEPT ![h] = n - 1]
<1>1. /\ m \in 1 .. m /\ m \in Nat /\ Top(frames) = frames[m] /\ frames[m].k = "body"
      /\ frames \in Seq(Frame(cfg)) /\ frames # <<>>
      /\ current' = frames[m].join /\ frames' = Pop(frames)
  BY <1>0, Typed DEF EndBody, Top, RegionsOK, GraphInd, TypeOK
<1>2. Adds(cfg, cfg', {}, f) /\ cfg'.n = n /\ Blocks(cfg') = Blocks(cfg) /\ cfg'.kind = cfg.kind
  BY <1>0, <1>1, EndBodyAdds DEF RegionsOK
<1>3. /\ n \in Nat \ {0} /\ MaxBlocks \in Nat /\ n <= MaxBlocks /\ Blocks(cfg) = 0 .. n - 1
      /\ h \in 0 .. n - 1 /\ h # 0 /\ h \in Headers(cfg) /\ z[h] = MaxBlocks
      /\ frames[m].join = h + 1 /\ Waits(h)
      /\ current # NoBlock =>
           current \in 0 .. n - 1 /\ Within(current) /\ In(z, h, current)
  BY <1>0, <1>1, Around, Typed DEF RegionsOK, GraphInd
<1>4. Headers(cfg') = Headers(cfg)
  BY <1>2 DEF Headers
<1>5. /\ s \in [Nat -> Nat] /\ s[h] = n - 1 /\ h \in Nat
      /\ \A g \in Nat : g # h => s[g] = z[g]
  <2>1. h \in Nat /\ n - 1 \in Nat
    BY <1>3
  <2>2. z \in [Nat -> Nat]
    BY DEF RegionsOK, RegionOK
  <2> QED
    BY <2>1, <2>2, Override
<1> HIDE DEF s
<1>6. Headers(cfg) \subseteq Nat
  BY <1>3 DEF Headers
<1>7. ASSUME NEW g \in Headers(cfg), NEW b \in Blocks(cfg)
      PROVE  In(s, g, b) <=> In(z, g, b)
  <2>1. b <= n - 1 /\ b <= MaxBlocks
    BY <1>3
  <2> QED
    BY <1>3, <1>5, <1>6, <2>1 DEF In
<1>8. ASSUME NEW x \in f
      PROVE  /\ x[2] # 0 /\ \A g \in Headers(cfg') : Keeps(s, g, x)
             /\ x[2] \in Headers(cfg') /\ In(s, x[2], x[1])
  <2>1. x = <<current, h>> /\ current # NoBlock
    BY DEF To
  <2>2. /\ current \in Blocks(cfg) /\ h \in Blocks(cfg)
        /\ current \in 0 .. MaxBlocks - 1 /\ h \in 0 .. MaxBlocks - 1
    BY <1>3, <2>1
  <2>3. \A g \in Headers(cfg) : Keeps(z, g, <<current, h>>)
    BY <1>3, <2>1, <2>2, EdgeInside DEF RegionsOK
  <2>4. \A g \in Headers(cfg) : Keeps(s, g, <<current, h>>)
    BY <1>7, <2>2, <2>3 DEF Keeps
  <2>5. In(s, h, current)
    BY <1>3, <1>7, <2>1, <2>2
  <2> QED
    BY <1>3, <1>4, <2>1, <2>4, <2>5
<1>9. EdgesOK(cfg', s)
  <2> HIDE DEF f
  <2>1. GraphInd /\ EdgesOK(cfg, z) /\ Silent(cfg') /\ Flags(cfg)
    BY DEF RegionsOK, RegionOK
  <2>2. \A x \in {} \union f : x[2] # 0 /\ \A g \in Headers(cfg') : Keeps(s, g, x)
    BY <1>8
  <2> QED
    BY <1>2, <1>5, <1>7, <1>8, <2>1, <2>2, EdgesGrow
<1>10. Len(frames') = m - 1 /\ \A i \in 1 .. m - 1 : frames'[i] = frames[i] /\ i \in 1 .. m
  BY <1>0, <1>1, PopType
<1>11. \A i \in 1 .. m - 1 : frames[i].at < h /\ frames[i].join < h /\ frames[i].at \in Nat
  <2>1. \A i \in 1 .. m : frames[i].join = frames[i].at + 1 /\ frames[i].at \in Nat
    BY <1>0, <1>3, Typed DEF RegionsOK, GraphInd, Ordered
  <2>2. \A i \in 1 .. m - 1 : frames[i].join < h
    BY <1>0, <1>1 DEF RegionsOK, GraphInd, Ordered
  <2> SUFFICES ASSUME NEW i \in 1 .. m - 1
               PROVE  frames[i].at < h /\ frames[i].join < h /\ frames[i].at \in Nat
    OBVIOUS
  <2>3. i \in 1 .. m
    BY <1>1
  <2>4. frames[i].join = frames[i].at + 1 /\ frames[i].at \in Nat /\ frames[i].join < h /\ h \in Nat
    BY <1>5, <2>1, <2>2, <2>3
  <2> QED
    BY <2>4
<1>12. ASSUME NEW i \in 1 .. m - 1, frames[i].k = "body"
       PROVE  frames[i].at \in Headers(cfg) /\ s[frames[i].at] = MaxBlocks
  <2>1. frames[i].at \in Headers(cfg) /\ z[frames[i].at] = MaxBlocks
    BY <1>0, <1>10, <1>12 DEF RegionsOK, RegionOK, FramesOK
  <2> QED
    <3>1. frames[i].at \in Nat /\ frames[i].at # h
      BY <1>5, <1>11
    <3> QED
      BY <1>5, <2>1, <3>1
<1>13. ClosedAt(cfg', frames', current', s, h)
  <2>1. s[h] < cfg'.n
    BY <1>2, <1>3, <1>5
  <2>2. ~In(s, h, current')
    BY <1>1, <1>3 DEF In
  <2>3. \A i \in 1 .. m - 1 : ~In(s, h, frames[i].at) /\ ~In(s, h, frames[i].join)
    <3>1. \A i \in 1 .. m - 1 : ~(h <= frames[i].at) /\ ~(h <= frames[i].join)
      <4>1. \A i \in 1 .. m - 1 : frames[i].join \in Nat
        BY <1>0, <1>3, <1>10, Typed DEF RegionsOK, GraphInd
      <4> QED
        BY <1>5, <1>11, <4>1
    <3> QED
      BY <3>1 DEF In
  <2> QED
    BY <1>10, <2>1, <2>2, <2>3 DEF ClosedAt
<1>14. ASSUME NEW g \in Headers(cfg), g # h
       PROVE  OpenAt(frames', s, g) \/ ClosedAt(cfg', frames', current', s, g)
  <2>1. s[g] = z[g]
    BY <1>5, <1>6, <1>14
  <2>2. CASE OpenAt(frames, z, g)
    <3>1. PICK i \in 1 .. m : frames[i].k = "body" /\ frames[i].at = g
      BY <1>0, <2>2 DEF OpenAt
    <3>2. i \in 1 .. m - 1
      BY <1>0, <1>1, <1>14, <3>1
    <3> QED
      BY <1>10, <2>1, <2>2, <3>1, <3>2 DEF OpenAt
  <2>3. CASE ClosedAt(cfg, frames, current, z, g)
    <3>1. \A b : In(s, g, b) <=> In(z, g, b)
      BY <2>1 DEF In
    <3> QED
      BY <1>0, <1>1, <1>2, <1>10, <2>1, <2>3, <3>1 DEF ClosedAt
  <2> QED
    BY <2>2, <2>3 DEF RegionsOK, RegionOK, FramesOK
<1>15. FramesOK(cfg', frames', current', s)
  BY <1>4, <1>10, <1>12, <1>13, <1>14 DEF FramesOK
<1> QED
  BY <1>2, <1>5, <1>9, <1>15 DEF RegionsOK, RegionOK

\* A loop that begins gets a region that has no end yet.
LEMMA LoopBeginRegions ==
  ASSUME NEW z, RegionsOK(z), LoopBegin
  PROVE  \E s : RegionOK(cfg', frames', current', s)
<1>0. PICK n, m : n = cfg.n /\ m = Len(frames)
  OBVIOUS
<1> DEFINE e == {<<current, n>>, <<n, n + 1>>, <<n, n + 2>>}
           s == [z EXCEPT ![n] = MaxBlocks]
           fr == [k |-> "body", at |-> n, join |-> n + 1, nest |-> Nest + 1]
<1>1. /\ current # NoBlock /\ current' = n + 2 /\ frames' = Append(frames, fr)
      /\ frames \in Seq(Frame(cfg))
  BY <1>0 DEF LoopBegin, Live, Push, RegionsOK, GraphInd, TypeOK
<1>2. /\ Adds(cfg, cfg', e, {}) /\ cfg'.n = n + 3
      /\ Blocks(cfg') = Blocks(cfg) \union {n, n + 1, n + 2}
      /\ cfg'.kind[n] = "LOOP_HEADER" /\ cfg'.kind[n + 1] = "LOOP_EXIT"
      /\ cfg'.kind[n + 2] = "LOOP_BODY"
  BY <1>0, LoopBeginAdds DEF RegionsOK
<1>3. /\ n \in Nat \ {0} /\ MaxBlocks \in Nat /\ n + 3 <= MaxBlocks /\ Within(n)
      /\ Blocks(cfg) = 0 .. n - 1 /\ m \in Nat
      /\ current \in 0 .. n - 1 /\ Within(current)
  BY <1>0, <1>1, <1>2, Around, Typed, TypedNext DEF RegionsOK, GraphInd
<1>4. Headers(cfg') = Headers(cfg) \union {n} /\ n \notin Headers(cfg) /\ Headers(cfg) \subseteq Nat
  <2>1. \A b \in Blocks(cfg) : cfg'.kind[b] = cfg.kind[b]
    BY <1>2 DEF Adds
  <2>2. n \notin Blocks(cfg) /\ Blocks(cfg) \subseteq Nat
    BY <1>3
  <2> QED
    BY <1>2, <2>1, <2>2 DEF Headers
<1>5. /\ s \in [Nat -> Nat] /\ s[n] = MaxBlocks
      /\ \A g \in Nat : g # n => s[g] = z[g]
  <2>1. z \in [Nat -> Nat] /\ n \in Nat /\ MaxBlocks \in Nat
    BY <1>3 DEF RegionsOK, RegionOK
  <2> QED
    BY <2>1, Override
<1> HIDE DEF s
<1>6. \A g \in Headers(cfg) : s[g] = z[g] /\ \A b : In(s, g, b) <=> In(z, g, b)
  BY <1>4, <1>5 DEF In
<1>7. ASSUME NEW x \in e
      PROVE  x[2] # 0 /\ \A g \in Headers(cfg') : Keeps(s, g, x)
  <2>1. PICK a \in {current, n}, b \in {n, n + 1, n + 2} : x = <<a, b>>
    OBVIOUS
  <2>2. /\ a \in 0 .. MaxBlocks - 1 /\ b \in 0 .. MaxBlocks - 1 /\ b >= n
        /\ Within(a) /\ b # 0
    BY <1>3
  <2>3. \A g \in Headers(cfg) : Keeps(z, g, <<a, b>>)
    BY <1>0, <2>2, EdgeInside DEF RegionsOK, Waits
  <2>4. \A g \in Headers(cfg) : Keeps(s, g, x)
    BY <1>6, <2>1, <2>3 DEF Keeps
  <2>5. Keeps(s, n, x)
    <3>1. x = <<current, n>> \/ x = <<n, n + 1>> \/ x = <<n, n + 2>>
      OBVIOUS
    <3>2. In(s, n, n) /\ ~In(s, n, n + 1)
      BY <1>3, <1>5 DEF In
    <3> QED
      BY <3>1, <3>2 DEF Keeps
  <2> QED
    BY <1>4, <2>1, <2>2, <2>4, <2>5
<1>8. EdgesOK(cfg', s)
  <2> HIDE DEF e
  <2>1. GraphInd /\ EdgesOK(cfg, z) /\ Silent(cfg') /\ Flags(cfg)
    BY DEF RegionsOK, RegionOK
  <2>2. \A x \in e \union {} : x[2] # 0 /\ \A g \in Headers(cfg') : Keeps(s, g, x)
    BY <1>7
  <2> QED
    BY <1>2, <1>5, <1>6, <2>1, <2>2, EdgesGrow
<1>9. /\ Len(frames') = m + 1 /\ frames'[m + 1] = fr
      /\ \A i \in 1 .. m : frames'[i] = frames[i] /\ i \in 1 .. m + 1
      /\ \A i \in 1 .. m + 1 : i \in 1 .. m \/ i = m + 1
  <2> HIDE DEF fr
  <2> QED
    BY <1>0, <1>1, <1>3
<1>10. fr.k = "body" /\ fr.at = n /\ fr.join = n + 1
  OBVIOUS
<1> HIDE DEF fr
<1>11. ASSUME NEW i \in 1 .. m + 1, frames'[i].k = "body"
       PROVE  frames'[i].at \in Headers(cfg') /\ s[frames'[i].at] = MaxBlocks
  <2>1. CASE i = m + 1
    BY <1>4, <1>5, <1>9, <1>10, <2>1
  <2>2. CASE i \in 1 .. m
    <3>1. frames[i].at \in Headers(cfg) /\ z[frames[i].at] = MaxBlocks
      BY <1>0, <1>9, <1>11, <2>2 DEF RegionsOK, RegionOK, FramesOK
    <3> QED
      BY <1>4, <1>6, <1>9, <2>2, <3>1
  <2> QED
    BY <1>9, <2>1, <2>2
<1>12. OpenAt(frames', s, n)
  <2>1. m + 1 \in 1 .. Len(frames')
    BY <1>3, <1>9
  <2> QED
    BY <1>5, <1>9, <1>10, <2>1 DEF OpenAt
<1>13. ASSUME NEW g \in Headers(cfg)
       PROVE  OpenAt(frames', s, g) \/ ClosedAt(cfg', frames', current', s, g)
  <2>1. CASE OpenAt(frames, z, g)
    <3>1. PICK i \in 1 .. m : frames[i].k = "body" /\ frames[i].at = g
      BY <1>0, <2>1 DEF OpenAt
    <3> QED
      BY <1>6, <1>9, <2>1, <3>1 DEF OpenAt
  <2>2. CASE ClosedAt(cfg, frames, current, z, g)
    <3>1. s[g] < n /\ s[g] \in Nat
      BY <1>0, <1>4, <1>5, <1>6, <2>2 DEF ClosedAt
    <3>2. s[g] < cfg'.n
      BY <1>2, <1>3, <3>1
    <3>3. ~In(s, g, n) /\ ~In(s, g, n + 1) /\ ~In(s, g, n + 2)
      BY <1>3, <3>1 DEF In
    <3>4. \A i \in 1 .. m : ~In(s, g, frames[i].at) /\ ~In(s, g, frames[i].join)
      BY <1>0, <1>6, <2>2 DEF ClosedAt
    <3>5. \A i \in 1 .. m + 1 : ~In(s, g, frames'[i].at) /\ ~In(s, g, frames'[i].join)
      BY <1>9, <1>10, <3>3, <3>4
    <3> QED
      BY <1>1, <1>9, <3>2, <3>3, <3>5 DEF ClosedAt
  <2> QED
    BY <2>1, <2>2 DEF RegionsOK, RegionOK, FramesOK
<1>14. FramesOK(cfg', frames', current', s)
  BY <1>4, <1>9, <1>11, <1>12, <1>13 DEF FramesOK
<1>15. cfg'.kind[0] = "ENTRY"
  <2>1. 0 \in Blocks(cfg)
    BY <1>3
  <2> QED
    BY <1>2, <2>1 DEF Adds, RegionsOK, RegionOK
<1> QED
  BY <1>5, <1>8, <1>14, <1>15 DEF RegionOK

\* The entry block alone has no loop, and every step keeps the regions.
LEMMA RegionInit == Init => RegionInd
<1> SUFFICES ASSUME Init PROVE RegionInd
  OBVIOUS
<1> DEFINE z == [b \in Nat |-> 0]
<1>1. FlowInd /\ frames = <<>>
  BY FlowInit DEF Init
<1>2. /\ Edges(cfg) = {} /\ BackEdges(cfg) = {} /\ Blocks(cfg) = {0}
      /\ cfg.kind[0] = "ENTRY"
  BY EntryGraph
<1>3. Headers(cfg) = {}
  BY <1>2 DEF Headers
<1>4. z \in [Nat -> Nat]
  OBVIOUS
<1> HIDE DEF z
<1>5. EdgesOK(cfg, z) /\ FramesOK(cfg, frames, current, z)
  BY <1>1, <1>2, <1>3 DEF EdgesOK, FramesOK
<1>6. RegionOK(cfg, frames, current, z)
  BY <1>2, <1>4, <1>5 DEF RegionOK
<1> QED
  BY <1>1, <1>6 DEF RegionInd

LEMMA RegionStep == RegionInd /\ [Next]_vars => RegionInd'
<1> SUFFICES ASSUME RegionInd, [Next]_vars PROVE RegionInd'
  OBVIOUS
<1>1. FlowInd' /\ GraphInd /\ LoopStackInd /\ TypeOK'
  BY FlowStep, TypeStep DEF RegionInd, FlowInd, GraphInd
<1>2. ASSUME Silent(cfg')
      PROVE  \E s : RegionOK(cfg', frames', current', s)
  <2>1. Silent(cfg)
    BY <1>1, <1>2, ReportsStay DEF GraphInd
  <2>2. PICK z : RegionOK(cfg, frames, current, z)
    BY <2>1 DEF RegionInd
  <2>3. RegionsOK(z)
    BY <1>1, <1>2, <2>1, <2>2 DEF RegionsOK, RegionInd, FlowInd
  <2>4. CASE PlainStmt \/ Finish \/ TooManyBlocks \/ UNCHANGED vars
    BY <2>3, <2>4, StillRegions
  <2>5. CASE Return
    BY <2>3, <2>5, ReturnRegions
  <2>6. CASE IfBegin
    BY <2>3, <2>6, IfBeginRegions
  <2>7. CASE EndTrue
    BY <2>3, <2>7, EndTrueRegions
  <2>8. CASE EndFalse
    BY <2>3, <2>8, EndFalseRegions
  <2>9. CASE LoopBegin
    BY <2>3, <2>9, LoopBeginRegions
  <2>10. CASE EndBody
    BY <2>3, <2>10, EndBodyRegions
  <2>11. CASE Break \/ Continue
    BY <1>1, <2>3, <2>11, JumpRegions
  <2> QED
    BY <2>4, <2>5, <2>6, <2>7, <2>8, <2>9, <2>10, <2>11 DEF Next, Stopped
<1> QED
  BY <1>1, <1>2 DEF RegionInd

-----------------------------------------------------------------------------
\* What the regions say of the paths.  A flagged edge comes from the region of its target,
\* where no path gets to that does not go through the target.
LEMMA FlaggedIsDominated ==
  ASSUME GraphInd, NEW z, RegionOK(cfg, frames, current, z), NEW x \in BackEdges(cfg)
  PROVE  x[1] \notin ReachFrom({0} \ {x[2]}, {e \in Edges(cfg) : e[2] # x[2]})
<1> DEFINE h == x[2]
           s == {0} \ {h}
           E == {e \in Edges(cfg) : e[2] # h}
           R == {b \in Blocks(cfg) : ~In(z, h, b)}
<1>1. h \in Headers(cfg) /\ In(z, h, x[1]) /\ cfg.n \in Nat /\ Blocks(cfg) = 0 .. cfg.n - 1
  BY Typed DEF GraphInd, RegionOK, EdgesOK
<1>2. s \subseteq R
  <2> SUFFICES ASSUME 0 # h PROVE 0 \in R
    OBVIOUS
  <2>1. h \in Nat /\ 0 \in Blocks(cfg)
    BY <1>1 DEF Headers
  <2>2. ~(h <= 0)
    BY <2>1
  <2> QED
    BY <2>1, <2>2 DEF In
<1>3. Closed(R, E)
  <2> SUFFICES ASSUME NEW e \in E, e[1] \in R PROVE e[2] \in R
    BY DEF Closed
  <2>1. e \in Edges(cfg) /\ e[2] # h /\ e[2] \in Blocks(cfg)
    BY DEF Edges
  <2>2. Keeps(z, h, e)
    BY <1>1, <2>1 DEF RegionOK, EdgesOK
  <2> QED
    BY <2>1, <2>2 DEF Keeps
<1>4. x[1] \notin R
  BY <1>1
<1> HIDE DEF s, E, R
<1>5. ReachFrom(s, E) \subseteq R
  BY <1>1, <1>2, <1>3, ReachedIsLeast
<1> QED
  BY <1>4, <1>5 DEF s, E

\* What is reached is reached without a flagged edge: the edge goes back to a block that
\* every path to its source has been through.
LEMMA ReachedForward ==
  ASSUME GraphInd, NEW z, RegionOK(cfg, frames, current, z)
  PROVE  ReachFrom({0}, Edges(cfg)) \subseteq ReachFrom({0}, Edges(cfg) \ BackEdges(cfg))
<1> DEFINE forward == Edges(cfg) \ BackEdges(cfg)
           F == ReachFrom({0}, forward)
<1>1. /\ cfg.n \in Nat /\ Blocks(cfg) = 0 .. cfg.n - 1 /\ 0 \in Blocks(cfg)
      /\ forward \in SUBSET (Blocks(cfg) \X Blocks(cfg))
  BY Typed, BlocksOf DEF GraphInd, Edges
<1>2. {0} \subseteq F /\ F \subseteq Blocks(cfg) /\ Closed(F, forward)
  <2> HIDE DEF forward
  <2>1. {0} \in SUBSET Blocks(cfg)
    BY <1>1
  <2> QED
    BY <1>1, <2>1, ReachedIsClosed
<1>3. ASSUME NEW x \in BackEdges(cfg), x[1] \in F, x[2] \notin F
      PROVE  FALSE
  <2> DEFINE h == x[2]
             R == {b \in F : ~In(z, h, b)}
  <2>1. h \in Headers(cfg) /\ In(z, h, x[1]) /\ h \in Nat /\ h # 0
    <3>1. h \in Headers(cfg) /\ In(z, h, x[1])
      BY DEF RegionOK, EdgesOK
    <3>2. h \in Blocks(cfg) /\ cfg.kind[h] = "LOOP_HEADER" /\ cfg.kind[0] = "ENTRY"
      BY <3>1 DEF Headers, RegionOK
    <3>3. h # 0
      BY <3>2
    <3>4. h \in Nat
      BY <1>1, <3>2
    <3> QED
      BY <3>1, <3>3, <3>4
  <2>2. {0} \subseteq R
    <3>1. ~(h <= 0)
      BY <2>1
    <3> QED
      BY <1>2, <3>1 DEF In
  <2>3. Closed(R, forward)
    <3> SUFFICES ASSUME NEW e \in forward, e[1] \in R PROVE e[2] \in R
      BY DEF Closed
    <3>1. e[2] \in F /\ e[2] # h
      BY <1>2, <1>3 DEF Closed
    <3>2. Keeps(z, h, e)
      BY <2>1 DEF RegionOK, EdgesOK
    <3> QED
      BY <3>1, <3>2 DEF Keeps
  <2>4. F \subseteq R
    <3> HIDE DEF R, forward
    <3> QED
      BY <1>1, <2>2, <2>3, ReachedIsLeast DEF F
  <2>5. x[1] \notin R
    BY <2>1
  <2> QED
    BY <1>3, <2>4, <2>5
<1>4. Closed(F, Edges(cfg))
  <2> SUFFICES ASSUME NEW e \in Edges(cfg), e[1] \in F PROVE e[2] \in F
    BY DEF Closed
  <2>1. e \in BackEdges(cfg) => e[2] \in F
    BY <1>3
  <2>2. e \in forward => e[2] \in F
    BY <1>2 DEF Closed
  <2> QED
    BY <2>1, <2>2
<1> HIDE DEF F
<1>5. ReachFrom({0}, Edges(cfg)) \subseteq F
  BY <1>1, <1>2, <1>4, ReachedIsLeast
<1> QED
  BY <1>5 DEF F

\* An edge that is not flagged goes up in the order of the blocks, so a path to its source
\* need not have been through its target.
LEMMA ForwardIsFree ==
  ASSUME GraphInd, NEW z, RegionOK(cfg, frames, current, z),
         NEW r \in [Nat -> Nat], Ranked(cfg, r),
         NEW x \in Edges(cfg) \ BackEdges(cfg), x[1] \in ReachFrom({0}, Edges(cfg))
  PROVE  x[1] \in ReachFrom({0} \ {x[2]}, {e \in Edges(cfg) : e[2] # x[2]})
<1> DEFINE v == x[2]
           forward == Edges(cfg) \ BackEdges(cfg)
           s == {0} \ {v}
           E == {e \in Edges(cfg) : e[2] # v}
           D == ReachFrom(s, E)
           G == {b \in Blocks(cfg) : r[b] < r[v] => b \in D}
<1>1. /\ cfg.n \in Nat /\ Blocks(cfg) = 0 .. cfg.n - 1 /\ 0 \in Blocks(cfg)
      /\ \A b \in Blocks(cfg) : r[b] \in Nat
  <2>0. GraphOK(cfg)
    BY Typed DEF GraphInd
  <2>1. cfg.n \in Nat /\ Blocks(cfg) = 0 .. cfg.n - 1 /\ 0 \in Blocks(cfg)
    BY <2>0, BlocksOf
  <2>2. ASSUME NEW b \in Blocks(cfg) PROVE r[b] \in Nat
    <3>1. b \in Nat
      BY <2>1
    <3> QED
      BY <3>1
  <2> QED
    BY <2>1, <2>2
<1>2. v \in Blocks(cfg) /\ v # 0 /\ x[1] \in Blocks(cfg) /\ r[x[1]] < r[v]
  BY DEF RegionOK, EdgesOK, Edges, Ranked
<1>3. s = {0} /\ s \in SUBSET Blocks(cfg) /\ E \in SUBSET (Blocks(cfg) \X Blocks(cfg))
  BY <1>1, <1>2 DEF Edges
<1>4. s \subseteq D /\ Closed(D, E)
  <2> HIDE DEF s, E
  <2> QED
    BY <1>1, <1>3, ReachedIsClosed
<1> HIDE DEF D
<1>5. {0} \subseteq G
  BY <1>1, <1>3, <1>4
<1>6. Closed(G, forward)
  <2> SUFFICES ASSUME NEW e \in forward, e[1] \in G, r[e[2]] < r[v] PROVE e[2] \in D
    <3>1. \A e \in forward : e[2] \in Blocks(cfg)
      BY DEF Edges
    <3> QED
      BY <3>1 DEF Closed
  <2>1. e[1] \in Blocks(cfg) /\ e[2] \in Blocks(cfg) /\ r[e[1]] < r[e[2]]
    BY DEF Edges, Ranked
  <2>2. r[e[1]] < r[v] /\ e[2] # v
    <3>1. r[e[1]] \in Nat /\ r[e[2]] \in Nat /\ r[v] \in Nat
      BY <1>1, <1>2, <2>1
    <3> QED
      BY <2>1, <3>1
  <2>3. e[1] \in D /\ e \in E
    BY <2>2
  <2> QED
    BY <1>4, <2>3 DEF Closed
<1>7. ReachFrom({0}, forward) \subseteq G
  <2> HIDE DEF G, forward
  <2> QED
    BY <1>1, <1>5, <1>6, ReachedIsLeast
<1>8. x[1] \in ReachFrom({0}, forward)
  BY ReachedForward
<1>9. x[1] \in G
  <2> HIDE DEF G, forward
  <2> QED
    BY <1>7, <1>8
<1>10. x[1] \in D
  BY <1>2, <1>9
<1> QED
  BY <1>10 DEF D

\* The flagged edges of the graph that cfg_build hands on, when it reported no limit, are
\* those of natural loops: an edge that control can take is flagged exactly when its
\* target dominates its source (add_back_edge for the end of a body and for continue).
THEOREM BackEdgesAreNaturalCorrect == Spec => []BackEdgesAreNatural
<1>1. RegionInd /\ CycleInd => BackEdgesAreNatural
  <2> SUFFICES ASSUME RegionInd, CycleInd, Silent(cfg), NEW e \in Edges(cfg),
                      e[1] \in ReachFrom({0}, Edges(cfg))
               PROVE  e \in BackEdges(cfg)
                        <=> e[1] \notin ReachFrom({0} \ {e[2]}, {x \in Edges(cfg) : x[2] # e[2]})
    BY DEF BackEdgesAreNatural
  <2>1. GraphInd
    BY DEF CycleInd
  <2>2. PICK z : RegionOK(cfg, frames, current, z)
    BY DEF RegionInd
  <2>3. PICK r : r \in [Nat -> Nat] /\ Ranked(cfg, r)
    BY DEF CycleInd, RankOK
  <2>4. CASE e \in BackEdges(cfg)
    BY <2>1, <2>2, <2>4, FlaggedIsDominated
  <2>5. CASE e \notin BackEdges(cfg)
    BY <2>1, <2>2, <2>3, <2>5, ForwardIsFree
  <2> QED
    BY <2>4, <2>5
<1> QED
  BY <1>1, RegionInit, RegionStep, CycleInit, CycleStep, PTL DEF Spec
=============================================================================
