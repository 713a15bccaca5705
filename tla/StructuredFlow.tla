--------------------------- MODULE StructuredFlow ---------------------------
(***************************************************************************)
(* What cfg_build promises for a function: the flow of control of nested   *)
(* If / Loop / Break / Continue / Return statements as a plain set of      *)
(* edges, read off the lexical nesting alone.  There is no loop stack here *)
(* and no array has a size; a jump goes to the innermost Loop statement    *)
(* that is open.  The builder may also give up, and then it says so:       *)
(* reported is the message on stderr, after which nothing is promised.     *)
(***************************************************************************)
EXTENDS Integers, Sequences

VARIABLES
  n,         \* blocks made so far are 0 .. n - 1
  kind,      \* kind[b], the role of block b
  edges,     \* the flow of control, a set of pairs of blocks
  backs,     \* the edges that return to the head of a loop
  current,   \* where control is, NoBlock after a jump
  frames,    \* the open statements, outermost first
  reported   \* a limit was reported

NoBlock == -1

flow == <<n, kind, edges, backs, current, frames, reported>>

Init ==
  /\ n = 1
  /\ kind = [b \in {0} |-> "ENTRY"]
  /\ edges = {}
  /\ backs = {}
  /\ current = 0
  /\ frames = <<>>
  /\ reported = FALSE

Here == current # NoBlock /\ ~reported'

New(kinds) ==
  /\ n' = n + Len(kinds)
  /\ kind' = [b \in 0 .. n + Len(kinds) - 1 |->
                IF b < n THEN kind[b] ELSE kinds[b - n + 1]]

GoTo(b) == IF current = NoBlock THEN {} ELSE {<<current, b>>}

\* frames[i] is the innermost open Loop statement
InnermostLoop(i) ==
  /\ i \in 1 .. Len(frames)
  /\ frames[i].k = "body"
  /\ \A j \in i + 1 .. Len(frames) : frames[j].k # "body"

InsideLoop == \E i \in 1 .. Len(frames) : frames[i].k = "body"

Open(k, at, join) ==
  LET nest == IF frames = <<>> THEN 0 ELSE frames[Len(frames)].nest
  IN  frames' = Append(frames, [k |-> k, at |-> at, join |-> join,
                                nest |-> IF k = "body" THEN nest + 1 ELSE nest])

Innermost == frames[Len(frames)]
Close == frames' = SubSeq(frames, 1, Len(frames) - 1)

Return ==
  /\ Here
  /\ New(<<"RETURN">>)
  /\ edges' = edges \union GoTo(n)
  /\ current' = NoBlock
  /\ UNCHANGED <<backs, frames>>

If ==
  /\ Here
  /\ New(<<"IF", "MERGE", "IF_TRUE">>)
  /\ edges' = edges \union GoTo(n) \union {<<n, n + 2>>}
  /\ current' = n + 2
  /\ Open("true", n, n + 1)
  /\ UNCHANGED backs

Else ==
  /\ ~reported'
  /\ frames # <<>>
  /\ Innermost.k = "true"
  /\ New(<<"IF_FALSE">>)
  /\ edges' = edges \union GoTo(Innermost.join) \union {<<Innermost.at, n>>}
  /\ current' = n
  /\ frames' = [frames EXCEPT ![Len(frames)] = [Innermost EXCEPT !.k = "false"]]
  /\ UNCHANGED backs

EndIf ==
  /\ ~reported'
  /\ frames # <<>>
  /\ Innermost.k = "false"
  /\ edges' = edges \union GoTo(Innermost.join)
  /\ current' = Innermost.join
  /\ Close
  /\ UNCHANGED <<n, kind, backs>>

Loop ==
  /\ Here
  /\ New(<<"LOOP_HEADER", "LOOP_EXIT", "LOOP_BODY">>)
  /\ edges' = edges \union GoTo(n) \union {<<n, n + 1>>, <<n, n + 2>>}
  /\ current' = n + 2
  /\ Open("body", n, n + 1)
  /\ UNCHANGED backs

EndLoop ==
  /\ ~reported'
  /\ frames # <<>>
  /\ Innermost.k = "body"
  /\ edges' = edges \union GoTo(Innermost.at)
  /\ backs' = backs \union GoTo(Innermost.at)
  /\ current' = Innermost.join
  /\ Close
  /\ UNCHANGED <<n, kind>>

Break ==
  /\ Here
  /\ current' = NoBlock
  /\ \/ \E i \in 1 .. Len(frames) :
          InnermostLoop(i) /\ edges' = edges \union GoTo(frames[i].join)
     \/ ~InsideLoop /\ UNCHANGED edges
  /\ UNCHANGED <<n, kind, backs, frames>>

Continue ==
  /\ Here
  /\ current' = NoBlock
  /\ \/ \E i \in 1 .. Len(frames) :
          /\ InnermostLoop(i)
          /\ edges' = edges \union GoTo(frames[i].at)
          /\ backs' = backs \union GoTo(frames[i].at)
     \/ ~InsideLoop /\ UNCHANGED <<edges, backs>>
  /\ UNCHANGED <<n, kind, frames>>

GiveUp == reported'

Next ==
  \/ Return \/ If \/ Else \/ EndIf \/ Loop \/ EndLoop \/ Break \/ Continue
  \/ GiveUp

\* A report is for good: it is never taken back.
Spec == Init /\ [][Next /\ (reported => reported')]_flow
=============================================================================
