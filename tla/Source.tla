-------------------------------- MODULE Source --------------------------------
(***************************************************************************)
(* A source text on its way through the lexer and the parser, as            *)
(* RunFrontend calls them (compiler/frontend.go:27-46) and ParseProgram     *)
(* goes about it (parser/parser.go:67-135): the tokens are cut into items   *)
(* of the top level by counting brackets, a goroutine parses each, and      *)
(* under a mutex each one leaves its node and its errors.                   *)
(*                                                                         *)
(* The parser of an item is private to its goroutine until the mutex, so    *)
(* that steps of different ones commute: here the items are parsed one      *)
(* after the other, and what the schedule decides, the order in which the   *)
(* goroutines come to the mutex, is left open.                             *)
(***************************************************************************)
EXTENDS Lexer, Parser

CONSTANTS
  Texts,        \* source texts
  Special       \* identifiers the parser looks for: a function from words to
                \* "type", "msg" and "Array_"

ASSUME TextsAssumption == Texts \subseteq Seq(STRING)

VARIABLES
  stage,        \* "lex", "split", "items" or "done"
  parsed,       \* what the parser reads of every token
  main,         \* the parser of ParseProgram
  starts,       \* startPositions
  sub,          \* the parser of every goroutine
  mutex,        \* mu: the goroutine that holds it, or 0
  inside,       \* the goroutines between mu.Lock and mu.Unlock
  readErrors,   \* what each of them has read of p.Errors, in append
  merged,       \* the goroutines that have called wg.Done
  results,      \* results, the nodes of every item; none for nil
  errors        \* Errors of the parser: item, 0 for ParseProgram, and position

parseVars == <<stage, parsed, main, starts, sub, mutex, inside, readErrors, merged, results,
               errors>>
sourceVars == <<lexVars, parseVars>>

InitSource ==
  /\ \E text \in Texts : InitLexer(text)
  /\ stage = "lex"
  /\ parsed = <<>> /\ main = NewParser(1, <<>>)
  /\ starts = <<>> /\ sub = <<>> /\ merged = {}
  /\ mutex = 0 /\ inside = {} /\ readErrors = <<>>
  /\ results = <<>> /\ errors = <<>>

Lex == stage = "lex" /\ NextToken /\ UNCHANGED parseVars

SpecialOf(w) == IF w \in DOMAIN Special THEN Special[w] ELSE "none"

\* ParseProgram is called when the lexer is done, with errors or without.
BeginParse ==
  /\ stage = "lex" /\ Lexed
  /\ stage' = "split"
  /\ parsed' = [k \in DOMAIN tokens |->
       [type |-> tokens[k].type,
        word |-> IF tokens[k].type = "IDENT" THEN SpecialOf(Word(tokens[k].from, tokens[k].end))
                 ELSE "none"]]
  /\ main' = NewParser(1, IF tokens[1].type = "Explanation" THEN <<Node("Explanation")>> ELSE <<>>)
  /\ UNCHANGED <<lexVars, starts, sub, mutex, inside, readErrors, merged, results, errors>>

ParseExplanation ==
  /\ stage = "split" /\ main.todo # <<>>
  /\ main' = Step(main, parsed)
  /\ UNCHANGED <<lexVars, stage, parsed, starts, sub, mutex, inside, readErrors, merged, results, errors>>

\* skipTopLevel from p on: past the first closing bracket that brings the
\* count of open ones to 0, which an item that begins with one may miss.
Count(p, q, types) == Cardinality({i \in p .. q : parsed[i].type \in types})
Balance(p, q) == Count(p, q, {"[", "{", "("}) - Count(p, q, {"]", "}", ")"})
ItemEnds(p) ==
  {q \in p .. Len(parsed) - 1 : parsed[q].type \in {"]", "}", ")"} /\ Balance(p, q) = 0}

\* mutant: the case of the closing brackets forgets the round one.
SkipSquare(p) ==
  LET ends == {q \in p .. Len(parsed) - 1 :
                 /\ parsed[q].type \in {"]", "}"}
                 /\ Count(p, q, {"[", "{", "("}) = Count(p, q, {"]", "}"})}
  IN IF ends = {} THEN Len(parsed) ELSE (CHOOSE q \in ends : \A r \in ends : q <= r) + 1

skipTopLevel(p) ==
  IF ItemEnds(p) = {} THEN Len(parsed)
  ELSE (CHOOSE q \in ItemEnds(p) : \A r \in ItemEnds(p) : q <= r) + 1

SplitItem ==
  /\ stage = "split" /\ main.todo = <<>>
  /\ parsed[main.pos].type # "EOF"
  /\ starts' = Append(starts, main.pos)
  /\ main' = [main EXCEPT !.pos = skipTopLevel(@)]
  /\ UNCHANGED <<lexVars, stage, parsed, sub, mutex, inside, readErrors, merged, results, errors>>

Items == DOMAIN starts
Tagged(item, errs) == [k \in DOMAIN errs |-> <<item, errs[k]>>]

StartItems ==
  /\ stage = "split" /\ main.todo = <<>>
  /\ parsed[main.pos].type = "EOF"
  /\ stage' = "items"
  /\ sub' = [i \in Items |-> NewParser(starts[i], <<Statement>>)]
  /\ results' = [i \in Items |-> <<>>]
  /\ errors' = Tagged(0, main.errs)
  /\ readErrors' = [i \in Items |-> <<>>]
  /\ UNCHANGED <<lexVars, parsed, main, starts, mutex, inside, merged>>

\* A step of parseStatement in the first goroutine that has one to make.
ParseItem ==
  /\ stage = "items"
  /\ \E i \in Items :
       /\ sub[i].todo # <<>> /\ \A j \in 1 .. i - 1 : sub[j].todo = <<>>
       /\ sub' = [sub EXCEPT ![i] = Step(@, parsed)]
  /\ UNCHANGED <<lexVars, stage, parsed, main, starts, mutex, inside, readErrors, merged, results, errors>>

Parsed == stage = "items" /\ \A i \in Items : sub[i].todo = <<>>

\* mutant: the goroutines do without the mutex.
LockNothing(i) ==
  /\ Parsed /\ i \notin merged \union inside
  /\ mutex' = i /\ inside' = inside \union {i}
  /\ readErrors' = [readErrors EXCEPT ![i] = errors]
  /\ UNCHANGED <<lexVars, stage, parsed, main, starts, sub, merged, results, errors>>

\* mu.Lock, and append reads the list.
Lock(i) ==
  /\ Parsed /\ i \notin merged \union inside
  /\ mutex = 0
  /\ mutex' = i /\ inside' = inside \union {i}
  /\ readErrors' = [readErrors EXCEPT ![i] = errors]
  /\ UNCHANGED <<lexVars, stage, parsed, main, starts, sub, merged, results, errors>>

\* mutant: nodes are appended as the goroutines come.
UnlockAppends(i) ==
  /\ i \in inside
  /\ results' = [results EXCEPT ![Cardinality(merged) + 1] = sub[i].out]
  /\ errors' = readErrors[i] \o Tagged(i, sub[i].errs)
  /\ mutex' = 0 /\ inside' = inside \ {i} /\ merged' = merged \union {i}
  /\ readErrors' = [readErrors EXCEPT ![i] = <<>>]
  /\ UNCHANGED <<lexVars, stage, parsed, main, starts, sub>>

\* mutant: a goroutine that has no node returns without mu.Unlock.
UnlockNodes(i) ==
  /\ i \in inside
  /\ results' = [results EXCEPT ![i] = sub[i].out]
  /\ errors' = readErrors[i] \o Tagged(i, sub[i].errs)
  /\ mutex' = (IF sub[i].out = <<>> THEN mutex ELSE 0)
  /\ inside' = inside \ {i} /\ merged' = merged \union {i}
  /\ readErrors' = [readErrors EXCEPT ![i] = <<>>]
  /\ UNCHANGED <<lexVars, stage, parsed, main, starts, sub>>

\* The node goes to the place of its item, append writes the list, mu.Unlock.
Unlock(i) ==
  /\ i \in inside
  /\ results' = [results EXCEPT ![i] = sub[i].out]
  /\ errors' = readErrors[i] \o Tagged(i, sub[i].errs)
  /\ mutex' = 0 /\ inside' = inside \ {i} /\ merged' = merged \union {i}
  /\ readErrors' = [readErrors EXCEPT ![i] = <<>>]
  /\ UNCHANGED <<lexVars, stage, parsed, main, starts, sub>>

\* What the last loop appends: a statement that is no statement has left nil.
Filled == {i \in DOMAIN results : results[i] # <<>>}
Place(i) == Cardinality({j \in Filled : j <= i})
Appended(k) == results[CHOOSE i \in Filled : Place(i) = k]

\* wg.Wait, and that loop.
Wait ==
  /\ stage = "items" /\ merged = Items
  /\ stage' = "done"
  /\ results' = [k \in 1 .. Cardinality(Filled) |-> Appended(k)]
  /\ UNCHANGED <<lexVars, parsed, main, starts, sub, mutex, inside, readErrors, merged, errors>>

NextSource ==
  \/ Lex \/ BeginParse \/ ParseExplanation \/ SplitItem \/ StartItems \/ ParseItem
  \/ \E i \in Items : Lock(i) \/ Unlock(i)
  \/ Wait

\* The lexer and the parser run to their end once they are called, and a
\* goroutine that can go on is run: nothing here waits for an input.
SpecSource == InitSource /\ [][NextSource]_sourceVars /\ WF_sourceVars(NextSource)

(***************************************************************************)
(* Properties.                                                             *)
(***************************************************************************)
Done == stage = "done"

\* The shape of the parser's state, and what the stages mean.
TypeOKSource ==
  /\ stage \in {"lex", "split", "items", "done"}
  /\ Len(sub) = (IF stage \in {"items", "done"} THEN Len(starts) ELSE 0)
  /\ \A i \in DOMAIN sub : sub[i].pos \in starts[i] .. Len(parsed)
  /\ main.pos \in 1 .. Len(parsed) + 1
  /\ merged \subseteq Items /\ inside \subseteq Items \ merged /\ mutex \in {0} \union inside

\* While the lexer runs: no byte is lost between the tokens, and each token has
\* the line and the column that an editor counts.
NothingSkipped == stage = "lex" => TokensTile
TruePlaces == stage = "lex" => PlacesAreTrue

\* Whatever the order in which the goroutines end, the program has the items
\* in the order of the text: its nodes begin where the items do.
ItemsInOrder ==
  Done => \A j, k \in DOMAIN results : j < k => results[j][1].at < results[k][1].at

\* No error of a goroutine is overwritten by another: after the last one, the
\* list of each is there, whole and in its order.
ErrorsOf(i) == IF i = 0 THEN main.errs ELSE sub[i].errs
Kept(i) ==
  \E n \in 0 .. Len(errors) :
     /\ n + Len(ErrorsOf(i)) <= Len(errors)
     /\ \A k \in 1 .. Len(ErrorsOf(i)) : errors[n + k] = <<i, ErrorsOf(i)[k]>>
NoErrorLost == Done => \A i \in Items \union {0} : Kept(i)

\* Tokens taken as a name or a literal, whatever their type.
Opener(e) == e.kind \in {"name", "leaf"} /\ parsed[e.at].type \in {"[", "{", "("}

\* The items are cut by counting brackets and parsed by the grammar, and each
\* parser has the tokens to the end of the file.  In a program without errors
\* the two agree: every item is parsed to its end and not beyond, so that every
\* token is read once.  An opening bracket that is taken as a name is not an
\* error, but opens an item that has no end.
ItemsAreWhole ==
  Parsed /\ (\A i \in Items : sub[i].errs = <<>> /\ \A k \in DOMAIN sub[i].out : ~Opener(sub[i].out[k]))
    => \A i \in Items : sub[i].pos = IF i = Len(starts) THEN Len(parsed) ELSE starts[i + 1]

\* The parser comes to an end on every text: each turn of a loop of the grammar
\* moves on, at a token that no rule knows too.
SourceIsRead == <>Done

=============================================================================
