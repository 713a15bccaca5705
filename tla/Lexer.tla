-------------------------------- MODULE Lexer --------------------------------
(***************************************************************************)
(* The lexer, lexer/lexer.go: Tokenize calls nextToken until the end of the *)
(* input.  A step is one character of skipWhitespaceAndComments, or one     *)
(* token.                                                                  *)
(*                                                                         *)
(* A character is a string, and what the code tells apart of it is its      *)
(* class.  A token keeps where its text begins and ends in place of the     *)
(* text, and errors keep the position of the lexer in place of a message.   *)
(***************************************************************************)
EXTENDS Integers, Sequences, FiniteSets

CONSTANTS
  Letters,     \* bytes that isLetter accepts, "_" among them
  Digits,      \* bytes that isDigit accepts
  Keywords     \* the table keywords: a function from words to types of token

Newline == "\n"
Quote == "\""

\* The shortest keyword is If (lexer.go:309).
ASSUME KeywordsAreWords ==
  \A w \in DOMAIN Keywords : /\ Len(w) >= 2
                             /\ w[1] \in Letters
                             /\ \A i \in 1 .. Len(w) : w[i] \in Letters \union Digits

\* isLetter and isDigit: a newline ends every word and number.
ASSUME NewlineAssumption == Newline \notin Letters \union Digits

VARIABLES
  input,       \* Lexer.input
  pos,         \* Lexer.pos, counted from 1
  line,        \* Lexer.line
  lineStart,   \* Lexer.lineStart, counted from 1
  tokens,      \* the result of Tokenize so far
  lexErrors    \* Lexer.Errors

lexVars == <<input, pos, line, lineStart, tokens, lexErrors>>

Blanks == {" ", "\t", "\r"}
Brackets == {"[", "]", "{", "}", "(", ")"}
Marks == Brackets \union {",", ":", ";", "*", "/", "+", "-"}   \* each its own type

\* The first position from p on whose character is not one of, or is one of,
\* the given ones; the end of the text if there is none.
Past(p, chars) ==
  CHOOSE q \in p .. Len(input) + 1 :
    /\ \A i \in p .. q - 1 : input[i] \in chars
    /\ q <= Len(input) => input[q] \notin chars

UpTo(p, chars) ==
  CHOOSE q \in p .. Len(input) + 1 :
    /\ \A i \in p .. q - 1 : input[i] \notin chars
    /\ q <= Len(input) => input[q] \in chars

At(p, c) == p <= Len(input) /\ input[p] = c
Lexed == tokens # <<>> /\ tokens[Len(tokens)].type = "EOF"
More == ~Lexed /\ pos <= Len(input)

InitLexer(text) ==
  /\ input = text
  /\ pos = 1 /\ line = 1 /\ lineStart = 1
  /\ tokens = <<>> /\ lexErrors = <<>>

(***************************************************************************)
(* skipWhitespaceAndComments.                                              *)
(***************************************************************************)

\* mutant: the column goes on counting on the next line.
SkipNewlineColumns ==
  /\ More /\ input[pos] = Newline
  /\ line' = line + 1
  /\ pos' = pos + 1
  /\ UNCHANGED <<input, lineStart, tokens, lexErrors>>

SkipNewline ==
  /\ More /\ input[pos] = Newline
  /\ line' = line + 1
  /\ pos' = pos + 1
  /\ lineStart' = pos'
  /\ UNCHANGED <<input, tokens, lexErrors>>

IsComment == At(pos, "#") \/ (At(pos, "/") /\ At(pos + 1, "/"))

\* The newline after a comment is left for the next step.
SkipBlanks ==
  /\ More
  /\ \/ input[pos] \in Blanks /\ pos' = pos + 1
     \/ IsComment /\ pos' = UpTo(pos, {Newline})
  /\ UNCHANGED <<input, line, lineStart, tokens, lexErrors>>

(***************************************************************************)
(* nextToken and the functions it calls.                                   *)
(***************************************************************************)
Token(type, end) ==
  [type |-> type, from |-> pos, end |-> end, line |-> line, col |-> pos - lineStart + 1]

Emit(type, end) ==
  /\ pos' = end
  /\ tokens' = Append(tokens, Token(type, end))
  /\ UNCHANGED <<input, line, lineStart>>

\* "++" and "--" are tokens of their own.
ReadMark ==
  /\ More /\ input[pos] \in Marks /\ ~IsComment
  /\ IF input[pos] \in {"+", "-"} /\ At(pos + 1, input[pos])
     THEN Emit(IF input[pos] = "+" THEN "++" ELSE "--", pos + 2)
     ELSE Emit(input[pos], pos + 1)
  /\ UNCHANGED lexErrors

\* mutant: a string goes on to the quote, over the end of the line.
ReadStringLines ==
  /\ More /\ input[pos] = Quote
  /\ LET close == UpTo(pos + 1, {Quote})
     IN /\ Emit("STRING_LIT", IF close > Len(input) THEN close ELSE close + 1)
        /\ lexErrors' = IF close > Len(input) THEN Append(lexErrors, close) ELSE lexErrors

\* readString; there is no way to write a quote in a string.
ReadString ==
  /\ More /\ input[pos] = Quote
  /\ LET close == UpTo(pos + 1, {Quote, Newline})
     IN IF At(close, Quote)
        THEN Emit("STRING_LIT", close + 1) /\ UNCHANGED lexErrors
        ELSE Emit("STRING_LIT", close) /\ lexErrors' = Append(lexErrors, close)

\* readNumber: 1.2.3 is a number.
ReadNumber ==
  /\ More /\ input[pos] \in Digits
  /\ LET end == Past(pos, Digits \union {"."})
     IN Emit(IF \E i \in pos .. end - 1 : input[i] = "." THEN "FLOAT_LIT" ELSE "INT_LIT", end)
  /\ UNCHANGED lexErrors

Word(from, end) == SubSeq(input, from, end - 1)
WordType(w) == IF w \in DOMAIN Keywords THEN Keywords[w] ELSE "IDENT"

\* readIdentOrKeyword.
ReadIdentOrKeyword ==
  /\ More /\ input[pos] \in Letters
  /\ LET end == Past(pos, Letters \union Digits)
     IN Emit(WordType(Word(pos, end)), end)
  /\ UNCHANGED lexErrors

\* mutant: a byte that starts no token is passed over in silence.
PassUnknown ==
  /\ More
  /\ input[pos] \notin Blanks \union Marks \union Letters \union Digits \union {Quote, "#", Newline}
  /\ pos' = pos + 1
  /\ UNCHANGED <<input, line, lineStart, tokens, lexErrors>>

\* Any other byte is reported and passed over.
ReadUnknown ==
  /\ More
  /\ input[pos] \notin Blanks \union Marks \union Letters \union Digits \union {Quote, "#", Newline}
  /\ lexErrors' = Append(lexErrors, pos)
  /\ pos' = pos + 1
  /\ UNCHANGED <<input, line, lineStart, tokens>>

ReadEnd ==
  /\ ~Lexed /\ pos > Len(input)
  /\ Emit("EOF", pos)
  /\ UNCHANGED lexErrors

NextToken ==
  \/ SkipNewline \/ SkipBlanks
  \/ ReadMark \/ ReadString \/ ReadNumber \/ ReadIdentOrKeyword \/ ReadUnknown \/ ReadEnd

(***************************************************************************)
(* Properties.                                                             *)
(***************************************************************************)
Covered(i) == \E k \in 1 .. Len(tokens) : tokens[k].from <= i /\ i < tokens[k].end

\* Nothing of the text before the position is lost: what no token covers is
\* white space, is in a comment, or has been reported; and no two tokens
\* overlap.
TokensTile ==
  /\ \A k \in 1 .. Len(tokens) - 1 : tokens[k].end <= tokens[k + 1].from
  /\ \A i \in 1 .. pos - 1 :
       \/ Covered(i)
       \/ input[i] \in Blanks \union {Newline}
       \/ \E j \in 1 .. Len(lexErrors) : lexErrors[j] = i
       \/ \E j \in 1 .. i : /\ ~Covered(j)
                            /\ input[j] = "#" \/ (input[j] = "/" /\ At(j + 1, "/"))
                            /\ \A m \in j .. i : input[m] # Newline

\* The place a diagnostic is going to name, for every token: the line and the
\* column that an editor counts, in bytes.
PlacesAreTrue ==
  \A k \in 1 .. Len(tokens) :
    LET t == tokens[k]
        before == {i \in 1 .. t.from - 1 : input[i] = Newline}
    IN /\ t.line = 1 + Cardinality(before)
       /\ \E n \in before \union {0} : t.col = t.from - n /\ \A m \in before : m <= n

=============================================================================
