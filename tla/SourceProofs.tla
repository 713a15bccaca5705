----------------------------- MODULE SourceProofs -----------------------------
(***************************************************************************)
(* The lexer and ParseProgram, for every text and every schedule: the       *)
(* goroutines and their errors, then the lexer, the order of the items, and  *)
(* last that they are the items of the grammar.                             *)
(***************************************************************************)
EXTENDS Source, SequenceTheorems, FiniteSetTheorems, WellFoundedInduction, TLAPS

\* A sequence, of whatever.
IsSeq(s) == \E S : s \in Seq(S)

\* Append makes a sequence of one.
LEMMA AppendIsSeq ==
  ASSUME NEW s, IsSeq(s), NEW x
  PROVE  IsSeq(Append(s, x))
<1>1. PICK S : s \in Seq(S)
  BY DEF IsSeq
<1> DEFINE T == S \union {x}
<1>2. s \in Seq(T) /\ x \in T
  BY <1>1, SeqMonotonic
<1>3. Append(s, x) \in Seq(T)
  BY <1>2, AppendProperties
<1> QED
  BY <1>3 DEF IsSeq

\* A sequence has a length, and is defined up to it.
LEMMA LenIsNat ==
  ASSUME NEW s, IsSeq(s)
  PROVE  Len(s) \in Nat /\ DOMAIN s = 1 .. Len(s)
BY LenProperties DEF IsSeq

\* Two sequences, one behind the other: the places of both.
LEMMA ConcatIsSeq ==
  ASSUME NEW s, IsSeq(s), NEW t, IsSeq(t)
  PROVE  /\ IsSeq(s \o t) /\ Len(s \o t) = Len(s) + Len(t)
         /\ \A k \in 1 .. Len(s) : (s \o t)[k] = s[k]
         /\ \A k \in 1 .. Len(t) : (s \o t)[Len(s) + k] = t[k]
<1>1. PICK S : s \in Seq(S)
  BY DEF IsSeq
<1>2. PICK T : t \in Seq(T)
  BY DEF IsSeq
<1> DEFINE U == S \union T
<1>3. s \in Seq(U) /\ t \in Seq(U)
  BY <1>1, <1>2, SeqMonotonic
<1> HIDE DEF U
<1>4. /\ s \o t \in Seq(U) /\ Len(s \o t) = Len(s) + Len(t)
      /\ \A k \in 1 .. Len(s) + Len(t) : (s \o t)[k] = IF k <= Len(s) THEN s[k] ELSE t[k - Len(s)]
  BY <1>3, ConcatProperties
<1>5. Len(s) \in Nat /\ Len(t) \in Nat
  BY <1>3, LenProperties
<1>6. \A k \in 1 .. Len(s) : (s \o t)[k] = s[k]
  BY <1>4, <1>5
<1>7. ASSUME NEW k \in 1 .. Len(t)
      PROVE  (s \o t)[Len(s) + k] = t[k]
  <2>1. Len(s) + k \in 1 .. Len(s) + Len(t) /\ ~(Len(s) + k <= Len(s)) /\ Len(s) + k - Len(s) = k
    BY <1>5
  <2> QED
    BY <1>4, <2>1
<1> QED
  BY <1>4, <1>6, <1>7 DEF IsSeq

\* The errors of a goroutine, as ParseProgram tells them apart.
LEMMA TaggedIsSeq ==
  ASSUME NEW s, IsSeq(s), NEW i
  PROVE  /\ IsSeq(Tagged(i, s)) /\ Len(Tagged(i, s)) = Len(s)
         /\ \A k \in 1 .. Len(s) : Tagged(i, s)[k] = <<i, s[k]>>
<1>1. Len(s) \in Nat /\ DOMAIN s = 1 .. Len(s)
  BY LenIsNat
<1> DEFINE n == Len(s)
           T == {<<i, s[k]>> : k \in 1 .. n}
<1>2. Tagged(i, s) = [k \in 1 .. n |-> <<i, s[k]>>]
  BY <1>1 DEF Tagged
<1>3. Tagged(i, s) \in [1 .. n -> T]
  BY <1>2
<1>4. Tagged(i, s) \in Seq(T)
  BY <1>1, <1>3, SeqDef
<1>5. Len(Tagged(i, s)) = n
  BY <1>1, <1>2, <1>4, LenProperties
<1> QED
  BY <1>2, <1>4, <1>5 DEF IsSeq

\* What the proof has to know of a parser: its list of errors is one.
IsParser(m) == "errs" \in DOMAIN m /\ IsSeq(m.errs)

\* New starts with no errors.
LEMMA NewParserIsParser ==
  ASSUME NEW from, NEW row
  PROVE  IsParser(NewParser(from, row))
BY EmptySeq DEF IsParser, NewParser, IsSeq

\* A step of the grammar leaves the errors alone or appends one.
LEMMA StepIsParser ==
  ASSUME NEW m, IsParser(m), NEW ts
  PROVE  IsParser(Step(m, ts))
<1> DEFINE e == Append(m.errs, m.pos)
           h == Step(m, ts)
<1>1. IsSeq(e)
  BY AppendIsSeq DEF IsParser
<1>2. /\ DOMAIN h = DOMAIN m
      /\ h.errs = m.errs \/ h.errs = e
  BY DEF Step, Enter, IsParser
<1> QED
  BY <1>1, <1>2 DEF IsParser

(***************************************************************************)
(* The inductive invariant.  The mutex keeps all but one goroutine out of   *)
(* append, so that what the one inside has read is still the list; and a    *)
(* goroutine is done with its own errors before the first one takes it.     *)
(***************************************************************************)
Begun == stage \in {"items", "done"}
ListsAre == IsParser(main) /\ IsSeq(starts) /\ IsSeq(errors)
NotBegun == ~Begun => merged = {} /\ inside = {} /\ mutex = 0
SubsAre == Begun => /\ DOMAIN sub = Items /\ DOMAIN readErrors = Items
                    /\ \A i \in Items : IsParser(sub[i])
Exclusion == /\ merged \subseteq Items /\ inside \subseteq Items \ merged
             /\ \A i \in inside : mutex = i
ReadsHold == \A i \in inside : readErrors[i] = errors
AllKept == Begun => \A i \in merged \union {0} : Kept(i)
Settled == inside \union merged # {} => \A i \in Items : sub[i].todo = <<>>
Complete == stage = "done" => merged = Items

MergeInv ==
  /\ ListsAre /\ NotBegun /\ SubsAre /\ Exclusion /\ ReadsHold /\ AllKept /\ Settled /\ Complete

\* Items are counted from 1.
LEMMA ItemsArePositive ==
  ASSUME IsSeq(starts)
  PROVE  0 \notin Items
BY LenIsNat DEF Items

\* A list that is there stays there when another one is appended.
LEMMA KeptStays ==
  ASSUME IsSeq(errors), NEW t, IsSeq(t), errors' = errors \o t,
         NEW i, Kept(i), ErrorsOf(i)' = ErrorsOf(i), IsSeq(ErrorsOf(i))
  PROVE  Kept(i)'
<1>1. PICK n \in 0 .. Len(errors) :
        /\ n + Len(ErrorsOf(i)) <= Len(errors)
        /\ \A k \in 1 .. Len(ErrorsOf(i)) : errors[n + k] = <<i, ErrorsOf(i)[k]>>
  BY DEF Kept
<1> DEFINE own == ErrorsOf(i)
<1>2. /\ Len(errors) \in Nat /\ Len(t) \in Nat /\ Len(own) \in Nat
      /\ Len(errors') = Len(errors) + Len(t)
      /\ \A k \in 1 .. Len(errors) : errors'[k] = errors[k]
  BY ConcatIsSeq, LenIsNat
<1> HIDE DEF own
<1>3. own' = own
  BY DEF own
<1>4. n \in 0 .. Len(errors') /\ n + Len(own) <= Len(errors')
  BY <1>1, <1>2 DEF own
<1>5. ASSUME NEW k \in 1 .. Len(own)
      PROVE  errors'[n + k] = <<i, own[k]>>
  <2>1. n + k \in 1 .. Len(errors)
    BY <1>1, <1>2 DEF own
  <2> QED
    BY <1>1, <1>2, <2>1 DEF own
<1> QED
  BY <1>3, <1>4, <1>5 DEF Kept, own

\* The list that is appended is there.
LEMMA KeptNow ==
  ASSUME IsSeq(errors), NEW i, IsSeq(ErrorsOf(i)), ErrorsOf(i)' = ErrorsOf(i),
         errors' = errors \o Tagged(i, ErrorsOf(i))
  PROVE  Kept(i)'
<1> DEFINE own == ErrorsOf(i)
           t == Tagged(i, own)
<1>1. IsSeq(t) /\ Len(t) = Len(own) /\ \A k \in 1 .. Len(own) : t[k] = <<i, own[k]>>
  BY TaggedIsSeq
<1>2. Len(errors) \in Nat /\ Len(own) \in Nat
  BY LenIsNat
<1>3. errors' = errors \o t /\ own' = own
  OBVIOUS
<1> HIDE DEF t, own
<1>4. /\ Len(errors') = Len(errors) + Len(own)
      /\ \A k \in 1 .. Len(own) : errors'[Len(errors) + k] = <<i, own[k]>>
  <2>0. IsSeq(errors) /\ IsSeq(t)
    BY <1>1
  <2>1. /\ Len(errors \o t) = Len(errors) + Len(t)
        /\ \A k \in 1 .. Len(t) : (errors \o t)[Len(errors) + k] = t[k]
    BY <2>0, ConcatIsSeq
  <2> QED
    BY <1>1, <1>3, <2>1
<1>5. Len(errors) \in 0 .. Len(errors') /\ Len(errors) + Len(own) <= Len(errors')
  BY <1>2, <1>4
<1> QED
  BY <1>3, <1>4, <1>5 DEF Kept, own

(***************************************************************************)
(* The invariant is inductive.                                             *)
(***************************************************************************)
\* The lexer, and ParseProgram before it starts the goroutines.
LEMMA SplittingKeeps ==
  ASSUME MergeInv, Lex \/ BeginParse \/ ParseExplanation \/ SplitItem
  PROVE  MergeInv'
<1>1. /\ ~Begun /\ ~Begun' /\ sub' = sub /\ merged' = merged /\ inside' = inside
      /\ mutex' = mutex /\ readErrors' = readErrors /\ errors' = errors /\ stage' # "done"
  BY DEF Lex, BeginParse, ParseExplanation, SplitItem, Begun, parseVars
<1>2. merged = {} /\ inside = {} /\ mutex = 0
  BY <1>1 DEF MergeInv, NotBegun
<1>3. IsParser(main')
  <2>1. CASE Lex
    BY <2>1 DEF Lex, parseVars, MergeInv, ListsAre
  <2>2. CASE BeginParse
    BY <2>2, NewParserIsParser DEF BeginParse
  <2>3. CASE ParseExplanation
    BY <2>3, StepIsParser DEF ParseExplanation, MergeInv, ListsAre
  <2>4. CASE SplitItem
    BY <2>4 DEF SplitItem, MergeInv, ListsAre, IsParser
  <2> QED
    BY <2>1, <2>2, <2>3, <2>4
<1>4. IsSeq(starts')
  <2>1. CASE SplitItem
    BY <2>1, AppendIsSeq DEF SplitItem, MergeInv, ListsAre
  <2>2. CASE ~SplitItem
    BY <2>2 DEF Lex, BeginParse, ParseExplanation, parseVars, MergeInv, ListsAre
  <2> QED
    BY <2>1, <2>2
<1> QED
  BY <1>1, <1>2, <1>3, <1>4
  DEF MergeInv, ListsAre, NotBegun, SubsAre, Exclusion, ReadsHold, AllKept, Settled, Complete

\* The errors of the preamble are the first in the list.
LEMMA StartItemsKeeps ==
  ASSUME MergeInv, StartItems
  PROVE  MergeInv'
<1>1. /\ ~Begun /\ Begun' /\ stage' # "done" /\ main' = main /\ starts' = starts
      /\ merged' = merged /\ inside' = inside /\ mutex' = mutex
      /\ errors' = Tagged(0, main.errs)
      /\ sub' = [i \in Items |-> NewParser(starts[i], <<Statement>>)]
      /\ readErrors' = [i \in Items |-> <<>>]
  BY DEF StartItems, Begun
<1>2. merged = {} /\ inside = {} /\ mutex = 0
  BY <1>1 DEF MergeInv, NotBegun
<1>3. Items' = Items
  BY <1>1 DEF Items
<1>4. SubsAre'
  BY <1>1, <1>3, NewParserIsParser DEF SubsAre
<1>5. /\ IsSeq(main.errs) /\ IsSeq(errors') /\ Len(errors') = Len(main.errs)
      /\ \A k \in 1 .. Len(main.errs) : errors'[k] = <<0, main.errs[k]>>
      /\ Len(main.errs) \in Nat
  BY <1>1, TaggedIsSeq, LenIsNat DEF MergeInv, ListsAre, IsParser
<1>6. Kept(0)'
  <2>1. ErrorsOf(0)' = main.errs
    BY <1>1 DEF ErrorsOf
  <2>2. /\ 0 \in 0 .. Len(errors') /\ 0 + Len(main.errs) <= Len(errors')
        /\ \A k \in 1 .. Len(main.errs) : errors'[0 + k] = <<0, main.errs[k]>>
    BY <1>5
  <2> QED
    BY <2>1, <2>2 DEF Kept
<1> QED
  BY <1>1, <1>2, <1>4, <1>5, <1>6
  DEF MergeInv, ListsAre, NotBegun, Exclusion, ReadsHold, AllKept, Settled, Complete

\* No goroutine has come to the mutex while one of them still parses.
LEMMA ParseItemKeeps ==
  ASSUME MergeInv, ParseItem
  PROVE  MergeInv'
<1>1. PICK i \in Items : sub[i].todo # <<>> /\ sub' = [sub EXCEPT ![i] = Step(sub[i], parsed)]
  BY DEF ParseItem
<1>2. /\ Begun /\ stage' = stage /\ stage # "done" /\ main' = main /\ starts' = starts
      /\ merged' = merged /\ inside' = inside /\ mutex' = mutex /\ readErrors' = readErrors
      /\ errors' = errors
  BY DEF ParseItem, Begun
<1>3. merged = {} /\ inside = {}
  BY <1>1 DEF MergeInv, Settled
<1>4. Items' = Items
  BY <1>2 DEF Items
<1>5. SubsAre'
  BY <1>1, <1>2, <1>4, StepIsParser DEF MergeInv, SubsAre
<1>6. Kept(0)'
  <2>1. Kept(0)
    BY <1>2 DEF MergeInv, AllKept
  <2> QED
    BY <1>2, <2>1 DEF Kept, ErrorsOf
<1> QED
  BY <1>2, <1>3, <1>5, <1>6
  DEF MergeInv, ListsAre, NotBegun, Exclusion, ReadsHold, AllKept, Settled, Complete, Begun

\* A goroutine that locks reads the list as it is: nobody is inside.
LEMMA LockKeeps ==
  ASSUME MergeInv, NEW i \in Items, Lock(i)
  PROVE  MergeInv'
<1>1. /\ Parsed /\ i \notin merged /\ mutex = 0 /\ mutex' = i /\ inside' = inside \union {i}
      /\ readErrors' = [readErrors EXCEPT ![i] = errors]
      /\ stage' = stage /\ main' = main /\ starts' = starts /\ sub' = sub /\ merged' = merged
      /\ errors' = errors
  BY DEF Lock
<1>2. Begun /\ Begun' /\ stage # "done" /\ Items' = Items
  BY <1>1 DEF Parsed, Begun, Items
<1>3. inside = {}
  BY <1>1, ItemsArePositive DEF MergeInv, Exclusion, ListsAre
<1>4. ListsAre' /\ SubsAre'
  BY <1>1, <1>2 DEF MergeInv, ListsAre, SubsAre
<1>5. Exclusion'
  BY <1>1, <1>2, <1>3 DEF MergeInv, Exclusion
<1>6. ReadsHold'
  BY <1>1, <1>2, <1>3 DEF MergeInv, SubsAre, ReadsHold
<1>7. AllKept'
  <2>1. \A j : Kept(j)' <=> Kept(j)
    BY <1>1, Zenon DEF Kept, ErrorsOf
  <2> QED
    BY <1>1, <1>2, <2>1 DEF MergeInv, AllKept
<1>8. Settled'
  BY <1>1, <1>2 DEF Parsed, Settled
<1> QED
  BY <1>1, <1>2, <1>4, <1>5, <1>6, <1>7, <1>8 DEF MergeInv, NotBegun, Complete

\* A goroutine that unlocks adds its errors behind all that were there.
LEMMA UnlockKeeps ==
  ASSUME MergeInv, NEW i \in Items, Unlock(i)
  PROVE  MergeInv'
<1>1. /\ i \in inside /\ mutex' = 0 /\ inside' = inside \ {i} /\ merged' = merged \union {i}
      /\ errors' = readErrors[i] \o Tagged(i, sub[i].errs)
      /\ readErrors' = [readErrors EXCEPT ![i] = <<>>]
      /\ stage' = stage /\ main' = main /\ starts' = starts /\ sub' = sub
  BY DEF Unlock
<1>2. Begun /\ Begun' /\ Items' = Items /\ stage # "done"
  BY <1>1 DEF MergeInv, NotBegun, Begun, Items, Complete, Exclusion
<1>3. inside = {i}
  BY <1>1 DEF MergeInv, Exclusion
<1>4. i # 0 /\ ErrorsOf(i) = sub[i].errs /\ IsSeq(errors)
  BY ItemsArePositive DEF MergeInv, ListsAre, ErrorsOf
<1>5. errors' = errors \o Tagged(i, ErrorsOf(i))
  BY <1>1, <1>4 DEF MergeInv, ReadsHold
<1>6. \A j \in Items \union {0} : IsSeq(ErrorsOf(j)) /\ ErrorsOf(j)' = ErrorsOf(j)
  BY <1>1, <1>2 DEF MergeInv, ListsAre, SubsAre, IsParser, ErrorsOf
<1>7. IsSeq(Tagged(i, ErrorsOf(i))) /\ IsSeq(errors')
  BY <1>4, <1>5, <1>6, TaggedIsSeq, ConcatIsSeq
<1>8. ListsAre' /\ SubsAre'
  BY <1>1, <1>2, <1>7 DEF MergeInv, ListsAre, SubsAre
<1>9. Exclusion' /\ ReadsHold'
  BY <1>1, <1>2, <1>3 DEF MergeInv, Exclusion, ReadsHold
<1>10. AllKept'
  <2>1. ASSUME NEW j \in merged \union {0} PROVE Kept(j)'
    <3>1. Kept(j) /\ j \in Items \union {0}
      BY <1>2 DEF MergeInv, AllKept, Exclusion
    <3> QED
      BY <3>1, <1>4, <1>5, <1>6, <1>7, KeptStays
  <2>2. Kept(i)'
    BY <1>4, <1>5, <1>6, KeptNow
  <2> QED
    BY <1>1, <2>1, <2>2 DEF AllKept
<1>11. Settled'
  BY <1>1, <1>2 DEF MergeInv, Settled
<1> QED
  BY <1>1, <1>2, <1>8, <1>9, <1>10, <1>11 DEF MergeInv, NotBegun, Complete

\* wg.Wait ends when every goroutine has been inside.
LEMMA WaitKeeps ==
  ASSUME MergeInv, Wait
  PROVE  MergeInv'
<1>1. /\ Begun /\ Begun' /\ merged = Items /\ merged' = merged /\ inside' = inside
      /\ mutex' = mutex /\ readErrors' = readErrors /\ errors' = errors
      /\ main' = main /\ starts' = starts /\ sub' = sub
  BY DEF Wait, Begun
<1>2. Items' = Items
  BY <1>1 DEF Items
<1>3. AllKept'
  <2>1. \A i : Kept(i)' <=> Kept(i)
    BY <1>1, Zenon DEF Kept, ErrorsOf
  <2> QED
    BY <1>1, <2>1 DEF MergeInv, AllKept
<1> QED
  BY <1>1, <1>2, <1>3
  DEF MergeInv, ListsAre, NotBegun, SubsAre, Exclusion, ReadsHold, Settled, Complete

\* The invariant is one of every behaviour.
LEMMA MergeInvCorrect == SpecSource => []MergeInv
<1>1. InitSource => MergeInv
  <2> SUFFICES ASSUME InitSource PROVE MergeInv
    OBVIOUS
  <2>1. /\ stage = "lex" /\ main = NewParser(1, <<>>) /\ starts = <<>> /\ errors = <<>>
        /\ merged = {} /\ inside = {} /\ mutex = 0
    BY DEF InitSource
  <2>2. IsSeq(starts) /\ IsSeq(errors)
    BY <2>1, EmptySeq DEF IsSeq
  <2>3. IsParser(main)
    BY <2>1, NewParserIsParser
  <2>4. ~Begun
    BY <2>1 DEF Begun
  <2> QED
    BY <2>1, <2>2, <2>3, <2>4
    DEF MergeInv, ListsAre, NotBegun, SubsAre, Exclusion, ReadsHold, AllKept, Settled, Complete
<1>2. MergeInv /\ [NextSource]_sourceVars => MergeInv'
  <2>1. ASSUME MergeInv, UNCHANGED sourceVars PROVE MergeInv'
    <3>1. /\ stage' = stage /\ main' = main /\ starts' = starts /\ sub' = sub /\ mutex' = mutex
          /\ inside' = inside /\ readErrors' = readErrors /\ merged' = merged /\ errors' = errors
      BY <2>1 DEF sourceVars, parseVars
    <3>2. Items' = Items /\ Begun' = Begun
      BY <3>1 DEF Items, Begun
    <3>3. \A i : Kept(i)' <=> Kept(i)
      BY <3>1, Zenon DEF Kept, ErrorsOf
    <3>4. AllKept'
      BY <2>1, <3>1, <3>2, <3>3 DEF MergeInv, AllKept
    <3> QED
      BY <2>1, <3>1, <3>2, <3>4
      DEF MergeInv, ListsAre, NotBegun, SubsAre, Exclusion, ReadsHold, Settled, Complete
  <2> QED
    BY <2>1, SplittingKeeps, StartItemsKeeps, ParseItemKeeps, LockKeeps, UnlockKeeps, WaitKeeps
    DEF NextSource
<1> QED
  BY <1>1, <1>2, PTL DEF SpecSource

\* For every text, and whatever the order in which the goroutines come to the
\* mutex and whatever else runs between their steps: when ParseProgram returns,
\* the errors of every item and of the preamble are in its list.
THEOREM NoErrorIsLost == SpecSource => []NoErrorLost
<1>1. MergeInv => NoErrorLost
  BY DEF MergeInv, AllKept, Complete, NoErrorLost, Done, Begun
<1> QED
  BY <1>1, MergeInvCorrect, PTL

(***************************************************************************)
(* The lexer, for every text.                                              *)
(***************************************************************************)
\* A set of numbers that is not empty has a least one.
LEMMA LeastNumber ==
  ASSUME NEW T \in SUBSET Nat, T # {}
  PROVE  \E m \in T : \A k \in T : m <= k
<1> DEFINE R == OpToRel(<, Nat)
<1>1. IsWellFoundedOn(R, Nat)
  BY NatLessThanWellFounded
<1>2. PICK m \in T : \A k \in T : ~ (<<k, m>> \in R)
  <2> HIDE DEF R
  <2> QED BY <1>1, WFMin
<1>3. \A k \in T : ~(k < m)
  BY <1>2 DEF OpToRel
<1> QED
  BY <1>3

\* Where a search that begins at p ends, of which Stop are the positions it stops at.
Ends(p, Stop, q) ==
  /\ q \in p .. Len(input) + 1
  /\ \A i \in p .. q - 1 : i \notin Stop
  /\ q <= Len(input) => q \in Stop

\* The loops of the lexer over a text come to an end.
LEMMA SearchEnds ==
  ASSUME NEW p \in 1 .. Len(input) + 1, Len(input) \in Nat, NEW Stop
  PROVE  \E q : Ends(p, Stop, q)
<1> DEFINE Hits == {q \in p .. Len(input) + 1 : q = Len(input) + 1 \/ q \in Stop}
<1>1. Hits \in SUBSET Nat /\ Len(input) + 1 \in Hits
  OBVIOUS
<1>2. PICK q \in Hits : \A k \in Hits : q <= k
  BY <1>1, LeastNumber
<1>3. \A i \in p .. q - 1 : i \in p .. Len(input) + 1 /\ ~(q <= i)
  BY <1>2
<1>4. \A i \in p .. q - 1 : i \notin Stop
  BY <1>2, <1>3
<1>5. q \in p .. Len(input) + 1 /\ (q <= Len(input) => q \in Stop)
  BY <1>2
<1> QED
  BY <1>4, <1>5 DEF Ends

\* The positions of the characters that are in chars, and of the others.
InChars(chars) == {i \in Int : input[i] \in chars}
OutOfChars(chars) == {i \in Int : input[i] \notin chars}

\* UpTo and Past find a place, at p or later.
LEMMA UpToEnds ==
  ASSUME NEW p \in 1 .. Len(input) + 1, Len(input) \in Nat, NEW chars
  PROVE  /\ UpTo(p, chars) \in p .. Len(input) + 1
         /\ \A i \in p .. UpTo(p, chars) - 1 : input[i] \notin chars
         /\ UpTo(p, chars) <= Len(input) => input[UpTo(p, chars)] \in chars
<1> DEFINE Good(q) == /\ \A i \in p .. q - 1 : input[i] \notin chars
                      /\ q <= Len(input) => input[q] \in chars
<1>1. PICK q : Ends(p, InChars(chars), q)
  BY SearchEnds
<1>2. q \in p .. Len(input) + 1 /\ Good(q)
  BY <1>1 DEF Ends, InChars
<1>3. UpTo(p, chars) = CHOOSE r \in p .. Len(input) + 1 : Good(r)
  BY DEF UpTo
<1>4. UpTo(p, chars) \in p .. Len(input) + 1 /\ Good(UpTo(p, chars))
  <2> HIDE DEF Good
  <2> QED
    BY <1>2, <1>3
<1> QED
  BY <1>4

\* The same of Past.
LEMMA PastEnds ==
  ASSUME NEW p \in 1 .. Len(input) + 1, Len(input) \in Nat, NEW chars
  PROVE  /\ Past(p, chars) \in p .. Len(input) + 1
         /\ \A i \in p .. Past(p, chars) - 1 : input[i] \in chars
         /\ Past(p, chars) <= Len(input) => input[Past(p, chars)] \notin chars
<1> DEFINE Good(q) == /\ \A i \in p .. q - 1 : input[i] \in chars
                      /\ q <= Len(input) => input[q] \notin chars
<1>1. PICK q : Ends(p, OutOfChars(chars), q)
  BY SearchEnds
<1>2. q \in p .. Len(input) + 1 /\ Good(q)
  BY <1>1 DEF Ends, OutOfChars
<1>3. Past(p, chars) = CHOOSE r \in p .. Len(input) + 1 : Good(r)
  BY DEF Past
<1>4. Past(p, chars) \in p .. Len(input) + 1 /\ Good(Past(p, chars))
  <2> HIDE DEF Good
  <2> QED
    BY <1>2, <1>3
<1> QED
  BY <1>4

\* The newlines before p, and what the line and the start of the line are there.
NewlinesBefore(p) == {i \in 1 .. p - 1 : input[i] = Newline}
LineAt(p, l) == l = 1 + Cardinality(NewlinesBefore(p))
StartAt(p, s) ==
  /\ s \in Int /\ s - 1 \in NewlinesBefore(p) \union {0}
  /\ \A m \in NewlinesBefore(p) : m <= s - 1

\* There are finitely many newlines before a position.
LEMMA NewlinesAreFinite ==
  ASSUME NEW p \in Int
  PROVE  IsFiniteSet(NewlinesBefore(p)) /\ Cardinality(NewlinesBefore(p)) \in Nat
<1>1. IsFiniteSet(1 .. p - 1)
  BY FS_Interval
<1>2. NewlinesBefore(p) \subseteq 1 .. p - 1
  BY DEF NewlinesBefore
<1>3. IsFiniteSet(NewlinesBefore(p))
  BY <1>1, <1>2, FS_Subset
<1> QED
  BY <1>3, FS_CardinalityType

\* On the same line the place stays; a newline makes the next one.
LEMMA SameLine ==
  ASSUME NEW p \in Nat, NEW q \in Nat, p <= q, \A i \in p .. q - 1 : input[i] # Newline
  PROVE  NewlinesBefore(q) = NewlinesBefore(p)
<1>1. \A i \in 1 .. q - 1 : i \in 1 .. p - 1 \/ i \in p .. q - 1
  OBVIOUS
<1>2. \A i \in 1 .. p - 1 : i \in 1 .. q - 1
  OBVIOUS
<1> QED
  BY <1>1, <1>2 DEF NewlinesBefore

\* A newline begins the next line, behind it.
LEMMA NextLine ==
  ASSUME NEW p \in Nat, p >= 1, input[p] = Newline, NEW l, LineAt(p, l)
  PROVE  LineAt(p + 1, l + 1) /\ StartAt(p + 1, p + 1)
<1>1. /\ \A i \in 1 .. p : i \in 1 .. p - 1 \/ i = p
      /\ \A i \in 1 .. p - 1 : i \in 1 .. p
      /\ p \in 1 .. p /\ p \notin 1 .. p - 1
      /\ (p + 1) - 1 = p
  OBVIOUS
<1>2. NewlinesBefore(p + 1) = NewlinesBefore(p) \union {p} /\ p \notin NewlinesBefore(p)
  BY <1>1 DEF NewlinesBefore
<1>3. Cardinality(NewlinesBefore(p + 1)) = Cardinality(NewlinesBefore(p)) + 1
  BY <1>2, NewlinesAreFinite, FS_AddElement
<1>4. LineAt(p + 1, l + 1)
  BY <1>3, NewlinesAreFinite DEF LineAt
<1>5. \A m \in NewlinesBefore(p + 1) : m <= (p + 1) - 1
  BY <1>1 DEF NewlinesBefore
<1> QED
  BY <1>1, <1>2, <1>4, <1>5 DEF StartAt

\* What the properties say of one token and of one character, of the text so far.
TruePlace(t) ==
  /\ t.line = 1 + Cardinality(NewlinesBefore(t.from))
  /\ \E n \in NewlinesBefore(t.from) \union {0} :
       t.col = t.from - n /\ \A m \in NewlinesBefore(t.from) : m <= n

CoveredBy(ts, i) == \E k \in 1 .. Len(ts) : ts[k].from <= i /\ i < ts[k].end
Reported(es, i) == \E j \in 1 .. Len(es) : es[j] = i
InComment(j, i) ==
  /\ input[j] = "#" \/ (input[j] = "/" /\ At(j + 1, "/"))
  /\ \A m \in j .. i : input[m] # Newline
Explained(ts, es, i) ==
  \/ CoveredBy(ts, i)
  \/ input[i] \in Blanks \union {Newline}
  \/ Reported(es, i)
  \/ \E j \in 1 .. i : ~CoveredBy(ts, j) /\ InComment(j, i)

Spans(t, p) == t.from \in Int /\ t.end \in Int /\ t.from <= t.end /\ t.end <= p

(***************************************************************************)
(* The inductive invariant: the lexer is in the text, at the line and the   *)
(* column it says; its tokens end before it and one before the next; and    *)
(* the text behind it is explained.                                        *)
(***************************************************************************)
Placed == /\ IsSeq(input) /\ pos \in 1 .. Len(input) + 1
          /\ LineAt(pos, line) /\ StartAt(pos, lineStart)
TokensTrue(ts, p) ==
  /\ IsSeq(ts)
  /\ \A k \in 1 .. Len(ts) : Spans(ts[k], p) /\ TruePlace(ts[k])
InOrder(ts) == \A k \in 1 .. Len(ts) - 1 : ts[k].end <= ts[k + 1].from
ExplainedTo(ts, es, p) == IsSeq(es) /\ \A i \in 1 .. p - 1 : Explained(ts, es, i)

LexInv ==
  Placed /\ TokensTrue(tokens, pos) /\ InOrder(tokens) /\ ExplainedTo(tokens, lexErrors, pos)

\* The invariant says what the properties do.
LEMMA LexInvSuffices == LexInv => TokensTile /\ PlacesAreTrue
<1> SUFFICES ASSUME LexInv PROVE TokensTile /\ PlacesAreTrue
  OBVIOUS
<1>1. \A i : Covered(i) <=> CoveredBy(tokens, i)
  BY DEF Covered, CoveredBy
<1>2. TokensTile
  <2>1. InOrder(tokens) /\ \A i \in 1 .. pos - 1 : Explained(tokens, lexErrors, i)
    BY DEF LexInv, ExplainedTo
  <2>2. \A k \in 1 .. Len(tokens) - 1 : tokens[k].end <= tokens[k + 1].from
    BY <2>1, Zenon DEF InOrder
  <2>3. ASSUME NEW i \in 1 .. pos - 1
        PROVE  \/ Covered(i)
               \/ input[i] \in Blanks \union {Newline}
               \/ \E j \in 1 .. Len(lexErrors) : lexErrors[j] = i
               \/ \E j \in 1 .. i : /\ ~Covered(j)
                                    /\ input[j] = "#" \/ (input[j] = "/" /\ At(j + 1, "/"))
                                    /\ \A m \in j .. i : input[m] # Newline
    BY <1>1, <2>1, Zenon DEF Explained, Reported, InComment
  <2> QED
    BY <2>2, <2>3, Zenon DEF TokensTile
<1>3. PlacesAreTrue
  <2>1. \A k \in 1 .. Len(tokens) : TruePlace(tokens[k])
    BY DEF LexInv, TokensTrue
  <2> QED
    BY <2>1, Zenon DEF PlacesAreTrue, TruePlace, NewlinesBefore
<1> QED
  BY <1>2, <1>3

\* What is explained stays so when an error is added.
LEMMA ReportsStay ==
  ASSUME NEW es, IsSeq(es), NEW x
  PROVE  /\ IsSeq(Append(es, x)) /\ Reported(Append(es, x), x)
         /\ \A i : Reported(es, i) => Reported(Append(es, x), i)
<1>1. PICK S : es \in Seq(S)
  BY DEF IsSeq
<1> DEFINE T == S \union {x}
           fs == Append(es, x)
<1>2. es \in Seq(T) /\ x \in T
  BY <1>1, SeqMonotonic
<1> HIDE DEF T
<1>3. /\ Len(fs) = Len(es) + 1 /\ fs[Len(es) + 1] = x
      /\ \A k \in 1 .. Len(es) : fs[k] = es[k]
      /\ Len(es) \in Nat
  BY <1>2, AppendProperties, LenProperties
<1>4. IsSeq(fs)
  BY AppendIsSeq
<1>5. Len(es) + 1 \in 1 .. Len(fs) /\ \A k \in 1 .. Len(es) : k \in 1 .. Len(fs)
  BY <1>3
<1> HIDE DEF fs
<1>6. Reported(fs, x) /\ \A i : Reported(es, i) => Reported(fs, i)
  BY <1>3, <1>5 DEF Reported
<1> QED
  BY <1>4, <1>6 DEF fs

\* The tokens after Append.
LEMMA AppendedTokens ==
  ASSUME NEW ts, IsSeq(ts), NEW t
  PROVE  /\ IsSeq(Append(ts, t)) /\ Len(ts) \in Nat /\ Len(Append(ts, t)) = Len(ts) + 1
         /\ Append(ts, t)[Len(ts) + 1] = t
         /\ \A k \in 1 .. Len(ts) : Append(ts, t)[k] = ts[k]
<1>1. PICK S : ts \in Seq(S)
  BY DEF IsSeq
<1> DEFINE T == S \union {t}
<1>2. ts \in Seq(T) /\ t \in T
  BY <1>1, SeqMonotonic
<1> HIDE DEF T
<1> QED
  BY <1>2, AppendProperties, LenProperties, AppendIsSeq

\* A new token covers what it spans.
LEMMA CoveredAppend ==
  ASSUME NEW ts, IsSeq(ts), NEW t, NEW i
  PROVE  CoveredBy(Append(ts, t), i) <=> CoveredBy(ts, i) \/ (t.from <= i /\ i < t.end)
<1> DEFINE us == Append(ts, t)
<1>1. /\ Len(ts) \in Nat /\ Len(us) = Len(ts) + 1 /\ us[Len(ts) + 1] = t
      /\ \A k \in 1 .. Len(ts) : us[k] = ts[k]
  BY AppendedTokens
<1>2. /\ Len(ts) + 1 \in 1 .. Len(us)
      /\ \A k \in 1 .. Len(us) : k \in 1 .. Len(ts) \/ k = Len(ts) + 1
      /\ \A k \in 1 .. Len(ts) : k \in 1 .. Len(us)
  BY <1>1
<1> HIDE DEF us
<1>3. CoveredBy(us, i) <=> CoveredBy(ts, i) \/ (t.from <= i /\ i < t.end)
  BY <1>1, <1>2, Zenon DEF CoveredBy
<1> QED
  BY <1>3 DEF us

\* A step that makes no token: the errors stay, or the character is reported.
LEMMA SkipExplains ==
  ASSUME NEW ts, NEW p \in Nat, NEW q \in Nat, p <= q,
         NEW es, NEW fs, IsSeq(fs), \A i : Reported(es, i) => Reported(fs, i),
         ExplainedTo(ts, es, p), \A i \in p .. q - 1 : Explained(ts, fs, i)
  PROVE  ExplainedTo(ts, fs, q)
<1>1. \A i \in 1 .. p - 1 : Explained(ts, fs, i)
  BY Zenon DEF ExplainedTo, Explained
<1>2. \A i \in 1 .. q - 1 : i \in 1 .. p - 1 \/ i \in p .. q - 1
  OBVIOUS
<1> QED
  BY <1>1, <1>2, Zenon DEF ExplainedTo

\* A token explains what it spans.
LEMMA TokenExplains ==
  ASSUME NEW ts, NEW p \in Nat, NEW q \in Nat, p <= q, TokensTrue(ts, p),
         NEW t, t.from = p, t.end = q,
         NEW es, NEW fs, IsSeq(fs), \A i : Reported(es, i) => Reported(fs, i),
         ExplainedTo(ts, es, p)
  PROVE  ExplainedTo(Append(ts, t), fs, q)
<1> DEFINE us == Append(ts, t)
<1>0. IsSeq(ts)
  BY DEF TokensTrue
<1>1. \A i : CoveredBy(us, i) <=> CoveredBy(ts, i) \/ (p <= i /\ i < q)
  BY <1>0, CoveredAppend
<1> HIDE DEF us
<1>2. ASSUME NEW i \in 1 .. p - 1
      PROVE  Explained(us, fs, i)
  <2>1. Explained(ts, es, i)
    BY DEF ExplainedTo
  <2>2. \A j \in 1 .. i : ~(p <= j)
    OBVIOUS
  <2>3. \A j \in 1 .. i : CoveredBy(us, j) => CoveredBy(ts, j)
    BY <1>1, <2>2, Zenon
  <2> QED
    BY <1>1, <2>1, <2>3, Zenon DEF Explained
<1>3. \A i \in p .. q - 1 : p <= i /\ i < q
  OBVIOUS
<1>4. \A i \in p .. q - 1 : Explained(us, fs, i)
  BY <1>1, <1>3, Zenon DEF Explained
<1>5. \A i \in 1 .. q - 1 : i \in 1 .. p - 1 \/ i \in p .. q - 1
  OBVIOUS
<1>6. ExplainedTo(us, fs, q)
  BY <1>2, <1>4, <1>5, Zenon DEF ExplainedTo
<1> QED
  BY <1>6 DEF us

\* Tokens before p are before q too, and a token from p to q comes behind them.
LEMMA TokensLater ==
  ASSUME NEW ts, NEW p \in Nat, NEW q \in Nat, p <= q, TokensTrue(ts, p)
  PROVE  TokensTrue(ts, q)
<1>1. \A t : Spans(t, p) => Spans(t, q)
  BY DEF Spans
<1> QED
  BY <1>1, Zenon DEF TokensTrue

\* A token that begins where the others end keeps their order.
LEMMA TokenBehind ==
  ASSUME NEW ts, NEW p \in Nat, NEW q \in Nat, p <= q, TokensTrue(ts, p), InOrder(ts),
         NEW t, t.from = p, t.end = q, TruePlace(t)
  PROVE  TokensTrue(Append(ts, t), q) /\ InOrder(Append(ts, t))
<1> DEFINE us == Append(ts, t)
           n == Len(ts)
<1>1. /\ IsSeq(us) /\ n \in Nat /\ Len(us) = n + 1 /\ us[n + 1] = t
      /\ \A k \in 1 .. n : us[k] = ts[k]
  BY AppendedTokens DEF TokensTrue
<1>2. Spans(t, q)
  BY DEF Spans
<1>3. \A k \in 1 .. n : Spans(ts[k], q) /\ TruePlace(ts[k])
  BY TokensLater, Zenon DEF TokensTrue
<1>4. \A k \in 1 .. n : ts[k].end <= p
  BY DEF TokensTrue, Spans
<1>5. \A k \in 1 .. n - 1 : ts[k].end <= ts[k + 1].from
  BY DEF InOrder
<1> HIDE DEF us, n
<1>6. \A k \in 1 .. n + 1 : k \in 1 .. n \/ k = n + 1
  BY <1>1
<1>7. TokensTrue(us, q)
  BY <1>1, <1>2, <1>3, <1>6, Zenon DEF TokensTrue
<1>8. ASSUME NEW k \in 1 .. Len(us) - 1
      PROVE  us[k].end <= us[k + 1].from
  <2>1. k \in 1 .. n /\ (k = n \/ (k \in 1 .. n - 1 /\ k + 1 \in 1 .. n))
    BY <1>1
  <2>2. CASE k = n
    BY <1>1, <1>4, <2>1, <2>2
  <2>3. CASE k # n
    BY <1>1, <1>5, <2>1, <2>3
  <2> QED
    BY <2>2, <2>3
<1>9. InOrder(us)
  BY <1>8 DEF InOrder
<1> QED
  BY <1>7, <1>9 DEF us

\* The invariant of the next state, from what it says of the text.
LEMMA LexInvNext ==
  ASSUME input' = input, IsSeq(input), pos' \in 1 .. Len(input) + 1,
         LineAt(pos', line'), StartAt(pos', lineStart'), TokensTrue(tokens', pos'),
         InOrder(tokens'), ExplainedTo(tokens', lexErrors', pos')
  PROVE  LexInv'
<1>1. Placed'
  BY DEF Placed, LineAt, StartAt, NewlinesBefore, IsSeq
<1>2. TokensTrue(tokens, pos)'
  BY Zenon DEF TokensTrue, Spans, TruePlace, NewlinesBefore, IsSeq
<1>3. InOrder(tokens)'
  BY Zenon DEF InOrder
<1>4. ExplainedTo(tokens, lexErrors, pos)'
  BY Zenon DEF ExplainedTo, Explained, CoveredBy, Reported, InComment, At, IsSeq
<1> QED
  BY <1>1, <1>2, <1>3, <1>4 DEF LexInv

\* A token that ends on the line it begins on.
LEMMA EmitKeeps ==
  ASSUME LexInv, NEW type, NEW end \in pos .. Len(input) + 1,
         \A i \in pos .. end - 1 : input[i] # Newline, Emit(type, end),
         IsSeq(lexErrors'), \A i : Reported(lexErrors, i) => Reported(lexErrors', i)
  PROVE  LexInv'
<1> DEFINE t == Token(type, end)
<1>1. /\ pos \in Nat /\ pos >= 1 /\ end \in Nat /\ pos <= end /\ end \in 1 .. Len(input) + 1
      /\ IsSeq(input) /\ Len(input) \in Nat
  BY LenIsNat DEF LexInv, Placed
<1>2. /\ pos' = end /\ tokens' = Append(tokens, t) /\ input' = input
      /\ line' = line /\ lineStart' = lineStart
  BY DEF Emit
<1>3. t.from = pos /\ t.end = end /\ t.line = line /\ t.col = pos - lineStart + 1
  BY DEF Token
<1> HIDE DEF t
<1>4. LineAt(pos, line) /\ StartAt(pos, lineStart)
  BY DEF LexInv, Placed
<1>5. NewlinesBefore(end) = NewlinesBefore(pos)
  BY <1>1, SameLine
<1>6. LineAt(end, line) /\ StartAt(end, lineStart)
  BY <1>4, <1>5 DEF LineAt, StartAt
<1>7. TruePlace(t)
  <2>1. t.line = 1 + Cardinality(NewlinesBefore(t.from))
    BY <1>3, <1>4 DEF LineAt
  <2>2. t.col = t.from - (lineStart - 1)
    BY <1>1, <1>3, <1>4 DEF StartAt
  <2>3. /\ lineStart - 1 \in NewlinesBefore(t.from) \union {0}
        /\ \A m \in NewlinesBefore(t.from) : m <= lineStart - 1
    BY <1>3, <1>4, Zenon DEF StartAt
  <2> QED
    BY <2>1, <2>2, <2>3, Zenon DEF TruePlace
<1>8. TokensTrue(tokens', end) /\ InOrder(tokens')
  BY <1>1, <1>2, <1>3, <1>7, TokenBehind DEF LexInv
<1>9. ExplainedTo(tokens', lexErrors', end)
  BY <1>1, <1>2, <1>3, TokenExplains DEF LexInv
<1> QED
  BY <1>1, <1>2, <1>6, <1>8, <1>9, LexInvNext

\* Characters that make no token, on one line.
LEMMA SkipKeeps ==
  ASSUME LexInv, NEW end \in pos .. Len(input) + 1,
         \A i \in pos .. end - 1 : input[i] # Newline,
         pos' = end, UNCHANGED <<input, line, lineStart, tokens>>,
         IsSeq(lexErrors'), \A i : Reported(lexErrors, i) => Reported(lexErrors', i),
         \A i \in pos .. end - 1 : Explained(tokens, lexErrors', i)
  PROVE  LexInv'
<1>1. /\ pos \in Nat /\ end \in Nat /\ pos <= end /\ end \in 1 .. Len(input) + 1
      /\ IsSeq(input) /\ Len(input) \in Nat
  BY LenIsNat DEF LexInv, Placed
<1>2. NewlinesBefore(end) = NewlinesBefore(pos)
  BY <1>1, SameLine
<1>3. LineAt(end, line) /\ StartAt(end, lineStart)
  BY <1>2 DEF LexInv, Placed, LineAt, StartAt
<1>4. TokensTrue(tokens, end) /\ InOrder(tokens)
  BY <1>1, TokensLater DEF LexInv
<1>5. ExplainedTo(tokens, lexErrors', end)
  BY <1>1, SkipExplains DEF LexInv
<1> QED
  BY <1>1, <1>3, <1>4, <1>5, LexInvNext

\* What each step knows of the position.
LEMMA PositionIs ==
  ASSUME LexInv
  PROVE  /\ Len(input) \in Nat /\ pos \in Nat /\ pos >= 1 /\ pos <= Len(input) + 1
         /\ pos \in 1 .. Len(input) + 1 /\ IsSeq(input) /\ IsSeq(lexErrors)
BY LenIsNat DEF LexInv, Placed, ExplainedTo

\* skipWhitespaceAndComments.
LEMMA SkipNewlineKeeps ==
  ASSUME LexInv, SkipNewline
  PROVE  LexInv'
<1>1. /\ pos <= Len(input) /\ input[pos] = Newline /\ pos' = pos + 1 /\ line' = line + 1
      /\ lineStart' = pos + 1 /\ input' = input /\ tokens' = tokens /\ lexErrors' = lexErrors
  BY DEF SkipNewline, More
<1>2. pos + 1 \in 1 .. Len(input) + 1 /\ pos + 1 \in Nat /\ pos <= pos + 1
  BY <1>1, PositionIs
<1>3. LineAt(pos + 1, line + 1) /\ StartAt(pos + 1, pos + 1)
  BY <1>1, PositionIs, NextLine DEF LexInv, Placed
<1>4. TokensTrue(tokens, pos + 1) /\ InOrder(tokens)
  BY <1>2, PositionIs, TokensLater DEF LexInv
<1>5. ExplainedTo(tokens, lexErrors, pos + 1)
  <2>1. \A i \in pos .. (pos + 1) - 1 : i = pos
    BY PositionIs
  <2>2. \A i \in pos .. (pos + 1) - 1 : Explained(tokens, lexErrors, i)
    BY <1>1, <2>1 DEF Explained
  <2> QED
    BY <1>2, <2>2, PositionIs, SkipExplains DEF LexInv
<1> QED
  BY <1>1, <1>2, <1>3, <1>4, <1>5, PositionIs, LexInvNext

\* A blank, or a comment to the end of its line.
LEMMA SkipBlanksKeeps ==
  ASSUME LexInv, SkipBlanks
  PROVE  LexInv'
<1>1. /\ pos <= Len(input) /\ UNCHANGED <<input, line, lineStart, tokens, lexErrors>>
      /\ IsSeq(lexErrors')
  BY PositionIs DEF SkipBlanks, More
<1>2. CASE input[pos] \in Blanks /\ pos' = pos + 1
  <2>1. /\ pos + 1 \in pos .. Len(input) + 1
        /\ \A i \in pos .. (pos + 1) - 1 : i = pos
    BY <1>1, PositionIs
  <2>2. \A i \in pos .. (pos + 1) - 1 : input[i] # Newline /\ Explained(tokens, lexErrors', i)
    BY <1>2, <2>1 DEF Explained, Blanks, Newline
  <2> QED
    BY <1>1, <1>2, <2>1, <2>2, SkipKeeps
<1>3. CASE IsComment /\ pos' = UpTo(pos, {Newline})
  <2> DEFINE end == UpTo(pos, {Newline})
  <2>1. end \in pos .. Len(input) + 1 /\ \A i \in pos .. end - 1 : input[i] \notin {Newline}
    BY PositionIs, UpToEnds
  <2> HIDE DEF end
  <2>2. ~CoveredBy(tokens, pos)
    BY PositionIs DEF LexInv, TokensTrue, Spans, CoveredBy
  <2>3. ASSUME NEW i \in pos .. end - 1
        PROVE  Explained(tokens, lexErrors', i)
    <3>1. pos \in 1 .. i /\ \A m \in pos .. i : m \in pos .. end - 1
      BY <2>1, PositionIs
    <3>2. InComment(pos, i)
      BY <1>3, <2>1, <3>1 DEF InComment, IsComment, At
    <3> QED
      BY <2>2, <3>1, <3>2 DEF Explained
  <2>4. pos' = end
    BY <1>3 DEF end
  <2> QED
    BY <1>1, <2>1, <2>3, <2>4, SkipKeeps
<1> QED
  BY <1>2, <1>3 DEF SkipBlanks

\* A byte that starts no token is reported.
LEMMA ReadUnknownKeeps ==
  ASSUME LexInv, ReadUnknown
  PROVE  LexInv'
<1>1. /\ pos <= Len(input) /\ input[pos] # Newline /\ pos' = pos + 1
      /\ lexErrors' = Append(lexErrors, pos) /\ UNCHANGED <<input, line, lineStart, tokens>>
  BY DEF ReadUnknown, More
<1>2. /\ IsSeq(lexErrors') /\ Reported(lexErrors', pos)
      /\ \A i : Reported(lexErrors, i) => Reported(lexErrors', i)
  BY <1>1, PositionIs, ReportsStay
<1>3. /\ pos + 1 \in pos .. Len(input) + 1
      /\ \A i \in pos .. (pos + 1) - 1 : i = pos
  BY <1>1, PositionIs
<1>4. \A i \in pos .. (pos + 1) - 1 : input[i] # Newline /\ Explained(tokens, lexErrors', i)
  BY <1>1, <1>2, <1>3 DEF Explained
<1> QED
  BY <1>1, <1>2, <1>3, <1>4, SkipKeeps

\* nextToken.
LEMMA ReadMarkKeeps ==
  ASSUME LexInv, ReadMark
  PROVE  LexInv'
<1>1. pos <= Len(input) /\ input[pos] \in Marks /\ lexErrors' = lexErrors
  BY DEF ReadMark, More
<1>2. Newline \notin Marks
  BY DEF Marks, Brackets, Newline
<1>3. CASE At(pos + 1, input[pos]) /\ \E type : Emit(type, pos + 2)
  <2>1. /\ pos + 2 \in pos .. Len(input) + 1
        /\ \A i \in pos .. (pos + 2) - 1 : i = pos \/ i = pos + 1
    BY <1>3, PositionIs DEF At
  <2>2. \A i \in pos .. (pos + 2) - 1 : input[i] # Newline
    BY <1>1, <1>2, <1>3, <2>1 DEF At
  <2>3. PICK type : Emit(type, pos + 2)
    BY <1>3
  <2> QED
    BY <1>1, <2>1, <2>2, <2>3, PositionIs, EmitKeeps
<1>4. CASE \E type : Emit(type, pos + 1)
  <2>1. /\ pos + 1 \in pos .. Len(input) + 1
        /\ \A i \in pos .. (pos + 1) - 1 : i = pos
    BY <1>1, PositionIs
  <2>2. \A i \in pos .. (pos + 1) - 1 : input[i] # Newline
    BY <1>1, <1>2, <2>1
  <2>3. PICK type : Emit(type, pos + 1)
    BY <1>4
  <2> QED
    BY <1>1, <2>1, <2>2, <2>3, PositionIs, EmitKeeps
<1> QED
  BY <1>3, <1>4, Zenon DEF ReadMark

\* A string ends on its line, with a quote or without.
LEMMA ReadStringKeeps ==
  ASSUME LexInv, ReadString
  PROVE  LexInv'
<1> DEFINE close == UpTo(pos + 1, {Quote, Newline})
<1>1. pos <= Len(input) /\ input[pos] = Quote /\ Quote # Newline
  BY Zenon DEF ReadString, More, Newline, Quote
<1>2. pos + 1 \in 1 .. Len(input) + 1
  BY <1>1, PositionIs
<1>3. /\ close \in pos + 1 .. Len(input) + 1
      /\ \A i \in pos + 1 .. close - 1 : input[i] \notin {Quote, Newline}
  BY <1>2, PositionIs, UpToEnds
<1>4. \/ At(close, Quote) /\ Emit("STRING_LIT", close + 1) /\ lexErrors' = lexErrors
      \/ Emit("STRING_LIT", close) /\ lexErrors' = Append(lexErrors, close)
  BY Zenon DEF ReadString
<1> HIDE DEF close
<1>5. IsSeq(lexErrors') /\ \A i : Reported(lexErrors, i) => Reported(lexErrors', i)
  <2>1. IsSeq(lexErrors)
    BY PositionIs
  <2>2. CASE lexErrors' = Append(lexErrors, close)
    BY <2>1, <2>2, ReportsStay
  <2>3. CASE lexErrors' = lexErrors
    BY <2>1, <2>3
  <2> QED
    BY <1>4, <2>2, <2>3
<1>6. CASE At(close, Quote) /\ Emit("STRING_LIT", close + 1)
  <2>1. /\ close + 1 \in pos .. Len(input) + 1
        /\ \A i \in pos .. (close + 1) - 1 : i = pos \/ i = close \/ i \in pos + 1 .. close - 1
    BY <1>3, <1>6, PositionIs DEF At
  <2>2. \A i \in pos .. (close + 1) - 1 : input[i] # Newline
    BY <1>1, <1>3, <1>6, <2>1 DEF At
  <2> QED
    BY <1>5, <1>6, <2>1, <2>2, EmitKeeps
<1>7. CASE Emit("STRING_LIT", close)
  <2>1. /\ close \in pos .. Len(input) + 1
        /\ \A i \in pos .. close - 1 : i = pos \/ i \in pos + 1 .. close - 1
    BY <1>3, PositionIs
  <2>2. \A i \in pos .. close - 1 : input[i] # Newline
    BY <1>1, <1>3, <2>1
  <2> QED
    BY <1>5, <1>7, <2>1, <2>2, EmitKeeps
<1> QED
  BY <1>4, <1>6, <1>7

\* Numbers and words: what they are made of has no newline (NewlineAssumption).
LEMMA ReadPastKeeps ==
  ASSUME LexInv, NEW chars, Newline \notin chars, NEW type, Emit(type, Past(pos, chars)),
         UNCHANGED lexErrors
  PROVE  LexInv'
<1>1. /\ Past(pos, chars) \in pos .. Len(input) + 1
      /\ \A i \in pos .. Past(pos, chars) - 1 : input[i] \in chars
  BY PositionIs, PastEnds
<1>2. \A i \in pos .. Past(pos, chars) - 1 : input[i] # Newline
  BY <1>1
<1> QED
  BY <1>1, <1>2, PositionIs, EmitKeeps

\* Every step of the lexer keeps the invariant.
LEMMA NextTokenKeeps ==
  ASSUME LexInv, NextToken
  PROVE  LexInv'
<1>1. CASE ReadNumber
  <2>1. Newline \notin Digits \union {"."}
    BY NewlineAssumption DEF Newline
  <2>2. UNCHANGED lexErrors /\ \E type : Emit(type, Past(pos, Digits \union {"."}))
    BY <1>1, Zenon DEF ReadNumber
  <2> QED
    BY <2>1, <2>2, ReadPastKeeps
<1>2. CASE ReadIdentOrKeyword
  <2>1. UNCHANGED lexErrors /\ \E type : Emit(type, Past(pos, Letters \union Digits))
    BY <1>2, Zenon DEF ReadIdentOrKeyword
  <2> QED
    BY <2>1, NewlineAssumption, ReadPastKeeps
<1>3. CASE ReadEnd
  <2>1. pos \in pos .. Len(input) + 1 /\ \A i \in pos .. pos - 1 : FALSE
    BY PositionIs
  <2>2. Emit("EOF", pos) /\ lexErrors' = lexErrors
    BY <1>3 DEF ReadEnd
  <2> QED
    BY <2>1, <2>2, PositionIs, EmitKeeps
<1> QED
  BY <1>1, <1>2, <1>3, SkipNewlineKeeps, SkipBlanksKeeps, ReadUnknownKeeps, ReadMarkKeeps,
     ReadStringKeeps DEF NextToken

\* It holds of a lexer that has not begun.
LEMMA LexInvInit == InitSource => LexInv
<1> SUFFICES ASSUME InitSource PROVE LexInv
  OBVIOUS
<1>1. PICK text \in Texts : InitLexer(text)
  BY DEF InitSource
<1>2. /\ input = text /\ pos = 1 /\ line = 1 /\ lineStart = 1
      /\ tokens = <<>> /\ lexErrors = <<>>
  BY <1>1 DEF InitLexer
<1>3. IsSeq(input) /\ Len(input) \in Nat
  BY <1>2, TextsAssumption, LenIsNat DEF IsSeq
<1>4. IsSeq(tokens) /\ IsSeq(lexErrors) /\ Len(tokens) = 0
  BY <1>2, EmptySeq DEF IsSeq
<1>5. NewlinesBefore(1) = {}
  BY DEF NewlinesBefore
<1>6. Placed
  BY <1>2, <1>3, <1>5, FS_EmptySet DEF Placed, LineAt, StartAt
<1>7. TokensTrue(tokens, pos) /\ InOrder(tokens) /\ ExplainedTo(tokens, lexErrors, pos)
  BY <1>2, <1>4 DEF TokensTrue, InOrder, ExplainedTo
<1> QED
  BY <1>6, <1>7 DEF LexInv

\* It is one of every behaviour: the parser leaves the lexer alone.
LEMMA LexInvCorrect == SpecSource => []LexInv
<1>1. LexInv /\ [NextSource]_sourceVars => LexInv'
  <2> SUFFICES ASSUME LexInv, [NextSource]_sourceVars PROVE LexInv'
    OBVIOUS
  <2>1. CASE Lex
    BY <2>1, NextTokenKeeps DEF Lex
  <2>2. CASE UNCHANGED lexVars
    <3>1. /\ input' = input /\ pos' = pos /\ line' = line /\ lineStart' = lineStart
          /\ tokens' = tokens /\ lexErrors' = lexErrors
      BY <2>2 DEF lexVars
    <3> QED
      BY <3>1, PositionIs, LexInvNext DEF LexInv, Placed
  <2> QED
    BY <2>1, <2>2 DEF NextSource, sourceVars, BeginParse, ParseExplanation, SplitItem, StartItems,
       ParseItem, Lock, Unlock, Wait
<1> QED
  BY <1>1, LexInvInit, PTL DEF SpecSource

\* For every text: while the lexer runs, no byte of what it has passed is lost. It is in a
\* token, is blank, is in a comment or has been reported, and the tokens do not overlap
\* (nextToken and skipWhitespaceAndComments of lexer.go).
THEOREM NothingSkippedCorrect == SpecSource => []NothingSkipped
<1>1. LexInv => NothingSkipped
  BY LexInvSuffices DEF NothingSkipped
<1> QED
  BY <1>1, LexInvCorrect, PTL

\* For every text: the line and the column of each token are those that an editor counts,
\* through comments, strings without an end and bytes that the lexer does not know.
THEOREM TruePlacesCorrect == SpecSource => []TruePlaces
<1>1. LexInv => TruePlaces
  BY LexInvSuffices DEF TruePlaces
<1> QED
  BY <1>1, LexInvCorrect, PTL

(***************************************************************************)
(* The items, for every text: each begins behind the one before, the first  *)
(* node of its parser is where it begins, and the nodes of the program are  *)
(* in that order.                                                          *)
(***************************************************************************)
ParserFields == {"pos", "todo", "path", "out", "errs", "from"}

\* m parses the statement at s, of n tokens. It has not begun, or failed, or has a node at s.
ParserAt(m, s, n) ==
  /\ DOMAIN m = ParserFields /\ IsSeq(m.out) /\ m.pos \in s .. n
  /\ m.out # <<>> => m.out[1].at = s
  /\ m.out = <<>> => m = NewParser(s, <<Statement>>) \/ m.todo = <<>>

\* What a new parser is.
LEMMA NewParserFields ==
  ASSUME NEW from, NEW row
  PROVE  /\ DOMAIN NewParser(from, row) = ParserFields
         /\ NewParser(from, row).pos = from /\ NewParser(from, row).out = <<>>
         /\ NewParser(from, row).todo = row
BY DEF NewParser, ParserFields

\* A new parser has not begun.
LEMMA NewParserAt ==
  ASSUME NEW s \in Nat, NEW n \in Nat, s <= n
  PROVE  ParserAt(NewParser(s, <<Statement>>), s, n)
<1>1. IsSeq(<<>>) /\ s \in s .. n
  BY EmptySeq DEF IsSeq
<1> QED
  BY <1>1, NewParserFields DEF ParserAt

\* A step of the grammar goes on by one token at most, and not over the end.
LEMMA StepStaysIn ==
  ASSUME NEW m, DOMAIN m = ParserFields, NEW ts, Len(ts) \in Nat, NEW s \in Nat,
         m.pos \in s .. Len(ts)
  PROVE  DOMAIN Step(m, ts) = ParserFields /\ Step(m, ts).pos \in s .. Len(ts)
<1> DEFINE next == Advance(ts, m.pos)
           h == Step(m, ts)
<1>1. next \in s .. Len(ts)
  BY DEF Advance
<1> HIDE DEF next
<1>2. DOMAIN h = DOMAIN m
  BY DEF Step, Enter
<1>3. h.pos = m.pos \/ h.pos = next
  BY DEF Step, Enter, ParserFields, next
<1> QED
  BY <1>1, <1>2, <1>3

\* The nodes stay or get one more, at the position of the parser.
LEMMA StepAddsNode ==
  ASSUME NEW m, DOMAIN m = ParserFields, NEW ts
  PROVE  Step(m, ts).out = m.out \/ \E kind : Step(m, ts).out = Seen(m, kind)
<1> DEFINE h == Step(m, ts)
<1>1. CASE h.out = m.out
  BY <1>1
<1>2. CASE h.out # m.out
  <2>1. \/ h.out = Seen(m, Head(m.todo).op)
        \/ h.out = Seen(m, Head(m.todo).kind)
        \/ h.out = Seen(m, StatementOf[ts[m.pos].type])
        \/ h.out = Seen(m, "Incr")
    BY <1>2 DEF Step, Enter, ParserFields
  <2> QED
    BY <2>1
<1> QED
  BY <1>1, <1>2

\* Append leaves the first entry where it is.
LEMMA FirstStays ==
  ASSUME NEW out, IsSeq(out), NEW e
  PROVE  /\ IsSeq(Append(out, e)) /\ Append(out, e) # <<>>
         /\ out # <<>> => Append(out, e)[1] = out[1]
         /\ out = <<>> => Append(out, e)[1] = e
<1>1. /\ IsSeq(Append(out, e)) /\ Len(out) \in Nat /\ Len(Append(out, e)) = Len(out) + 1
      /\ Append(out, e)[Len(out) + 1] = e
      /\ \A k \in 1 .. Len(out) : Append(out, e)[k] = out[k]
  BY AppendedTokens
<1>2. Append(out, e) # <<>>
  BY <1>1, EmptySeq
<1>3. out = <<>> <=> Len(out) = 0
  BY EmptySeq DEF IsSeq
<1>4. ASSUME out # <<>> PROVE Append(out, e)[1] = out[1]
  <2>1. 1 \in 1 .. Len(out)
    BY <1>1, <1>3, <1>4
  <2> QED
    BY <1>1, <2>1
<1>5. ASSUME out = <<>> PROVE Append(out, e)[1] = e
  <2>1. Len(out) + 1 = 1
    BY <1>3, <1>5
  <2> QED
    BY <1>1, <2>1
<1> QED
  BY <1>1, <1>2, <1>4, <1>5

\* The first node of a parser stays, and is where the parser was.
LEMMA SeenFirst ==
  ASSUME NEW m, IsSeq(m.out), NEW kind
  PROVE  /\ IsSeq(Seen(m, kind)) /\ Seen(m, kind) # <<>>
         /\ m.out # <<>> => Seen(m, kind)[1] = m.out[1]
         /\ m.out = <<>> => Seen(m, kind)[1].at = m.pos
<1> DEFINE e == [path |-> m.path, kind |-> kind, at |-> m.pos]
           out == m.out
<1>1. Seen(m, kind) = Append(out, e) /\ IsSeq(out) /\ e.at = m.pos
  BY DEF Seen
<1> HIDE DEF e, out
<1>2. /\ IsSeq(Append(out, e)) /\ Append(out, e) # <<>>
      /\ out # <<>> => Append(out, e)[1] = out[1]
      /\ out = <<>> => Append(out, e)[1] = e
  BY <1>1, FirstStays
<1> QED
  BY <1>1, <1>2, Zenon DEF out

\* parseStatement makes its node where it begins, or reports an error and is done.
LEMMA FirstStep ==
  ASSUME NEW s, NEW ts
  PROVE  LET h == Step(NewParser(s, <<Statement>>), ts)
         IN  h.todo = <<>> \/ h.out # <<>>
<1> DEFINE m == NewParser(s, <<Statement>>)
           h == Step(m, ts)
<1>a. m.todo = <<Statement>> /\ DOMAIN m = ParserFields /\ m.out = <<>>
  BY NewParserFields
<1> HIDE DEF m
<1>1. Head(m.todo) = Statement /\ Tail(m.todo) = <<>> /\ Statement.op = "statement"
  <2>1. Head(<<Statement>>) = Statement
    OBVIOUS
  <2>2. Tail(<<Statement>>) = <<>>
    OBVIOUS
  <2>3. Statement.op = "statement"
    BY DEF Statement
  <2> QED
    BY <1>a, <2>1, <2>2, <2>3, Zenon
<1>2. DOMAIN m = ParserFields /\ m.out = <<>> /\ IsSeq(m.out)
  BY <1>a, EmptySeq DEF IsSeq
<1>3. h = CASE ts[m.pos].type \in DOMAIN StatementOf ->
                 Enter(m, StatementOf[ts[m.pos].type], Tail(m.todo))
            [] ts[m.pos].type \in {"++", "--"} -> Enter(m, "Incr", Tail(m.todo))
            [] OTHER -> [m EXCEPT !.pos = Advance(ts, m.pos), !.errs = Append(m.errs, m.pos),
                                  !.todo = Tail(m.todo)]
  BY <1>1, Zenon DEF Step
<1>4. \A kind : Seen(m, kind) # <<>>
  BY <1>2, SeenFirst
<1>5. h.todo = <<>> \/ \E kind : h.out = Seen(m, kind)
  BY <1>1, <1>2, <1>3 DEF Enter, ParserFields
<1>6. h.todo = <<>> \/ h.out # <<>>
  BY <1>4, <1>5
<1> QED
  BY <1>6 DEF m

\* A step of the grammar leaves the first node of an item where it begins.
LEMMA StepKeepsAt ==
  ASSUME NEW m, NEW ts, Len(ts) \in Nat, NEW s \in Nat, ParserAt(m, s, Len(ts)), m.todo # <<>>
  PROVE  ParserAt(Step(m, ts), s, Len(ts))
<1> DEFINE h == Step(m, ts)
<1>1. DOMAIN m = ParserFields /\ m.pos \in s .. Len(ts) /\ IsSeq(m.out)
  BY DEF ParserAt
<1>2. DOMAIN h = ParserFields /\ h.pos \in s .. Len(ts)
  BY <1>1, StepStaysIn
<1>3. h.out = m.out \/ \E kind : h.out = Seen(m, kind)
  BY <1>1, StepAddsNode
<1>4. CASE m.out # <<>>
  <2>1. IsSeq(h.out) /\ h.out # <<>> /\ h.out[1] = m.out[1]
    BY <1>1, <1>3, <1>4, SeenFirst, Zenon
  <2> HIDE DEF h
  <2>2. m.out[1].at = s
    BY <1>4 DEF ParserAt
  <2>3. ParserAt(h, s, Len(ts))
    BY <1>2, <2>1, <2>2 DEF ParserAt
  <2> QED
    BY <2>3 DEF h
<1>5. CASE m.out = <<>>
  <2>1. m = NewParser(s, <<Statement>>)
    BY <1>5 DEF ParserAt
  <2>2. h.todo = <<>> \/ h.out # <<>>
    BY <2>1, FirstStep
  <2>3. m.pos = s
    BY <2>1, NewParserFields
  <2>4. IsSeq(h.out) /\ (h.out # <<>> => h.out[1].at = s)
    <3>1. CASE h.out = m.out
      BY <1>1, <1>5, <3>1
    <3>2. CASE \E kind : h.out = Seen(m, kind)
      <4>1. PICK kind : h.out = Seen(m, kind)
        BY <3>2
      <4> QED
        BY <1>1, <1>5, <2>3, <4>1, SeenFirst, Zenon
    <3> QED
      BY <1>3, <3>1, <3>2
  <2> HIDE DEF h
  <2>5. ParserAt(h, s, Len(ts))
    BY <1>2, <2>2, <2>4 DEF ParserAt
  <2> QED
    BY <2>5 DEF h
<1> QED
  BY <1>4, <1>5

\* skipTopLevel moves on, and stops at the EOF at the latest.
LEMMA skipTopLevelMoves ==
  ASSUME Len(parsed) \in Nat, NEW p \in 1 .. Len(parsed), p # Len(parsed)
  PROVE  skipTopLevel(p) \in p + 1 .. Len(parsed)
<1>1. CASE ItemEnds(p) = {}
  BY <1>1 DEF skipTopLevel
<1>2. CASE ItemEnds(p) # {}
  <2> DEFINE E == ItemEnds(p)
             least == CHOOSE q \in E : \A r \in E : q <= r
  <2>1. E \subseteq p .. Len(parsed) - 1
    BY DEF ItemEnds
  <2>2. E \in SUBSET Nat
    BY <2>1
  <2>3. skipTopLevel(p) = least + 1
    BY <1>2 DEF skipTopLevel
  <2>4. E # {}
    BY <1>2
  <2> HIDE DEF E
  <2>5. \E q \in E : \A r \in E : q <= r
    BY <2>2, <2>4, LeastNumber
  <2>6. least \in E
    BY <2>5
  <2> HIDE DEF least
  <2>7. least \in p .. Len(parsed) - 1
    BY <2>1, <2>6
  <2> QED
    BY <2>3, <2>7
<1> QED
  BY <1>1, <1>2

(***************************************************************************)
(* The inductive invariant, beside LexInv and MergeInv.                    *)
(***************************************************************************)
TokensEnd ==
  stage # "lex" => /\ IsSeq(parsed) /\ Len(parsed) >= 1 /\ parsed[Len(parsed)].type = "EOF"
                   /\ main.pos \in 1 .. Len(parsed)
NothingYet == stage = "lex" => parsed = <<>> /\ starts = <<>> /\ main.pos = 1
NoParsers == ~Begun => sub = <<>>
MainIs == DOMAIN main = ParserFields
StartsRise ==
  /\ \A i \in Items : starts[i] \in 1 .. Len(parsed) /\ (stage = "split" => starts[i] < main.pos)
  /\ \A i, j \in Items : i < j => starts[i] < starts[j]
ItemParsers ==
  Begun => /\ sub = [i \in Items |-> sub[i]]
           /\ \A i \in Items : ParserAt(sub[i], starts[i], Len(parsed))
ResultsAre ==
  stage = "items" => /\ DOMAIN results = Items
                     /\ \A i \in Items : results[i] = IF i \in merged THEN sub[i].out ELSE <<>>
MutexIs == mutex \in {0} \union inside
Staged == stage \in {"lex", "split", "items", "done"}

OrderInv ==
  /\ Staged /\ TokensEnd /\ NothingYet /\ NoParsers /\ MainIs /\ StartsRise /\ ItemParsers
  /\ ResultsAre /\ MutexIs /\ ItemsInOrder

\* Nothing is split while the lexer runs.
LEMMA LexKeepsOrder ==
  ASSUME OrderInv, Lex
  PROVE  OrderInv'
<1>1. stage = "lex" /\ UNCHANGED parseVars
  BY DEF Lex
<1>2. /\ stage' = stage /\ parsed' = parsed /\ main' = main /\ starts' = starts /\ sub' = sub
      /\ mutex' = mutex /\ inside' = inside /\ merged' = merged /\ results' = results
  BY <1>1 DEF parseVars
<1> QED
  BY <1>1, <1>2 DEF OrderInv, Staged, TokensEnd, NothingYet, NoParsers, MainIs, StartsRise,
     ItemParsers, ResultsAre, MutexIs, ItemsInOrder, Items, Begun, Done

\* The tokens that ParseProgram gets end in an EOF.
LEMMA BeginParseKeepsOrder ==
  ASSUME OrderInv, LexInv, BeginParse
  PROVE  OrderInv'
<1>1. /\ stage = "lex" /\ Lexed /\ stage' = "split" /\ DOMAIN parsed' = DOMAIN tokens
      /\ \A k \in DOMAIN tokens : parsed'[k].type = tokens[k].type
      /\ \E row : main' = NewParser(1, row)
      /\ starts' = starts /\ sub' = sub /\ mutex' = mutex /\ inside' = inside
      /\ parsed' = [k \in DOMAIN tokens |-> parsed'[k]]
  BY DEF BeginParse
<1>2. starts = <<>> /\ ~Begun /\ sub = <<>> /\ mutex \in {0} \union inside
  BY <1>1 DEF OrderInv, NothingYet, NoParsers, Begun, MutexIs
<1>3. IsSeq(tokens) /\ Len(tokens) \in Nat /\ DOMAIN tokens = 1 .. Len(tokens)
  BY LenIsNat DEF LexInv, TokensTrue
<1>4. Len(tokens) >= 1 /\ tokens[Len(tokens)].type = "EOF"
  <2>1. tokens # <<>> /\ tokens[Len(tokens)].type = "EOF"
    BY <1>1 DEF Lexed
  <2>2. Len(tokens) # 0
    BY <1>3, <2>1, EmptySeq DEF IsSeq
  <2> QED
    BY <1>3, <2>1, <2>2
<1>5. IsSeq(parsed') /\ Len(parsed') = Len(tokens)
  <2> DEFINE n == Len(tokens)
             T == {parsed'[k] : k \in 1 .. n}
  <2>1. parsed' \in [1 .. n -> T]
    BY <1>1, <1>3
  <2>2. parsed' \in Seq(T)
    BY <1>3, <2>1, SeqDef
  <2>3. DOMAIN parsed' = 1 .. n /\ n \in Nat
    BY <1>1, <1>3
  <2> HIDE DEF T, n
  <2>4. Len(parsed') = n
    BY <2>2, <2>3, LenProperties
  <2> QED
    BY <2>2, <2>4 DEF IsSeq, n
<1>6. DOMAIN main' = ParserFields /\ main'.pos = 1
  BY <1>1, NewParserFields
<1>7. Len(tokens) \in DOMAIN tokens
  BY <1>3, <1>4
<1>8. parsed'[Len(parsed')].type = "EOF"
  BY <1>1, <1>4, <1>5, <1>7
<1>9. TokensEnd'
  BY <1>3, <1>4, <1>5, <1>6, <1>8 DEF TokensEnd
<1>10. Items' = {}
  BY <1>1, <1>2 DEF Items
<1>11. ~Begun' /\ stage' # "lex" /\ stage' # "items" /\ ~Done' /\ stage' \in {"lex", "split", "items", "done"}
  BY <1>1 DEF Begun, Done
<1>12. StartsRise'
  BY <1>10 DEF StartsRise
<1> QED
  BY <1>1, <1>2, <1>6, <1>9, <1>11, <1>12
  DEF OrderInv, Staged, NothingYet, NoParsers, MainIs, ItemParsers, ResultsAre, MutexIs, ItemsInOrder

\* The preamble moves the position forward.
LEMMA ParseExplanationKeepsOrder ==
  ASSUME OrderInv, ParseExplanation
  PROVE  OrderInv'
<1>1. /\ stage = "split" /\ stage' = stage /\ main' = Step(main, parsed) /\ parsed' = parsed
      /\ starts' = starts /\ sub' = sub /\ mutex' = mutex /\ inside' = inside
  BY DEF ParseExplanation
<1>2. IsSeq(parsed) /\ Len(parsed) \in Nat /\ DOMAIN main = ParserFields
  BY <1>1, LenIsNat DEF OrderInv, TokensEnd, MainIs
<1>3. main.pos \in Nat /\ main.pos \in main.pos .. Len(parsed) /\ main.pos >= 1
  BY <1>1, <1>2 DEF OrderInv, TokensEnd
<1>4. DOMAIN main' = ParserFields /\ main'.pos \in main.pos .. Len(parsed)
  BY <1>1, <1>2, <1>3, StepStaysIn
<1>5. main'.pos \in 1 .. Len(parsed) /\ \A n \in Nat : n < main.pos => n < main'.pos
  BY <1>2, <1>3, <1>4
<1>6. TokensEnd'
  BY <1>1, <1>5 DEF OrderInv, TokensEnd
<1>7. StartsRise'
  <2>1. \A i \in Items : starts[i] \in Nat
    BY <1>2 DEF OrderInv, StartsRise
  <2> QED
    BY <1>1, <1>5, <2>1 DEF OrderInv, StartsRise, Items
<1>8. ~Begun /\ ~Begun' /\ stage # "lex" /\ stage # "items" /\ ~Done'
  BY <1>1 DEF Begun, Done
<1> QED
  BY <1>1, <1>4, <1>6, <1>7, <1>8
  DEF OrderInv, Staged, NothingYet, NoParsers, MainIs, ItemParsers, ResultsAre, MutexIs, ItemsInOrder

\* The next item begins behind all that began before.
LEMMA SplitItemKeepsOrder ==
  ASSUME OrderInv, MergeInv, SplitItem
  PROVE  OrderInv'
<1> DEFINE p == main.pos
           q == skipTopLevel(p)
           n == Len(parsed)
<1>1. /\ stage = "split" /\ stage' = stage /\ parsed' = parsed /\ parsed[p].type # "EOF"
      /\ starts' = Append(starts, p) /\ main' = [main EXCEPT !.pos = q]
      /\ sub' = sub /\ mutex' = mutex /\ inside' = inside
  BY DEF SplitItem
<1>2. /\ IsSeq(parsed) /\ n \in Nat /\ DOMAIN main = ParserFields /\ p \in 1 .. n
      /\ parsed[n].type = "EOF"
  BY <1>1, LenIsNat DEF OrderInv, TokensEnd, MainIs
<1>3. q \in p + 1 .. n
  BY <1>1, <1>2, skipTopLevelMoves
<1>4. DOMAIN main' = ParserFields /\ main'.pos = q
  BY <1>1, <1>2 DEF ParserFields
<1>5. /\ IsSeq(starts) /\ Len(starts) \in Nat /\ Len(starts') = Len(starts) + 1
      /\ starts'[Len(starts) + 1] = p /\ \A k \in 1 .. Len(starts) : starts'[k] = starts[k]
      /\ Items = 1 .. Len(starts) /\ Items' = 1 .. Len(starts) + 1
  <2>1. IsSeq(starts)
    BY DEF MergeInv, ListsAre
  <2>2. IsSeq(starts')
    BY <1>1, <2>1, AppendIsSeq
  <2> QED
    BY <1>1, <2>1, <2>2, AppendedTokens, LenIsNat DEF Items
<1> HIDE DEF q, n, p
<1>6. \A k \in Items : starts[k] \in 1 .. n /\ starts[k] < p
  BY <1>1 DEF OrderInv, StartsRise, p, n
<1>7. q \in 1 .. n /\ p < q
  BY <1>2, <1>3
<1>8. TokensEnd'
  BY <1>1, <1>4, <1>7 DEF OrderInv, TokensEnd, n
<1>9. ASSUME NEW i \in Items'
      PROVE  starts'[i] \in 1 .. n /\ starts'[i] < q
  <2>1. i \in 1 .. Len(starts) \/ i = Len(starts) + 1
    BY <1>5
  <2>2. CASE i \in 1 .. Len(starts)
    <3>1. starts'[i] = starts[i] /\ starts[i] \in 1 .. n /\ starts[i] < p
      BY <1>5, <1>6, <2>2
    <3> QED
      BY <1>2, <1>7, <3>1
  <2>3. CASE i = Len(starts) + 1
    BY <1>2, <1>5, <1>7, <2>3
  <2> QED
    BY <2>1, <2>2, <2>3
<1>10. ASSUME NEW i \in Items', NEW j \in Items', i < j
       PROVE  starts'[i] < starts'[j]
  <2>1. i \in 1 .. Len(starts) /\ (j \in 1 .. Len(starts) \/ j = Len(starts) + 1)
    BY <1>5, <1>10
  <2>2. CASE j \in 1 .. Len(starts)
    BY <1>5, <1>10, <2>1, <2>2 DEF OrderInv, StartsRise
  <2>3. CASE j = Len(starts) + 1
    BY <1>5, <1>6, <2>1, <2>3
  <2> QED
    BY <2>1, <2>2, <2>3
<1>11. StartsRise'
  BY <1>1, <1>4, <1>9, <1>10 DEF StartsRise, n
<1>12. ~Begun /\ ~Begun' /\ stage # "lex" /\ stage # "items" /\ ~Done'
  BY <1>1 DEF Begun, Done
<1> QED
  BY <1>1, <1>4, <1>8, <1>11, <1>12
  DEF OrderInv, Staged, NothingYet, NoParsers, MainIs, ItemParsers, ResultsAre, MutexIs, ItemsInOrder

\* Each goroutine gets a parser at its item.
LEMMA StartItemsKeepsOrder ==
  ASSUME OrderInv, MergeInv, StartItems
  PROVE  OrderInv'
<1>1. /\ stage = "split" /\ stage' = "items" /\ parsed' = parsed /\ main' = main
      /\ starts' = starts /\ mutex' = mutex /\ inside' = inside /\ merged' = merged
      /\ sub' = [i \in Items |-> NewParser(starts[i], <<Statement>>)]
      /\ results' = [i \in Items |-> <<>>]
  BY DEF StartItems
<1>2. /\ IsSeq(parsed) /\ Len(parsed) \in Nat /\ Items' = Items
      /\ ~Begun /\ Begun' /\ ~Done' /\ stage' # "lex" /\ stage' # "split"
  BY <1>1, LenIsNat DEF OrderInv, TokensEnd, Items, Begun, Done
<1>3. merged = {}
  BY <1>2 DEF MergeInv, NotBegun
<1>4. StartsRise' /\ TokensEnd' /\ MutexIs' /\ MainIs'
  BY <1>1, <1>2 DEF OrderInv, StartsRise, TokensEnd, MutexIs, MainIs
<1>5. ASSUME NEW i \in Items
      PROVE  ParserAt(sub'[i], starts[i], Len(parsed))
  <2>1. starts[i] \in Nat /\ starts[i] <= Len(parsed)
    BY <1>2 DEF OrderInv, StartsRise
  <2>2. sub'[i] = NewParser(starts[i], <<Statement>>)
    BY <1>1
  <2> QED
    BY <1>2, <2>1, <2>2, NewParserAt
<1>6. ItemParsers'
  <2>1. sub' = [i \in Items |-> sub'[i]]
    BY <1>1
  <2> QED
    BY <1>1, <1>2, <1>5, <2>1, Zenon DEF ItemParsers
<1>7. ResultsAre'
  BY <1>1, <1>2, <1>3 DEF ResultsAre
<1> QED
  BY <1>1, <1>2, <1>4, <1>6, <1>7
  DEF OrderInv, Staged, NothingYet, NoParsers, ItemsInOrder

\* A goroutine parses while no result is there.
LEMMA ParseItemKeepsOrder ==
  ASSUME OrderInv, MergeInv, ParseItem
  PROVE  OrderInv'
<1>1. PICK i \in Items : sub[i].todo # <<>> /\ sub' = [sub EXCEPT ![i] = Step(sub[i], parsed)]
  BY DEF ParseItem
<1>2. /\ stage = "items" /\ stage' = stage /\ parsed' = parsed /\ main' = main
      /\ starts' = starts /\ mutex' = mutex /\ inside' = inside /\ merged' = merged
      /\ results' = results
  BY DEF ParseItem
<1>3. /\ IsSeq(parsed) /\ Len(parsed) \in Nat /\ Items' = Items
      /\ Begun /\ Begun' /\ ~Done' /\ stage' # "lex" /\ stage' # "split"
  BY <1>2, LenIsNat DEF OrderInv, TokensEnd, Items, Begun, Done
<1>4. merged = {}
  BY <1>1 DEF MergeInv, Settled
<1>5. StartsRise' /\ TokensEnd' /\ MutexIs' /\ MainIs'
  BY <1>2, <1>3 DEF OrderInv, StartsRise, TokensEnd, MutexIs, MainIs
<1>6. /\ sub = [j \in Items |-> sub[j]]
      /\ \A j \in Items : ParserAt(sub[j], starts[j], Len(parsed))
      /\ \A j \in Items : starts[j] \in Nat
  BY <1>3 DEF OrderInv, ItemParsers, StartsRise
<1>7. ParserAt(Step(sub[i], parsed), starts[i], Len(parsed))
  BY <1>1, <1>3, <1>6, StepKeepsAt
<1>8. /\ sub' = [j \in Items |-> sub'[j]]
      /\ \A j \in Items : sub'[j] = IF j = i THEN Step(sub[i], parsed) ELSE sub[j]
  BY <1>1, <1>6
<1>9. \A j \in Items : ParserAt(sub'[j], starts[j], Len(parsed))
  BY <1>6, <1>7, <1>8, Zenon
<1>10. ItemParsers'
  BY <1>2, <1>3, <1>8, <1>9, Zenon DEF ItemParsers
<1>11. ResultsAre'
  BY <1>2, <1>3, <1>4 DEF OrderInv, ResultsAre
<1> QED
  BY <1>2, <1>3, <1>5, <1>10, <1>11
  DEF OrderInv, Staged, NothingYet, NoParsers, ItemsInOrder

\* Locking changes no result.
LEMMA LockKeepsOrder ==
  ASSUME OrderInv, NEW i \in Items, Lock(i)
  PROVE  OrderInv'
<1>1. /\ stage = "items" /\ stage' = stage /\ parsed' = parsed /\ main' = main
      /\ starts' = starts /\ mutex' = i /\ inside' = inside \union {i} /\ merged' = merged
      /\ results' = results /\ sub' = sub
  BY DEF Lock, Parsed
<1> QED
  BY <1>1 DEF OrderInv, Staged, TokensEnd, NothingYet, NoParsers, MainIs, StartsRise,
     ItemParsers, ResultsAre, MutexIs, ItemsInOrder, Items, Begun, Done

\* The node of an item goes to the place of that item.
LEMMA UnlockKeepsOrder ==
  ASSUME OrderInv, MergeInv, NEW i \in Items, Unlock(i)
  PROVE  OrderInv'
<1>1. /\ i \in inside /\ stage' = stage /\ parsed' = parsed /\ main' = main
      /\ starts' = starts /\ mutex' = 0 /\ merged' = merged \union {i} /\ sub' = sub
      /\ results' = [results EXCEPT ![i] = sub[i].out]
  BY DEF Unlock
<1>2. stage = "items"
  BY <1>1 DEF MergeInv, NotBegun, Begun, Complete, Exclusion
<1>3. /\ Items' = Items /\ Begun /\ Begun' /\ ~Done' /\ stage # "lex"
  BY <1>1, <1>2 DEF Items, Begun, Done
<1>4. ResultsAre'
  BY <1>1, <1>2, <1>3 DEF OrderInv, ResultsAre
<1>5. StartsRise' /\ TokensEnd' /\ MutexIs' /\ MainIs' /\ ItemParsers'
  BY <1>1, <1>2, <1>3 DEF OrderInv, StartsRise, TokensEnd, MutexIs, MainIs, ItemParsers
<1> QED
  BY <1>1, <1>2, <1>3, <1>4, <1>5
  DEF OrderInv, Staged, NothingYet, NoParsers, ItemsInOrder

\* What is left of a list without its empty entries: each one has a place, counted from 1,
\* and later ones have later places.
UpToItem(i) == {j \in Filled : j <= i}

\* The results that are not nil are items.
LEMMA FilledIsFinite ==
  ASSUME IsSeq(starts), DOMAIN results = Items
  PROVE  /\ Filled \in SUBSET Nat /\ Filled \in SUBSET Items
         /\ IsFiniteSet(Filled) /\ Cardinality(Filled) \in Nat
<1>1. Items = 1 .. Len(starts) /\ Len(starts) \in Nat
  BY LenIsNat DEF Items
<1>2. Filled \in SUBSET Items
  BY DEF Filled
<1>3. Filled \in SUBSET (1 .. Len(starts)) /\ IsFiniteSet(1 .. Len(starts))
  BY <1>1, <1>2, FS_Interval
<1>4. IsFiniteSet(Filled)
  BY <1>3, FS_Subset
<1> QED
  BY <1>2, <1>3, <1>4, FS_CardinalityType

\* The place of a result is one of 1 to their number.
LEMMA PlacesAreNumbers ==
  ASSUME IsSeq(starts), DOMAIN results = Items, NEW i \in Filled
  PROVE  /\ IsFiniteSet(UpToItem(i)) /\ Place(i) = Cardinality(UpToItem(i))
         /\ Place(i) \in 1 .. Cardinality(Filled)
<1>1. i \in Nat /\ IsFiniteSet(Filled) /\ Cardinality(Filled) \in Nat
  BY FilledIsFinite
<1>2. UpToItem(i) \in SUBSET Filled /\ i \in UpToItem(i)
  BY <1>1 DEF UpToItem
<1>3. IsFiniteSet(UpToItem(i)) /\ Cardinality(UpToItem(i)) <= Cardinality(Filled)
  BY <1>1, <1>2, FS_Subset
<1>4. Cardinality(UpToItem(i)) \in Nat /\ Cardinality(UpToItem(i)) # 0
  BY <1>2, <1>3, FS_CardinalityType, FS_EmptySet
<1>5. Place(i) = Cardinality(UpToItem(i))
  BY DEF Place, UpToItem
<1> QED
  BY <1>1, <1>3, <1>4, <1>5

\* A later result has a later place.
LEMMA PlacesRise ==
  ASSUME IsSeq(starts), DOMAIN results = Items, NEW i \in Filled, NEW j \in Filled, i < j
  PROVE  Place(i) < Place(j)
<1> DEFINE A == UpToItem(i)
           B == UpToItem(j)
<1>1. i \in Nat /\ j \in Nat /\ Filled \in SUBSET Nat
  BY FilledIsFinite
<1>2. A \union {j} \in SUBSET B /\ j \notin A
  <2>1. \A k \in Nat : k <= i => k <= j
    BY <1>1
  <2>2. \A k \in A : k \in Filled /\ k <= i
    BY DEF UpToItem
  <2>3. j \in B /\ ~(j <= i)
    BY <1>1 DEF UpToItem
  <2>4. \A k \in A : k \in B
    BY <1>1, <2>1, <2>2 DEF UpToItem
  <2> HIDE DEF A, B
  <2> QED
    BY <2>2, <2>3, <2>4
<1>3. IsFiniteSet(A) /\ IsFiniteSet(B) /\ Place(i) = Cardinality(A) /\ Place(j) = Cardinality(B)
  BY PlacesAreNumbers
<1> HIDE DEF A, B
<1>4. Cardinality(A \union {j}) = Cardinality(A) + 1
  BY <1>2, <1>3, FS_AddElement
<1>5. Cardinality(A \union {j}) <= Cardinality(B)
  BY <1>2, <1>3, FS_Subset
<1>6. Cardinality(A) \in Nat /\ Cardinality(B) \in Nat
  BY <1>3, FS_CardinalityType
<1> QED
  BY <1>3, <1>4, <1>5, <1>6

\* No place is free: there are as many of them as there are entries.
LEMMA PlacesAreTaken ==
  ASSUME IsSeq(starts), DOMAIN results = Items, NEW k \in 1 .. Cardinality(Filled)
  PROVE  \E i \in Filled : Place(i) = k
<1> DEFINE n == Cardinality(Filled)
           f == [i \in Filled |-> Place(i)]
<1>1. Filled \in SUBSET Nat /\ IsFiniteSet(Filled) /\ n \in Nat
  BY FilledIsFinite
<1>2. \A i \in Filled : Place(i) \in 1 .. n
  BY PlacesAreNumbers
<1>3. ASSUME NEW i \in Filled, NEW j \in Filled, Place(i) = Place(j)
      PROVE  i = j
  <2>1. i \in Nat /\ j \in Nat /\ Place(i) \in 1 .. n /\ Place(j) \in 1 .. n
    BY <1>1, <1>2
  <2>2. ~(i < j)
    BY <1>3, <2>1, PlacesRise
  <2>3. ~(j < i)
    BY <1>3, <2>1, PlacesRise
  <2> QED
    BY <2>1, <2>2, <2>3
<1>4. IsFiniteSet(1 .. n) /\ Cardinality(1 .. n) = n
  BY <1>1, FS_Interval
<1>5. k \in 1 .. n
  OBVIOUS
<1> HIDE DEF n
<1>6. f \in Injection(Filled, 1 .. n)
  BY <1>2, <1>3 DEF Injection, IsInjective
<1>7. Cardinality(Filled) = Cardinality(1 .. n)
  BY <1>4 DEF n
<1>8. f \in Surjection(Filled, 1 .. n)
  <2> HIDE DEF f
  <2> QED
    BY <1>4, <1>6, <1>7, FS_Injection
<1>9. \E i \in Filled : f[i] = k
  <2> HIDE DEF f
  <2> QED
    BY <1>5, <1>8 DEF Surjection
<1> QED
  BY <1>9

\* The nodes that are left are in the order of their items.
LEMMA WaitKeepsOrder ==
  ASSUME OrderInv, MergeInv, Wait
  PROVE  OrderInv'
<1> DEFINE n == Cardinality(Filled)
<1>1. /\ stage = "items" /\ stage' = "done" /\ merged = Items /\ parsed' = parsed /\ main' = main
      /\ starts' = starts /\ mutex' = mutex /\ inside' = inside /\ merged' = merged /\ sub' = sub
      /\ results' = [k \in 1 .. n |-> Appended(k)]
  BY DEF Wait
<1>2. /\ Items' = Items /\ Begun /\ Begun' /\ stage' # "lex" /\ stage' # "items" /\ stage' # "split"
  BY <1>1 DEF Items, Begun
<1>3. StartsRise' /\ TokensEnd' /\ MutexIs' /\ MainIs' /\ ItemParsers'
  BY <1>1, <1>2 DEF OrderInv, StartsRise, TokensEnd, MutexIs, MainIs, ItemParsers
<1>4. IsSeq(starts) /\ DOMAIN results = Items /\ n \in Nat
  BY <1>1, FilledIsFinite DEF MergeInv, ListsAre, OrderInv, ResultsAre
<1>5. ASSUME NEW i \in Filled
      PROVE  i \in Items /\ results[i][1].at = starts[i]
  <2>1. i \in Items /\ results[i] # <<>>
    BY <1>4 DEF Filled
  <2>2. results[i] = sub[i].out
    BY <1>1, <2>1 DEF OrderInv, ResultsAre
  <2>3. ParserAt(sub[i], starts[i], Len(parsed))
    BY <1>2, <2>1 DEF OrderInv, ItemParsers
  <2> QED
    BY <2>1, <2>2, <2>3 DEF ParserAt
<1> HIDE DEF n
<1>6. ASSUME NEW k \in 1 .. n
      PROVE  \E i \in Filled : Place(i) = k /\ results'[k] = results[i]
  <2>1. \E i \in Filled : Place(i) = k
    BY <1>4, PlacesAreTaken DEF n
  <2>2. results'[k] = results[CHOOSE i \in Filled : Place(i) = k]
    BY <1>1 DEF Appended
  <2> QED
    BY <2>1, <2>2
<1>7. ASSUME NEW j \in DOMAIN results', NEW k \in DOMAIN results', j < k
      PROVE  results'[j][1].at < results'[k][1].at
  <2>1. j \in 1 .. n /\ k \in 1 .. n
    BY <1>1
  <2>2. PICK a \in Filled : Place(a) = j /\ results'[j] = results[a]
    BY <1>6, <2>1
  <2>3. PICK b \in Filled : Place(b) = k /\ results'[k] = results[b]
    BY <1>6, <2>1
  <2>4. a \in Nat /\ b \in Nat /\ j \in Nat /\ k \in Nat
    BY <1>4, <2>1, FilledIsFinite
  <2>5. ~(b < a) /\ a # b
    <3>1. ASSUME b < a PROVE FALSE
      <4>1. Place(b) < Place(a)
        BY <1>4, <3>1, PlacesRise
      <4> QED
        BY <1>7, <2>2, <2>3, <2>4, <4>1
    <3>2. a # b
      BY <1>7, <2>2, <2>3, <2>4
    <3> QED
      BY <3>1, <3>2
  <2>6. a < b
    BY <2>4, <2>5
  <2>7. starts[a] < starts[b]
    BY <1>5, <2>6 DEF OrderInv, StartsRise
  <2> QED
    BY <1>5, <2>2, <2>3, <2>7
<1>8. ItemsInOrder'
  BY <1>7 DEF ItemsInOrder
<1> QED
  BY <1>1, <1>2, <1>3, <1>8
  DEF OrderInv, Staged, NothingYet, NoParsers, ResultsAre

\* The invariant holds before the lexer begins.
LEMMA OrderInvInit == InitSource => OrderInv
<1> SUFFICES ASSUME InitSource PROVE OrderInv
  OBVIOUS
<1>1. /\ stage = "lex" /\ parsed = <<>> /\ main = NewParser(1, <<>>) /\ starts = <<>>
      /\ sub = <<>> /\ mutex = 0
  BY DEF InitSource
<1>2. Items = {} /\ ~Begun /\ ~Done
  BY <1>1 DEF Items, Begun, Done
<1> QED
  BY <1>1, <1>2, NewParserFields
  DEF OrderInv, Staged, TokensEnd, NothingYet, NoParsers, MainIs, StartsRise, ItemParsers,
      ResultsAre, MutexIs, ItemsInOrder

\* It is one of every behaviour, with what is known of the lexer and the mutex.
LEMMA OrderInvCorrect == SpecSource => [](OrderInv /\ MergeInv)
<1>1. OrderInv /\ MergeInv /\ LexInv /\ [NextSource]_sourceVars => OrderInv'
  <2> SUFFICES ASSUME OrderInv, MergeInv, LexInv, [NextSource]_sourceVars PROVE OrderInv'
    OBVIOUS
  <2>1. CASE UNCHANGED sourceVars
    <3>1. /\ stage' = stage /\ parsed' = parsed /\ main' = main /\ starts' = starts /\ sub' = sub
          /\ mutex' = mutex /\ inside' = inside /\ merged' = merged /\ results' = results
      BY <2>1 DEF sourceVars, parseVars
    <3> QED
      BY <3>1 DEF OrderInv, Staged, TokensEnd, NothingYet, NoParsers, MainIs, StartsRise,
         ItemParsers, ResultsAre, MutexIs, ItemsInOrder, Items, Begun, Done
  <2> QED
    BY <2>1, LexKeepsOrder, BeginParseKeepsOrder, ParseExplanationKeepsOrder, SplitItemKeepsOrder,
       StartItemsKeepsOrder, ParseItemKeepsOrder, LockKeepsOrder, UnlockKeepsOrder, WaitKeepsOrder
    DEF NextSource
<1> QED
  BY <1>1, OrderInvInit, MergeInvCorrect, LexInvCorrect, PTL DEF SpecSource

\* For every text and every order in which the goroutines come to the mutex: the nodes of
\* the program begin one behind the other in the text, and none is there twice
\* (ParseProgram of parser.go).
THEOREM ItemsInOrderCorrect == SpecSource => []ItemsInOrder
<1>1. OrderInv => ItemsInOrder
  BY DEF OrderInv
<1> QED
  BY <1>1, OrderInvCorrect, PTL

\* For every text: no parser goes before its item or over the EOF, there is one parser per
\* item, and the mutex is held by a goroutine that is inside or by none.
THEOREM TypeCorrectSource == SpecSource => []TypeOKSource
<1>1. ASSUME OrderInv, MergeInv PROVE TypeOKSource
  <2>1. IsSeq(starts) /\ Len(starts) \in Nat /\ Items = 1 .. Len(starts)
    BY <1>1, LenIsNat DEF MergeInv, ListsAre, Items
  <2>2. CASE Begun
    <3> DEFINE n == Len(starts)
               T == {sub[i] : i \in 1 .. n}
    <3>1. sub = [i \in 1 .. n |-> sub[i]] /\ \A i \in 1 .. n : sub[i].pos \in starts[i] .. Len(parsed)
      BY <1>1, <2>1, <2>2 DEF OrderInv, ItemParsers, ParserAt
    <3>2. sub \in [1 .. n -> T]
      BY <3>1
    <3>3. sub \in Seq(T) /\ DOMAIN sub = 1 .. n /\ n \in Nat
      BY <2>1, <3>2, SeqDef
    <3> HIDE DEF n, T
    <3>4. Len(sub) = n
      BY <3>3, LenProperties
    <3> QED
      BY <1>1, <2>2, <3>1, <3>3, <3>4
      DEF TypeOKSource, Begun, OrderInv, Staged, TokensEnd, MutexIs, MergeInv, Exclusion, n
  <2>3. CASE ~Begun
    <3>1. sub = <<>> /\ Len(sub) = 0 /\ DOMAIN sub = {}
      BY <1>1, <2>3 DEF OrderInv, NoParsers
    <3>2. main.pos \in 1 .. Len(parsed) + 1
      <4>1. CASE stage = "lex"
        BY <1>1, <4>1 DEF OrderInv, NothingYet
      <4>2. CASE stage # "lex"
        BY <1>1, <4>2 DEF OrderInv, TokensEnd
      <4> QED
        BY <4>1, <4>2
    <3> QED
      BY <1>1, <2>3, <3>1, <3>2
      DEF TypeOKSource, Begun, OrderInv, Staged, MutexIs, MergeInv, Exclusion
  <2> QED
    BY <2>2, <2>3
<1> QED
  BY <1>1, OrderInvCorrect, PTL

(***************************************************************************)
(* The grammar counts brackets as skipTopLevel does: every row of it closes *)
(* what it opens, but for two nodes that close a bracket of the row they    *)
(* are in.  A row is labelled with the brackets that are open before each   *)
(* element of it.                                                          *)
(***************************************************************************)
OpenTypes == {"[", "{", "("}
CloseTypes == {"]", "}", ")"}
Turn(type) == IF type \in OpenTypes THEN 1 ELSE IF type \in CloseTypes THEN -1 ELSE 0

\* The nodes that a row asks for by their kind, and those that close a bracket more.
Closing == {"ArrayStore", "StructDef"}
Inner == Closing \union {"Call", "Address", "Deref", "Cast", "Index", "Expr", "StructInstance", "Condition"}
NodeTurn(kind) == IF kind \in Closing THEN -1 ELSE 0

\* An element that takes the next token without a look at it, of which something before
\* knows that it is no bracket: advance, and the nodes that begin with it.
Blind(e) == e.op = "skip" \/ (e.op = "node" /\ e.kind \notin {"StructInstance", "Condition"})
Sees(row) == row # <<>> => ~Blind(row[1])

\* No bracket passes the test of a When for these types.
NoBracket(types) == types \intersect (OpenTypes \union CloseTypes \union {"none"}) = {}

\* The elements of a row turn the count as the labels say, and none but the first is blind.
RowIn(G, row, w) ==
  /\ IsSeq(row)
  /\ \E l \in [1 .. Len(row) + 1 -> Int] :
       /\ l[1] = 0 /\ l[Len(row) + 1] = w
       /\ \A k \in 1 .. Len(row) :
            /\ <<row[k], l[k + 1] - l[k]>> \in G /\ (k > 1 => ~Blind(row[k]))
            /\ l[k] >= 0 \/ (l[k] = 0 - 1 /\ row[k] = End)

\* What G says of an element is right as far as G is right about the rows in it.
Right(G, e, w) ==
  /\ w \in Int
  /\ e.op \in {"expect", "skip", "name", "leaf", "end", "node", "statement", "when", "until"}
  /\ e.op = "expect" => w = Turn(e.type) /\ e.type # "EOF"
  /\ e.op \in {"skip", "name", "leaf", "end", "statement"} => w = 0
  /\ e.op = "node" => e.kind \in Inner /\ w = NodeTurn(e.kind)
  /\ e.op = "when" => /\ RowIn(G, e.then, w) /\ RowIn(G, e.else, w)
                      /\ Sees(e.else) /\ (Sees(e.then) \/ NoBracket(e.types))
  /\ e.op = "until" => w = 0 /\ RowIn(G, e.body, 0) /\ Sees(e.body)

Sound(G) == \A e, w : <<e, w>> \in G => Right(G, e, w)

\* Element e turns the count by w.
Turns(e, w) == \E G : Sound(G) /\ <<e, w>> \in G

\* The elements of row turn it from u to v. It is at least low before each element, or
\* one less where a node ends.
Fits(low, row, u, v) ==
  /\ IsSeq(row)
  /\ \E l \in [1 .. Len(row) + 1 -> Int] :
       /\ l[1] = u /\ l[Len(row) + 1] = v
       /\ \A k \in 1 .. Len(row) :
            /\ Turns(row[k], l[k + 1] - l[k]) /\ (k > 1 => ~Blind(row[k]))
            /\ l[k] >= low \/ (l[k] = low - 1 /\ row[k] = End)

\* More elements do no harm to what is known of a row.
LEMMA RowInGrows ==
  ASSUME NEW G, NEW H, G \subseteq H, NEW row, NEW w, RowIn(G, row, w)
  PROVE  RowIn(H, row, w)
BY DEF RowIn

LEMMA RightGrows ==
  ASSUME NEW G, NEW H, G \subseteq H, NEW e, NEW w, Right(G, e, w)
  PROVE  Right(H, e, w)
BY RowInGrows DEF Right

\* What is right for its own part is right together.
LEMMA SoundUnion ==
  ASSUME NEW F, \A G \in F : Sound(G)
  PROVE  Sound(UNION F)
<1>1. ASSUME NEW e, NEW w, <<e, w>> \in UNION F
      PROVE  Right(UNION F, e, w)
  <2>1. PICK G \in F : <<e, w>> \in G
    BY <1>1
  <2>2. Right(G, e, w) /\ G \subseteq UNION F
    BY <2>1 DEF Sound
  <2> QED
    BY <2>2, RightGrows
<1> QED
  BY <1>1 DEF Sound

\* One set is right about all the elements of a row.
LEMMA RowSound ==
  ASSUME NEW row, NEW w, Fits(0, row, 0, w)
  PROVE  \E G : Sound(G) /\ RowIn(G, row, w)
<1>1. PICK l \in [1 .. Len(row) + 1 -> Int] :
        /\ l[1] = 0 /\ l[Len(row) + 1] = w
        /\ \A k \in 1 .. Len(row) :
             /\ Turns(row[k], l[k + 1] - l[k]) /\ (k > 1 => ~Blind(row[k]))
             /\ l[k] >= 0 \/ (l[k] = 0 - 1 /\ row[k] = End)
  BY DEF Fits
<1> DEFINE g(k) == CHOOSE G : Sound(G) /\ <<row[k], l[k + 1] - l[k]>> \in G
           F == {g(k) : k \in 1 .. Len(row)}
<1>2. \A k \in 1 .. Len(row) : Sound(g(k)) /\ <<row[k], l[k + 1] - l[k]>> \in g(k)
  BY <1>1 DEF Turns
<1> HIDE DEF g
<1>3. Sound(UNION F)
  BY <1>2, SoundUnion
<1>4. \A k \in 1 .. Len(row) : <<row[k], l[k + 1] - l[k]>> \in UNION F
  BY <1>2
<1> HIDE DEF F
<1>5. RowIn(UNION F, row, w)
  BY <1>1, <1>4 DEF RowIn, Fits
<1> QED
  BY <1>3, <1>5

\* What holds for the elements holds for tests and loops over rows of them.
LEMMA WhenTurns ==
  ASSUME NEW types, NEW next, NEW then, NEW else, NEW w \in Int,
         Fits(0, then, 0, w), Fits(0, else, 0, w), Sees(else), Sees(then) \/ NoBracket(types)
  PROVE  Turns(When2(types, next, then, else), w)
<1> DEFINE e == When2(types, next, then, else)
<1>1. PICK G1 : Sound(G1) /\ RowIn(G1, then, w)
  BY RowSound
<1>2. PICK G2 : Sound(G2) /\ RowIn(G2, else, w)
  BY RowSound
<1> DEFINE G == G1 \union G2 \union {<<e, w>>}
<1>3. G1 \subseteq G /\ G2 \subseteq G /\ <<e, w>> \in G
  OBVIOUS
<1>4. e.op = "when" /\ e.types = types /\ e.then = then /\ e.else = else
  BY DEF When2
<1> HIDE DEF e
<1>5. ASSUME NEW f, NEW v, <<f, v>> \in G PROVE Right(G, f, v)
  <2>1. CASE <<f, v>> \in G1
    BY <1>1, <1>3, <2>1, RightGrows DEF Sound
  <2>2. CASE <<f, v>> \in G2
    BY <1>2, <1>3, <2>2, RightGrows DEF Sound
  <2>3. CASE f = e /\ v = w
    <3>1. RowIn(G, then, w) /\ RowIn(G, else, w)
      BY <1>1, <1>2, <1>3, RowInGrows
    <3> QED
      BY <1>4, <2>3, <3>1 DEF Right
  <2> QED
    BY <1>5, <2>1, <2>2, <2>3
<1> HIDE DEF G
<1>6. Sound(G)
  BY <1>5 DEF Sound
<1> QED
  BY <1>3, <1>6 DEF Turns, e

LEMMA UntilTurns ==
  ASSUME NEW types, NEW body, Fits(0, body, 0, 0), Sees(body)
  PROVE  Turns(Until(types, body), 0)
<1> DEFINE e == Until(types, body)
<1>1. PICK G1 : Sound(G1) /\ RowIn(G1, body, 0)
  BY RowSound
<1> DEFINE G == G1 \union {<<e, 0>>}
<1>3. G1 \subseteq G /\ <<e, 0>> \in G
  OBVIOUS
<1>4. e.op = "until" /\ e.body = body
  BY DEF Until
<1> HIDE DEF e
<1>5. ASSUME NEW f, NEW v, <<f, v>> \in G PROVE Right(G, f, v)
  <2>1. CASE <<f, v>> \in G1
    BY <1>1, <1>3, <2>1, RightGrows DEF Sound
  <2>2. CASE f = e /\ v = 0
    <3>1. RowIn(G, body, 0)
      BY <1>1, <1>3, RowInGrows
    <3> QED
      BY <1>4, <2>2, <3>1 DEF Right
  <2> QED
    BY <1>5, <2>1, <2>2
<1> HIDE DEF G
<1>6. Sound(G)
  BY <1>5 DEF Sound
<1> QED
  BY <1>3, <1>6 DEF Turns, e

\* The elements that hold no rows, and End.
LEMMA AtomTurns ==
  ASSUME NEW e, NEW w \in Int,
         e.op \in {"expect", "skip", "name", "leaf", "end", "node", "statement"},
         e.op = "expect" => w = Turn(e.type) /\ e.type # "EOF",
         e.op \in {"skip", "name", "leaf", "end", "statement"} => w = 0,
         e.op = "node" => e.kind \in Inner /\ w = NodeTurn(e.kind)
  PROVE  Turns(e, w)
<1>1. Sound({<<e, w>>})
  BY DEF Sound, Right
<1> QED
  BY <1>1 DEF Turns

\* Of a test and of a loop, the rows fit.
LEMMA TurnsRight ==
  ASSUME NEW e, NEW w, Turns(e, w)
  PROVE  /\ w \in Int
         /\ e.op \in {"expect", "skip", "name", "leaf", "end", "node", "statement", "when", "until"}
         /\ e.op = "expect" => w = Turn(e.type) /\ e.type # "EOF"
         /\ e.op \in {"skip", "name", "leaf", "end", "statement"} => w = 0
         /\ e.op = "node" => e.kind \in Inner /\ w = NodeTurn(e.kind)
         /\ e.op = "when" => /\ Fits(0, e.then, 0, w) /\ Fits(0, e.else, 0, w)
                             /\ Sees(e.else) /\ (Sees(e.then) \/ NoBracket(e.types))
         /\ e.op = "until" => w = 0 /\ Fits(0, e.body, 0, 0) /\ Sees(e.body)
<1>1. PICK G : Sound(G) /\ <<e, w>> \in G
  BY DEF Turns
<1>2. Right(G, e, w)
  BY <1>1 DEF Sound
<1>3. ASSUME NEW row, NEW v, RowIn(G, row, v) PROVE Fits(0, row, 0, v)
  <2>1. \A f, x : <<f, x>> \in G => Turns(f, x)
    BY <1>1 DEF Turns
  <2> QED
    BY <1>3, <2>1 DEF RowIn, Fits
<1> QED
  BY <1>2, <1>3 DEF Right

(***************************************************************************)
(* Rows put together.                                                      *)
(***************************************************************************)
LEMMA FitsShift ==
  ASSUME NEW low \in Int, NEW row, NEW u, NEW v, Fits(low, row, u, v), NEW x \in Int,
         NEW low2 \in Int, low2 <= low + x, NEW u2, u2 = u + x, NEW v2, v2 = v + x
  PROVE  Fits(low2, row, u2, v2)
<1>1. PICK l \in [1 .. Len(row) + 1 -> Int] :
        /\ l[1] = u /\ l[Len(row) + 1] = v
        /\ \A k \in 1 .. Len(row) :
             /\ Turns(row[k], l[k + 1] - l[k]) /\ (k > 1 => ~Blind(row[k]))
             /\ l[k] >= low \/ (l[k] = low - 1 /\ row[k] = End)
  BY DEF Fits
<1>2. IsSeq(row) /\ Len(row) \in Nat
  BY LenIsNat DEF Fits
<1> DEFINE d == [k \in 1 .. Len(row) + 1 |-> l[k] + x]
<1>3. d \in [1 .. Len(row) + 1 -> Int] /\ d[1] = u2 /\ d[Len(row) + 1] = v2
  BY <1>1, <1>2
<1>4. ASSUME NEW k \in 1 .. Len(row)
      PROVE  /\ Turns(row[k], d[k + 1] - d[k]) /\ (k > 1 => ~Blind(row[k]))
             /\ d[k] >= low2 \/ (d[k] = low2 - 1 /\ row[k] = End)
  <2>1. /\ k \in 1 .. Len(row) + 1 /\ k + 1 \in 1 .. Len(row) + 1
        /\ d[k] = l[k] + x /\ d[k + 1] = l[k + 1] + x /\ l[k] \in Int /\ l[k + 1] \in Int
    BY <1>2
  <2> HIDE DEF d
  <2>2. d[k + 1] - d[k] = l[k + 1] - l[k]
    BY <2>1
  <2>3. d[k] >= low2 \/ (d[k] = low2 - 1 /\ row[k] = End)
    BY <1>1, <2>1
  <2> QED
    BY <1>1, <2>2, <2>3
<1> HIDE DEF d
<1> QED
  BY <1>2, <1>3, <1>4 DEF Fits

LEMMA FitsConcat ==
  ASSUME NEW low \in Int, NEW r1, NEW r2, NEW u, NEW v, NEW w,
         Fits(low, r1, u, v), Fits(low, r2, v, w), Sees(r2) \/ r1 = <<>>
  PROVE  Fits(low, r1 \o r2, u, w)
<1> DEFINE row == r1 \o r2
           m == Len(r1)
           n == Len(r2)
<1>1. /\ IsSeq(r1) /\ IsSeq(r2) /\ IsSeq(row) /\ m \in Nat /\ n \in Nat /\ Len(row) = m + n
      /\ \A k \in 1 .. m : row[k] = r1[k]
      /\ \A k \in 1 .. n : row[m + k] = r2[k]
  BY ConcatIsSeq, LenIsNat DEF Fits
<1>2. PICK l \in [1 .. m + 1 -> Int] :
        /\ l[1] = u /\ l[m + 1] = v
        /\ \A k \in 1 .. m :
             /\ Turns(r1[k], l[k + 1] - l[k]) /\ (k > 1 => ~Blind(r1[k]))
             /\ l[k] >= low \/ (l[k] = low - 1 /\ r1[k] = End)
  BY DEF Fits
<1>3. PICK d \in [1 .. n + 1 -> Int] :
        /\ d[1] = v /\ d[n + 1] = w
        /\ \A k \in 1 .. n :
             /\ Turns(r2[k], d[k + 1] - d[k]) /\ (k > 1 => ~Blind(r2[k]))
             /\ d[k] >= low \/ (d[k] = low - 1 /\ r2[k] = End)
  BY DEF Fits
<1>4. n > 0 => (Sees(r2) => ~Blind(r2[1]))
  BY <1>1, EmptySeq DEF Sees
<1>5. (Sees(r2) \/ m = 0)
  BY EmptySeq
<1> HIDE DEF row, m, n
<1> DEFINE j == [k \in 1 .. m + n + 1 |-> IF k <= m THEN l[k] ELSE d[k - m]]
<1>6. /\ j \in [1 .. m + n + 1 -> Int]
      /\ \A k \in 1 .. m + 1 : j[k] = l[k]
      /\ \A k \in m + 1 .. m + n + 1 : j[k] = d[k - m]
  <2>1. \A k \in 1 .. m + n + 1 : IF k <= m THEN k \in 1 .. m + 1 ELSE k - m \in 1 .. n + 1
    BY <1>1
  <2>2. \A k \in 1 .. m + n + 1 : (IF k <= m THEN l[k] ELSE d[k - m]) \in Int
    BY <2>1, <1>2, <1>3
  <2>3. \A k \in 1 .. m : j[k] = l[k]
    BY <1>1
  <2>4. \A k \in m + 1 .. m + n + 1 : j[k] = d[k - m]
    BY <1>1
  <2>5. j[m + 1] = l[m + 1]
    BY <1>1, <1>2, <1>3, <2>4
  <2> HIDE DEF j
  <2>6. \A k \in 1 .. m + 1 : j[k] = l[k]
    BY <1>1, <2>3, <2>5
  <2>7. j \in [1 .. m + n + 1 -> Int]
    BY <2>2 DEF j
  <2> QED
    BY <2>4, <2>6, <2>7
<1> HIDE DEF j
<1>7. ASSUME NEW k \in 1 .. m + n
      PROVE  /\ Turns(row[k], j[k + 1] - j[k]) /\ (k > 1 => ~Blind(row[k]))
             /\ j[k] >= low \/ (j[k] = low - 1 /\ row[k] = End)
  <2>1. CASE k <= m
    <3>1. k \in 1 .. m /\ k \in 1 .. m + 1 /\ k + 1 \in 1 .. m + 1
      BY <1>1, <2>1
    <3>2. row[k] = r1[k] /\ j[k] = l[k] /\ j[k + 1] = l[k + 1]
      BY <1>1, <1>6, <3>1
    <3> QED
      BY <1>2, <3>1, <3>2
  <2>2. CASE ~(k <= m)
    <3> DEFINE i == k - m
    <3>1. /\ i \in 1 .. n /\ i \in 1 .. n + 1 /\ i + 1 \in 1 .. n + 1 /\ m + i = k
          /\ k \in m + 1 .. m + n + 1 /\ k + 1 \in m + 1 .. m + n + 1
          /\ k - m = i /\ (k + 1) - m = i + 1
      BY <1>1, <2>2
    <3> HIDE DEF i
    <3>2. row[k] = r2[i] /\ j[k] = d[i] /\ j[k + 1] = d[i + 1]
      BY <1>1, <1>6, <3>1
    <3>3. k > 1 => ~Blind(r2[i])
      <4>1. CASE i > 1
        BY <1>3, <3>1, <4>1
      <4>2. CASE i = 1
        <5>1. n > 0 /\ (k > 1 => m # 0)
          BY <1>1, <3>1, <4>2
        <5> QED
          BY <1>4, <1>5, <4>2, <5>1
      <4> QED
        BY <3>1, <4>1, <4>2
    <3> QED
      BY <1>3, <3>1, <3>2, <3>3
  <2> QED
    BY <2>1, <2>2
<1>8. j[1] = u /\ j[m + n + 1] = w
  <2>1. 1 \in 1 .. m + 1 /\ m + n + 1 \in m + 1 .. m + n + 1 /\ (m + n + 1) - m = n + 1
    BY <1>1
  <2> QED
    BY <1>2, <1>3, <1>6, <2>1
<1>9. Fits(low, row, u, w)
  BY <1>1, <1>6, <1>7, <1>8 DEF Fits
<1> QED
  BY <1>9 DEF row

\* A row without its first element.
LEMMA FitsTail ==
  ASSUME NEW low \in Int, NEW row, NEW u, NEW v, Fits(low, row, u, v), row # <<>>
  PROVE  /\ u \in Int /\ (u >= low \/ (u = low - 1 /\ Head(row) = End))
         /\ Sees(Tail(row)) /\ Head(row) = row[1]
         /\ \E w \in Int : Turns(Head(row), w) /\ Fits(low, Tail(row), u + w, v)
<1> DEFINE n == Len(row)
           t == Tail(row)
<1>1. PICK l \in [1 .. n + 1 -> Int] :
        /\ l[1] = u /\ l[n + 1] = v
        /\ \A k \in 1 .. n :
             /\ Turns(row[k], l[k + 1] - l[k]) /\ (k > 1 => ~Blind(row[k]))
             /\ l[k] >= low \/ (l[k] = low - 1 /\ row[k] = End)
  BY DEF Fits
<1>2. /\ n \in Nat /\ n >= 1 /\ Head(row) = row[1] /\ IsSeq(t) /\ Len(t) = n - 1
      /\ \A k \in 1 .. n - 1 : t[k] = row[k + 1]
  <2>1. PICK S : row \in Seq(S)
    BY DEF Fits, IsSeq
  <2>2. Len(row) # 0
    BY <2>1, EmptySeq
  <2> QED
    BY <2>1, <2>2, HeadTailProperties, LenProperties DEF IsSeq
<1> HIDE DEF n, t
<1>3. u \in Int /\ l[2] \in Int /\ 1 \in 1 .. n
  BY <1>1, <1>2
<1>4. Sees(t)
  BY <1>1, <1>2, LenIsNat, EmptySeq DEF Sees, IsSeq
<1> DEFINE d == [k \in 1 .. n |-> l[k + 1]]
           w == l[2] - l[1]
<1>5. /\ w \in Int /\ u + w = l[2] /\ Turns(row[1], w)
  BY <1>1, <1>2, <1>3
<1>6. Fits(low, t, l[2], v)
  <2>1. d \in [1 .. (n - 1) + 1 -> Int] /\ d[1] = l[2] /\ d[(n - 1) + 1] = v
    BY <1>1, <1>2
  <2>2. ASSUME NEW k \in 1 .. n - 1
        PROVE  /\ Turns(t[k], d[k + 1] - d[k]) /\ (k > 1 => ~Blind(t[k]))
               /\ d[k] >= low \/ (d[k] = low - 1 /\ t[k] = End)
    <3>1. /\ k + 1 \in 1 .. n /\ k + 1 > 1 /\ k \in 1 .. n
          /\ d[k] = l[k + 1] /\ d[k + 1] = l[(k + 1) + 1] /\ t[k] = row[k + 1]
      BY <1>2
    <3> HIDE DEF d
    <3> QED
      BY <1>1, <3>1
  <2> HIDE DEF d
  <2> QED
    BY <1>2, <2>1, <2>2 DEF Fits
<1> HIDE DEF w
<1>7. Turns(Head(row), w) /\ Fits(low, t, u + w, v) /\ w \in Int
  BY <1>2, <1>5, <1>6
<1> QED
  BY <1>1, <1>2, <1>3, <1>4, <1>7 DEF t

(***************************************************************************)
(* The elements that hold no rows.                                         *)
(***************************************************************************)
LEMMA ElementsTurn ==
  /\ Turns(Skip, 0) /\ Turns(Name, 0) /\ Turns(Leaf, 0) /\ Turns(Statement, 0) /\ Turns(End, 0)
  /\ \A t \in OpenTypes : Turns(Expect(t), 1)
  /\ \A t \in CloseTypes : Turns(Expect(t), -1)
  /\ \A t \in {":", ",", "check", "for", "True", "try", "Ok", "Err"} : Turns(Expect(t), 0)
  /\ \A kind \in Closing : Turns(Node(kind), -1)
  /\ \A kind \in Inner \ Closing : Turns(Node(kind), 0)
<1>1. /\ Turns(Skip, 0) /\ Turns(Name, 0) /\ Turns(Leaf, 0) /\ Turns(Statement, 0) /\ Turns(End, 0)
  BY AtomTurns DEF Skip, Name, Leaf, Statement, End
<1>2. ASSUME NEW t, t # "EOF" PROVE Turns(Expect(t), Turn(t))
  <2>1. Turn(t) \in Int
    BY DEF Turn
  <2>2. Expect(t).op = "expect" /\ Expect(t).type = t
    BY DEF Expect
  <2> QED
    BY <1>2, <2>1, <2>2, AtomTurns
<1>3. ASSUME NEW kind \in Inner PROVE Turns(Node(kind), NodeTurn(kind))
  <2>1. NodeTurn(kind) \in Int
    BY DEF NodeTurn
  <2>2. Node(kind).op = "node" /\ Node(kind).kind = kind
    BY DEF Node
  <2> QED
    BY <1>3, <2>1, <2>2, AtomTurns
<1>4. \A t \in OpenTypes : Turn(t) = 1 /\ t # "EOF"
  BY DEF Turn, OpenTypes
<1>5. \A t \in CloseTypes : Turn(t) = -1 /\ t # "EOF"
  BY DEF Turn, OpenTypes, CloseTypes
<1>6. \A t \in {":", ",", "check", "for", "True", "try", "Ok", "Err"} : Turn(t) = 0 /\ t # "EOF"
  BY DEF Turn, OpenTypes, CloseTypes
<1>7. \A kind \in Inner : NodeTurn(kind) = IF kind \in Closing THEN -1 ELSE 0
  BY DEF NodeTurn
<1>8. Closing \subseteq Inner
  BY DEF Inner
<1> QED
  BY <1>1, <1>2, <1>3, <1>4, <1>5, <1>6, <1>7, <1>8

LEMMA SkipTurns == Turns(Skip, 0)
BY ElementsTurn

LEMMA OpensTurn ==
  ASSUME NEW o \in OpenTypes
  PROVE  Turns(Expect(o), 1)
BY ElementsTurn

\* Which elements look at the token.
LEMMA WhoSees ==
  /\ \A t : ~Blind(Expect(t))
  /\ ~Blind(Name) /\ ~Blind(Leaf) /\ ~Blind(Statement) /\ ~Blind(End)
  /\ ~Blind(Node("StructInstance")) /\ ~Blind(Node("Condition"))
  /\ \A types, next, then, else : ~Blind(When2(types, next, then, else))
  /\ \A types, body : ~Blind(Until(types, body))
BY DEF Blind, Expect, Name, Leaf, Statement, End, Node, When2, Until

\* A row that is empty, or put together from its first element and the others.
LEMMA FitsNone ==
  ASSUME NEW low \in Int, NEW u \in Int
  PROVE  Fits(low, <<>>, u, u) /\ Sees(<<>>)
<1>1. IsSeq(<<>>) /\ Len(<<>>) = 0
  BY EmptySeq DEF IsSeq
<1> DEFINE l == <<u>>
<1>2. l \in [1 .. 0 + 1 -> Int] /\ l[1] = u /\ l[0 + 1] = u
  OBVIOUS
<1> HIDE DEF l
<1> QED
  BY <1>1, <1>2 DEF Fits, Sees

LEMMA FitsOne ==
  ASSUME NEW low \in Int, NEW u \in Int, NEW e, NEW w, Turns(e, w), NEW v, v = u + w,
         u >= low \/ (u = low - 1 /\ e = End)
  PROVE  Fits(low, <<e>>, u, v)
<1>1. w \in Int
  BY TurnsRight
<1>2. IsSeq(<<e>>) /\ Len(<<e>>) = 1
  <2>1. <<e>> \in Seq({e})
    OBVIOUS
  <2> QED
    BY <2>1 DEF IsSeq
<1> DEFINE l == <<u, v>>
           row == <<e>>
<1>3. /\ l \in [1 .. 1 + 1 -> Int] /\ l[1] = u /\ l[1 + 1] = v /\ l[1 + 1] - l[1] = w
      /\ row[1] = e
  BY <1>1
<1> HIDE DEF l, row
<1>4. Fits(low, row, u, v)
  BY <1>2, <1>3 DEF Fits, row
<1> QED
  BY <1>4 DEF row

\* A row and an element before it.
LEMMA ConsParts ==
  ASSUME NEW S, NEW e \in S, NEW w \in Seq(S)
  PROVE  LET s == <<e>> \o w
         IN  s \in Seq(S) /\ s # <<>> /\ Head(s) = e /\ s[1] = e /\ Tail(s) = w
<1> DEFINE s == <<e>> \o w
           n == Len(w)
<1>1. <<e>> \in Seq(S) /\ Len(<<e>>) = 1 /\ <<e>>[1] = e /\ n \in Nat
  BY LenProperties
<1>2. /\ s \in Seq(S) /\ Len(s) = 1 + n
      /\ \A i \in 1 .. 1 + n : s[i] = IF i <= 1 THEN <<e>>[i] ELSE w[i - 1]
  BY <1>1, ConcatProperties
<1> HIDE DEF s
<1>3. s # <<>>
  BY <1>1, <1>2, EmptySeq
<1> DEFINE u == Tail(s)
<1>4. /\ Head(s) = s[1] /\ u \in Seq(S) /\ Len(u) = n
      /\ \A i \in 1 .. n : u[i] = s[i + 1]
  BY <1>1, <1>2, <1>3, HeadTailProperties
<1>5. s[1] = e
  BY <1>1, <1>2
<1> HIDE DEF u
<1>6. ASSUME NEW i \in 1 .. n PROVE u[i] = w[i]
  <2>1. i + 1 \in 1 .. 1 + n /\ ~(i + 1 <= 1) /\ (i + 1) - 1 = i
    BY <1>1
  <2>2. u[i] = s[i + 1]
    BY <1>4
  <2>3. s[i + 1] = w[(i + 1) - 1]
    BY <1>2, <2>1
  <2> QED
    BY <2>1, <2>2, <2>3, Zenon
<1>7. u = w
  BY <1>4, <1>6, SeqEqual
<1> QED
  BY <1>2, <1>3, <1>4, <1>5, <1>7 DEF s, u

\* The parts of two rows together.
LEMMA HeadOfConcat ==
  ASSUME NEW s, IsSeq(s), s # <<>>, NEW t, IsSeq(t)
  PROVE  /\ s \o t # <<>> /\ Head(s \o t) = Head(s) /\ Tail(s \o t) = Tail(s) \o t
         /\ IsSeq(Tail(s)) /\ Head(s) = s[1] /\ s = <<Head(s)>> \o Tail(s)
<1>1. PICK S : s \in Seq(S) /\ t \in Seq(S)
  <2>1. PICK S1 : s \in Seq(S1)
    BY DEF IsSeq
  <2>2. PICK S2 : t \in Seq(S2)
    BY DEF IsSeq
  <2> DEFINE S == S1 \union S2
  <2>3. s \in Seq(S) /\ t \in Seq(S)
    BY <2>1, <2>2, SeqMonotonic
  <2> QED
    BY <2>3
<1> DEFINE n == Len(s)
           st == s \o t
           u == Tail(s)
<1>2. /\ n \in Nat /\ n >= 1 /\ Head(s) = s[1] /\ s[1] \in S /\ u \in Seq(S) /\ Len(u) = n - 1
      /\ \A i \in 1 .. n - 1 : u[i] = s[i + 1]
  <2>1. Len(s) # 0
    BY <1>1, EmptySeq
  <2> QED
    BY <1>1, <2>1, HeadTailProperties, LenProperties
<1>3. s = <<s[1]>> \o u
  <2> DEFINE v == <<s[1]>> \o u
  <2>1. <<s[1]>> \in Seq(S) /\ Len(<<s[1]>>) = 1 /\ <<s[1]>>[1] = s[1]
    BY <1>2
  <2>2. /\ v \in Seq(S) /\ Len(v) = 1 + (n - 1)
        /\ \A i \in 1 .. 1 + (n - 1) : v[i] = IF i <= 1 THEN <<s[1]>>[i] ELSE u[i - 1]
    BY <1>2, <2>1, ConcatProperties
  <2> HIDE DEF v, u
  <2>3. Len(v) = n /\ \A i \in 1 .. n : v[i] = s[i]
    <3>1. ASSUME NEW i \in 1 .. n PROVE v[i] = s[i]
      <4>1. CASE i = 1
        BY <1>2, <2>1, <2>2, <4>1
      <4>2. CASE i # 1
        <5>1. i - 1 \in 1 .. n - 1 /\ (i - 1) + 1 = i /\ ~(i <= 1) /\ i \in 1 .. 1 + (n - 1)
          BY <1>2, <4>2
        <5>2. v[i] = u[i - 1]
          BY <2>2, <5>1
        <5> QED
          BY <1>2, <5>1, <5>2
      <4> QED
        BY <4>1, <4>2
    <3> QED
      BY <1>2, <2>2, <3>1
  <2>4. v = s
    BY <1>1, <2>2, <2>3, SeqEqual
  <2> QED
    BY <2>4 DEF v
<1>4. st = <<s[1]>> \o (u \o t)
  <2>1. <<s[1]>> \in Seq(S)
    BY <1>2
  <2> QED
    BY <1>1, <1>2, <1>3, <2>1, ConcatAssociative
<1> DEFINE w == u \o t
           h == s[1]
<1>5. w \in Seq(S) /\ h \in S /\ st = <<h>> \o w
  BY <1>1, <1>2, <1>4, ConcatProperties
<1> HIDE DEF w, st, h
<1>6. Head(st) = h /\ Tail(st) = w /\ st # <<>>
  BY <1>5, ConsParts
<1> QED
  BY <1>2, <1>3, <1>6 DEF st, w, h, IsSeq

LEMMA FitsCons ==
  ASSUME NEW low \in Int, NEW row, IsSeq(row), row # <<>>, NEW e, Head(row) = e,
         NEW t, Tail(row) = t, NEW u \in Int, u >= low, NEW m \in Int, NEW v, Turns(e, m - u),
         Fits(low, t, m, v), Sees(t)
  PROVE  Fits(low, row, u, v)
<1>1. row = <<e>> \o t
  BY HeadOfConcat
<1>2. Fits(low, <<e>>, u, m)
  <2>1. m = u + (m - u)
    OBVIOUS
  <2> QED
    BY <2>1, FitsOne
<1>3. Fits(low, <<e>> \o t, u, v)
  BY <1>2, FitsConcat
<1> QED
  BY <1>1, <1>3

\* A row that is written down as a tuple.
LEMMA TupleIsSeq ==
  ASSUME NEW n \in Nat, NEW row, row = [k \in 1 .. n |-> row[k]]
  PROVE  IsSeq(row) /\ Len(row) = n
<1> DEFINE T == {row[k] : k \in 1 .. n}
<1>1. row \in [1 .. n -> T]
  OBVIOUS
<1>2. row \in Seq(T) /\ DOMAIN row = 1 .. n
  BY <1>1, SeqDef
<1> HIDE DEF T
<1> QED
  BY <1>2, LenProperties DEF IsSeq

LEMMA TupleFits ==
  ASSUME NEW n \in Nat, NEW row, row = [k \in 1 .. n |-> row[k]], n >= 1,
         NEW l, l \in [1 .. n + 1 -> Int], NEW w, l[1] = 0, l[n + 1] = w,
         \A k \in 1 .. n :
           Turns(row[k], l[k + 1] - l[k]) /\ (k > 1 => ~Blind(row[k])) /\ l[k] >= 0
  PROVE  Fits(0, row, 0, w) /\ (~Blind(row[1]) => Sees(row))
<1>1. IsSeq(row) /\ Len(row) = n
  BY TupleIsSeq
<1>2. Fits(0, row, 0, w)
  BY <1>1 DEF Fits
<1> QED
  BY <1>2 DEF Sees

\* An element that opens a bracket.
Opening(e) == \E o \in OpenTypes : e = Expect(o)

\* The row of a statement: its word, the bracket it opens, and what is to come.
Item(row, w) ==
  /\ IsSeq(row) /\ row # <<>> /\ Head(row) = Skip
  /\ IsSeq(Tail(row)) /\ Tail(row) # <<>> /\ Opening(Head(Tail(row)))
  /\ Fits(0, Tail(Tail(row)), 0, w) /\ Sees(Tail(Tail(row)))

\* More of the row of a statement.
LEMMA ItemConcat ==
  ASSUME NEW r1, NEW r2, NEW v, NEW w, Item(r1, v), Fits(0, r2, v, w), Sees(r2)
  PROVE  Item(r1 \o r2, w)
<1> DEFINE s == Tail(r1)
           t == Tail(s)
<1>1. /\ IsSeq(r1) /\ r1 # <<>> /\ Head(r1) = Skip /\ IsSeq(s) /\ s # <<>> /\ IsSeq(r2)
      /\ Opening(Head(s))
      /\ Fits(0, t, 0, v) /\ Sees(t)
  BY DEF Item, Fits
<1> HIDE DEF s
<1>2. /\ r1 \o r2 # <<>> /\ Head(r1 \o r2) = Head(r1) /\ Tail(r1 \o r2) = s \o r2
      /\ s \o r2 # <<>> /\ Head(s \o r2) = Head(s) /\ Tail(s \o r2) = t \o r2
      /\ IsSeq(t)
  BY <1>1, HeadOfConcat DEF s
<1>3. IsSeq(r1 \o r2) /\ IsSeq(s \o r2)
  BY <1>1, ConcatIsSeq
<1> HIDE DEF t
<1>4. Fits(0, t \o r2, 0, w)
  BY <1>1, FitsConcat
<1>5. Sees(t \o r2)
  <2>1. CASE t = <<>>
    <3>1. t \o r2 = r2
      <4>1. PICK S : r2 \in Seq(S)
        BY <1>1 DEF IsSeq
      <4> QED
        BY <2>1, <4>1, ConcatEmptySeq
    <3> QED
      BY <3>1
  <2>2. CASE t # <<>>
    <3>1. Len(t) \in Nat /\ Len(t) # 0
      BY <1>2, <2>2, LenIsNat, EmptySeq DEF IsSeq
    <3>2. (t \o r2)[1] = t[1]
      BY <1>1, <1>2, <3>1, ConcatIsSeq
    <3> QED
      BY <1>1, <2>2, <3>2 DEF Sees
  <2> QED
    BY <2>1, <2>2
<1> QED
  BY <1>1, <1>2, <1>3, <1>4, <1>5 DEF Item

\* A statement as a whole leaves the count as it was before its word.
LEMMA ItemFits ==
  ASSUME NEW row, NEW w, Item(row, w)
  PROVE  /\ Fits(0, row, 0, w + 1)
         /\ Fits(1, Tail(Tail(row)), 1, w + 1)
<1> DEFINE s == Tail(row)
           t == Tail(s)
<1>1. /\ IsSeq(row) /\ row # <<>> /\ Head(row) = Skip /\ IsSeq(s) /\ s # <<>>
      /\ Fits(0, t, 0, w) /\ Sees(t)
  BY DEF Item
<1>2. PICK o \in OpenTypes : Head(s) = Expect(o)
  BY DEF Item, Opening
<1> HIDE DEF t
<1>4. Fits(0, t, 1, w + 1) /\ Fits(1, t, 1, w + 1)
  <2>1. 1 <= 0 + 1 /\ 0 <= 0 + 1 /\ 1 = 0 + 1 /\ 0 \in Int /\ 1 \in Int
    OBVIOUS
  <2> QED
    BY <1>1, <2>1, FitsShift
<1>5. Turns(Head(s), 1) /\ ~Blind(Head(s)) /\ Head(s) = s[1]
  <2>1. Head(s) = s[1]
    BY <1>1, HeadOfConcat
  <2> QED
    BY <1>2, <2>1, OpensTurn, WhoSees
<1>6. Fits(0, s, 0, w + 1)
  <2>1. Fits(0, t, 1, w + 1) /\ Sees(t) /\ Tail(s) = t
    BY <1>1, <1>4 DEF t
  <2> HIDE DEF s
  <2>2. Turns(Head(s), 1 - 0)
    BY <1>5
  <2> QED
    BY <1>1, <2>1, <2>2, FitsCons
<1>7. Sees(s) /\ Turns(Head(row), 0 - 0) /\ Tail(row) = s
  BY <1>1, <1>5, SkipTurns DEF Sees
<1> HIDE DEF s
<1>8. Fits(0, row, 0, w + 1)
  BY <1>1, <1>6, <1>7, FitsCons
<1> QED
  BY <1>4, <1>8 DEF s, t

\* The places of a row without its first element.
LEMMA TailIs ==
  ASSUME NEW s, IsSeq(s), NEW n \in Nat, Len(s) = n, n >= 1
  PROVE  /\ s # <<>> /\ Head(s) = s[1] /\ IsSeq(Tail(s)) /\ Len(Tail(s)) = n - 1
         /\ \A k \in 1 .. n - 1 : Tail(s)[k] = s[k + 1]
<1>1. PICK S : s \in Seq(S)
  BY DEF IsSeq
<1>2. s # <<>>
  BY <1>1, EmptySeq
<1> QED
  BY <1>1, <1>2, HeadTailProperties DEF IsSeq

\* Such a row that is written down as a tuple.
LEMMA TupleIsItem ==
  ASSUME NEW n \in Nat, n >= 3, NEW row, row = [k \in 1 .. n |-> row[k]],
         NEW l, l \in [1 .. n + 1 -> Int], NEW w, l[3] = 0, l[n + 1] = w,
         row[1] = Skip, Opening(row[2]),
         \A k \in 3 .. n : Turns(row[k], l[k + 1] - l[k]) /\ ~Blind(row[k]) /\ l[k] >= 0
  PROVE  Item(row, w)
<1> DEFINE s == Tail(row)
           t == Tail(s)
<1>1. IsSeq(row) /\ Len(row) = n
  BY TupleIsSeq
<1>3. /\ row # <<>> /\ Head(row) = row[1] /\ IsSeq(s) /\ Len(s) = n - 1
      /\ \A k \in 1 .. n - 1 : s[k] = row[k + 1]
  BY <1>1, TailIs
<1> HIDE DEF s
<1>4. n - 1 \in Nat /\ n - 1 >= 1 /\ (n - 1) - 1 = n - 2 /\ n - 2 \in Nat
  OBVIOUS
<1>5. /\ s # <<>> /\ Head(s) = s[1] /\ IsSeq(t) /\ Len(t) = n - 2
      /\ \A k \in 1 .. n - 2 : t[k] = s[k + 1]
  BY <1>3, <1>4, TailIs
<1> HIDE DEF t
<1>6. s[1] = row[2]
  <2>1. 1 \in 1 .. n - 1 /\ 1 + 1 = 2
    OBVIOUS
  <2> QED
    BY <1>3, <2>1
<1>7. ASSUME NEW k \in 1 .. n - 2 PROVE t[k] = row[k + 2]
  <2>1. k + 1 \in 1 .. n - 1 /\ (k + 1) + 1 = k + 2
    OBVIOUS
  <2> QED
    BY <1>3, <1>5, <2>1
<1>8. t = [k \in 1 .. n - 2 |-> t[k]]
  <2>1. PICK S : t \in Seq(S)
    BY <1>5 DEF IsSeq
  <2> QED
    BY <1>4, <1>5, <2>1, LenProperties
<1> DEFINE d == [k \in 1 .. (n - 2) + 1 |-> l[k + 2]]
<1>9. d \in [1 .. (n - 2) + 1 -> Int] /\ d[1] = 0 /\ d[(n - 2) + 1] = w
  OBVIOUS
<1>10. ASSUME NEW k \in 1 .. n - 2
       PROVE  Turns(t[k], d[k + 1] - d[k]) /\ ~Blind(t[k]) /\ d[k] >= 0
  <2>1. k + 2 \in 3 .. n /\ d[k] = l[k + 2] /\ d[k + 1] = l[(k + 1) + 2] /\ (k + 1) + 2 = (k + 2) + 1
    OBVIOUS
  <2>2. t[k] = row[k + 2]
    BY <1>7
  <2> HIDE DEF d
  <2> QED
    BY <2>1, <2>2
<1> HIDE DEF d
<1>11. Fits(0, t, 0, w) /\ Sees(t)
  <2>1. 1 \in 1 .. n - 2 /\ n - 2 >= 1
    OBVIOUS
  <2> QED
    BY <1>4, <1>8, <1>9, <1>10, <2>1, TupleFits
<1> QED
  BY <1>1, <1>3, <1>5, <1>6, <1>11 DEF Item, s, t

(***************************************************************************)
(* The rows of the grammar.                                                *)
(***************************************************************************)
\* An element that looks at the token, and turns the count by w.
Takes(e, w) == Turns(e, w) /\ ~Blind(e)

\* As the rows have them.
OpenCurly == Expect("{")
CloseCurly == Expect("}")
CommaMark == Expect(",")

LEMMA OpeningAre == Opening(Expect("[")) /\ Opening(OpenCurly) /\ Opening(Expect("("))
<1>1. "[" \in OpenTypes /\ "{" \in OpenTypes /\ "(" \in OpenTypes
  BY DEF OpenTypes
<1> QED
  BY <1>1, Zenon DEF Opening, OpenCurly

\* Those that the rows are made of, one by one.
LEMMA WordsTake ==
  /\ Takes(Name, 0) /\ Takes(Leaf, 0) /\ Takes(Statement, 0)
  /\ Takes(Expect("["), 1) /\ Takes(OpenCurly, 1) /\ Takes(Expect("("), 1)
  /\ Takes(Expect("]"), -1) /\ Takes(CloseCurly, -1) /\ Takes(Expect(")"), -1)
  /\ Takes(Expect(":"), 0) /\ Takes(CommaMark, 0) /\ Takes(Expect("check"), 0)
  /\ Takes(Expect("for"), 0) /\ Takes(Expect("True"), 0) /\ Takes(Expect("try"), 0)
  /\ Takes(Expect("Ok"), 0) /\ Takes(Expect("Err"), 0)
  /\ Takes(Node("StructInstance"), 0) /\ Takes(Node("Condition"), 0)
<1>1. /\ "StructInstance" \in Inner \ Closing /\ "Condition" \in Inner \ Closing
      /\ "[" \in OpenTypes /\ "{" \in OpenTypes /\ "(" \in OpenTypes
      /\ "]" \in CloseTypes /\ "}" \in CloseTypes /\ ")" \in CloseTypes
  BY DEF Inner, Closing, OpenTypes, CloseTypes
<1> QED
  BY <1>1, ElementsTurn, WhoSees, Zenon DEF Takes, OpenCurly, CloseCurly, CommaMark

\* The rows of one element.
LEMMA OneTakes ==
  ASSUME NEW e, NEW w, Takes(e, w)
  PROVE  Fits(0, <<e>>, 0, w) /\ Sees(<<e>>)
<1>1. w \in Int /\ Turns(e, w)
  BY TurnsRight DEF Takes
<1>2. Fits(0, <<e>>, 0, w)
  BY <1>1, FitsOne
<1> QED
  BY <1>1, <1>2 DEF Sees, Takes

\* A test, of which both ways turn the count by w.
LEMMA WhenTakes ==
  ASSUME NEW types, NEW next, NEW then, NEW else, NEW w \in Int,
         Fits(0, then, 0, w), Fits(0, else, 0, w), Sees(else), Sees(then) \/ NoBracket(types)
  PROVE  Takes(When2(types, next, then, else), w)
BY WhenTurns, WhoSees DEF Takes

LEMMA UntilTakes ==
  ASSUME NEW types, NEW body, Fits(0, body, 0, 0), Sees(body)
  PROVE  Takes(Until(types, body), 0)
BY UntilTurns, WhoSees DEF Takes

\* advance alone; advance and what follows it.
LEMMA SkipFits ==
  ASSUME NEW row, NEW w, Fits(0, row, 0, w), Sees(row)
  PROVE  Fits(0, <<Skip>> \o row, 0, w)
<1>1. Fits(0, <<Skip>>, 0, 0)
  BY SkipTurns, FitsOne
<1> QED
  BY <1>1, FitsConcat

LEMMA CommaTakes == Takes(Comma, 0)
<1>1. Fits(0, <<Skip>>, 0, 0)
  BY SkipTurns, FitsOne
<1>2. NoBracket({","})
  BY DEF NoBracket, OpenTypes, CloseTypes
<1>3. Fits(0, <<>>, 0, 0) /\ Sees(<<>>)
  BY FitsNone
<1> DEFINE then == <<Skip>>
           else == <<>>
<1>4. Fits(0, then, 0, 0) /\ Fits(0, else, 0, 0) /\ Sees(else)
  BY <1>1, <1>3
<1> HIDE DEF then, else
<1>5. Takes(When2({","}, AnyType, then, else), 0)
  <2>1. 0 \in Int
    OBVIOUS
  <2> QED
    BY <1>2, <1>4, <2>1, WhenTakes, Zenon
<1> QED
  BY <1>5, Zenon DEF Comma, When, then, else

\* A test for the word of a node.
LEMMA NodeTakes ==
  ASSUME NEW types, NoBracket(types), NEW kind \in Inner, NEW w, w = NodeTurn(kind),
         NEW else, Fits(0, else, 0, w), Sees(else)
  PROVE  Takes(When(types, <<Node(kind)>>, else), w)
<1>1. Turns(Node(kind), w) /\ w \in Int
  <2>1. Turns(Node(kind), w)
    BY ElementsTurn DEF NodeTurn
  <2> QED
    BY <2>1, TurnsRight
<1>2. Fits(0, <<Node(kind)>>, 0, w)
  BY <1>1, FitsOne
<1> QED
  BY <1>1, <1>2, WhenTakes DEF When

LEMMA OperandTakes ==
  ASSUME NEW else, Fits(0, else, 0, 0), Sees(else)
  PROVE  Takes(Operand(else), 0)
<1>1. Takes(When({"+", "-", "*", "/"}, <<Node("Expr")>>, else), 0)
  <2>1. NoBracket({"+", "-", "*", "/"}) /\ "Expr" \in Inner /\ 0 = NodeTurn("Expr")
    BY DEF NoBracket, OpenTypes, CloseTypes, Inner, NodeTurn, Closing
  <2> QED
    BY <2>1, NodeTakes
<1>2. Fits(0, <<Skip, Leaf>>, 0, 0)
  <2> DEFINE row == <<Skip, Leaf>>
  <2>1. row # <<>> /\ Head(row) = Skip /\ Tail(row) = <<Leaf>> /\ row = [k \in 1 .. 2 |-> row[k]]
    OBVIOUS
  <2> HIDE DEF row
  <2>2. IsSeq(row)
    BY <2>1, TupleIsSeq
  <2>3. Fits(0, <<Leaf>>, 0, 0) /\ Sees(<<Leaf>>)
    BY WordsTake, OneTakes
  <2>4. Turns(Skip, 0 - 0)
    BY SkipTurns
  <2> DEFINE t == <<Leaf>>
  <2>5. Tail(row) = t /\ Fits(0, t, 0, 0) /\ Sees(t)
    BY <2>1, <2>3
  <2> HIDE DEF t
  <2>6. row # <<>> /\ Head(row) = Skip
    BY <2>1
  <2>7. Fits(0, row, 0, 0)
    BY <2>2, <2>4, <2>5, <2>6, FitsCons
  <2> QED
    BY <2>7 DEF row
<1>3. NoBracket({"-"})
  BY DEF NoBracket, OpenTypes, CloseTypes
<1> QED
  BY <1>1, <1>2, <1>3, OneTakes, WhenTakes DEF Operand

LEMMA ValuesTake == Takes(Argument, 0) /\ Takes(Literal, 0)
<1>1. Fits(0, <<Leaf>>, 0, 0) /\ Sees(<<Leaf>>)
  BY WordsTake, OneTakes
<1>2. \A kind \in {"Call", "Address", "Deref", "Cast", "Index"} : kind \in Inner /\ 0 = NodeTurn(kind)
  BY DEF Inner, NodeTurn, Closing
<1>3. \A t \in {"call", "addr", "deref", "cast", "index"} : NoBracket({t})
  BY DEF NoBracket, OpenTypes, CloseTypes
<1> DEFINE e1 == When({"index"}, <<Node("Index")>>, <<Leaf>>)
           e2 == When({"cast"}, <<Node("Cast")>>, <<e1>>)
           e3 == When({"deref"}, <<Node("Deref")>>, <<e2>>)
           e4 == When({"addr"}, <<Node("Address")>>, <<e3>>)
           e5 == When({"call"}, <<Node("Call")>>, <<e4>>)
<1>4. Takes(e1, 0)
  BY <1>1, <1>2, <1>3, NodeTakes
<1> HIDE DEF e1
<1>5. Takes(e2, 0)
  BY <1>2, <1>3, <1>4, OneTakes, NodeTakes
<1> HIDE DEF e2
<1>6. Takes(e3, 0)
  BY <1>2, <1>3, <1>5, OneTakes, NodeTakes
<1> HIDE DEF e3
<1>7. Takes(e4, 0)
  BY <1>2, <1>3, <1>6, OneTakes, NodeTakes
<1> HIDE DEF e4
<1>8. Takes(e5, 0)
  BY <1>2, <1>3, <1>7, OneTakes, NodeTakes
<1> HIDE DEF e5
<1>9. Takes(Operand(<<e5>>), 0)
  BY <1>8, OneTakes, OperandTakes
<1> QED
  BY <1>1, <1>9, OperandTakes DEF Argument, Literal, e1, e2, e3, e4, e5

(***************************************************************************)
(* The tests and loops of the rows.                                        *)
(***************************************************************************)
\* Lists, as several rows have them.
FieldList == Until({"}", "EOF"}, <<Name, Expect("("), Name, Expect(")"), Comma>>)
NameList == Until({"}", "EOF"}, <<Name, Comma>>)
SettingList == Until({")", "EOF"}, <<Name, Expect(":"), Literal, Comma>>)
ArgumentList == Until({")", "EOF"}, <<Literal, Comma>>)
Statements == Until({"}", "EOF"}, <<Statement, Comma>>)

LEMMA BodyFits ==
  LET row == <<Statement, Comma>>
  IN  Fits(0, row, 0, 0) /\ Sees(row)
<1> DEFINE row == <<Statement, Comma>>
           l == <<0, 0, 0>>
<1>1. /\ row = [k \in 1 .. 2 |-> row[k]] /\ l \in [1 .. 2 + 1 -> Int]
      /\ l[1] = 0 /\ l[2 + 1] = 0 /\ 2 \in Nat
  OBVIOUS
<1>2. \A k \in 1 .. 2 :
        Turns(row[k], l[k + 1] - l[k]) /\ (k > 1 => ~Blind(row[k])) /\ l[k] >= 0
  BY WordsTake, CommaTakes DEF Takes
<1>3. Sees(row)
  BY WordsTake DEF Takes, Sees
<1> HIDE DEF row, l
<1>4. IsSeq(row) /\ Len(row) = 2
  BY <1>1, TupleIsSeq
<1>5. Fits(0, row, 0, 0)
  BY <1>1, <1>2, <1>4 DEF Fits
<1> QED
  BY <1>3, <1>5 DEF row

LEMMA FieldFits ==
  LET row == <<Name, Expect("("), Name, Expect(")"), Comma>>
  IN  Fits(0, row, 0, 0) /\ Sees(row)
<1> DEFINE row == <<Name, Expect("("), Name, Expect(")"), Comma>>
           l == <<0, 0, 1, 1, 0, 0>>
<1>1. /\ row = [k \in 1 .. 5 |-> row[k]] /\ l \in [1 .. 5 + 1 -> Int]
      /\ l[1] = 0 /\ l[5 + 1] = 0 /\ 5 \in Nat
  OBVIOUS
<1>2. \A k \in 1 .. 5 :
        Turns(row[k], l[k + 1] - l[k]) /\ (k > 1 => ~Blind(row[k])) /\ l[k] >= 0
  BY WordsTake, CommaTakes DEF Takes
<1>3. Sees(row)
  BY WordsTake DEF Takes, Sees
<1> HIDE DEF row, l
<1>4. IsSeq(row) /\ Len(row) = 5
  BY <1>1, TupleIsSeq
<1>5. Fits(0, row, 0, 0)
  BY <1>1, <1>2, <1>4 DEF Fits
<1> QED
  BY <1>3, <1>5 DEF row

LEMMA NameFits ==
  LET row == <<Name, Comma>>
  IN  Fits(0, row, 0, 0) /\ Sees(row)
<1> DEFINE row == <<Name, Comma>>
           l == <<0, 0, 0>>
<1>1. /\ row = [k \in 1 .. 2 |-> row[k]] /\ l \in [1 .. 2 + 1 -> Int]
      /\ l[1] = 0 /\ l[2 + 1] = 0 /\ 2 \in Nat
  OBVIOUS
<1>2. \A k \in 1 .. 2 :
        Turns(row[k], l[k + 1] - l[k]) /\ (k > 1 => ~Blind(row[k])) /\ l[k] >= 0
  BY WordsTake, CommaTakes DEF Takes
<1>3. Sees(row)
  BY WordsTake DEF Takes, Sees
<1> HIDE DEF row, l
<1>4. IsSeq(row) /\ Len(row) = 2
  BY <1>1, TupleIsSeq
<1>5. Fits(0, row, 0, 0)
  BY <1>1, <1>2, <1>4 DEF Fits
<1> QED
  BY <1>3, <1>5 DEF row

LEMMA SettingFits ==
  LET row == <<Name, Expect(":"), Literal, Comma>>
  IN  Fits(0, row, 0, 0) /\ Sees(row)
<1> DEFINE row == <<Name, Expect(":"), Literal, Comma>>
           l == <<0, 0, 0, 0, 0>>
<1>1. /\ row = [k \in 1 .. 4 |-> row[k]] /\ l \in [1 .. 4 + 1 -> Int]
      /\ l[1] = 0 /\ l[4 + 1] = 0 /\ 4 \in Nat
  OBVIOUS
<1>2. \A k \in 1 .. 4 :
        Turns(row[k], l[k + 1] - l[k]) /\ (k > 1 => ~Blind(row[k])) /\ l[k] >= 0
  BY WordsTake, ValuesTake, CommaTakes DEF Takes
<1>3. Sees(row)
  BY WordsTake DEF Takes, Sees
<1> HIDE DEF row, l
<1>4. IsSeq(row) /\ Len(row) = 4
  BY <1>1, TupleIsSeq
<1>5. Fits(0, row, 0, 0)
  BY <1>1, <1>2, <1>4 DEF Fits
<1> QED
  BY <1>3, <1>5 DEF row

LEMMA ArgumentFits ==
  LET row == <<Literal, Comma>>
  IN  Fits(0, row, 0, 0) /\ Sees(row)
<1> DEFINE row == <<Literal, Comma>>
           l == <<0, 0, 0>>
<1>1. /\ row = [k \in 1 .. 2 |-> row[k]] /\ l \in [1 .. 2 + 1 -> Int]
      /\ l[1] = 0 /\ l[2 + 1] = 0 /\ 2 \in Nat
  OBVIOUS
<1>2. \A k \in 1 .. 2 :
        Turns(row[k], l[k + 1] - l[k]) /\ (k > 1 => ~Blind(row[k])) /\ l[k] >= 0
  BY WordsTake, ValuesTake, CommaTakes DEF Takes
<1>3. Sees(row)
  BY WordsTake, ValuesTake DEF Takes, Sees
<1> HIDE DEF row, l
<1>4. IsSeq(row) /\ Len(row) = 2
  BY <1>1, TupleIsSeq
<1>5. Fits(0, row, 0, 0)
  BY <1>1, <1>2, <1>4 DEF Fits
<1> QED
  BY <1>3, <1>5 DEF row

LEMMA ListsTake ==
  /\ Takes(Block, 0) /\ Takes(Statements, 0) /\ Takes(FieldList, 0)
  /\ Takes(NameList, 0) /\ Takes(SettingList, 0) /\ Takes(ArgumentList, 0)
<1>1. Takes(Block, 0) /\ Takes(Statements, 0)
  BY BodyFits, UntilTakes, Zenon DEF Block, Statements
<1>2. Takes(FieldList, 0)
  BY FieldFits, UntilTakes, Zenon DEF FieldList
<1>3. Takes(NameList, 0)
  BY NameFits, UntilTakes, Zenon DEF NameList
<1>4. Takes(SettingList, 0)
  BY SettingFits, UntilTakes, Zenon DEF SettingList
<1>5. Takes(ArgumentList, 0)
  BY ArgumentFits, UntilTakes, Zenon DEF ArgumentList
<1> QED
  BY <1>1, <1>2, <1>3, <1>4, <1>5

\* The parts that may be there or not.
Maybe(types, then) == When(types, then, <<>>)
TypeDetail == Maybe({"type"}, <<Skip, OpenCurly, Name, CloseCurly, Comma>>)
MsgDetail == Maybe({"msg"}, <<Skip, OpenCurly, Name, CloseCurly>>)
Receives == Maybe({"receive"}, <<Skip, OpenCurly, FieldList, CloseCurly, Comma>>)
Libs == Maybe({"lib"}, <<Skip, OpenCurly, NameList, CloseCurly, Comma>>)
SecondArgument == Maybe({","}, <<Skip, Argument>>)
Attribute == Maybe({"IDENT", "variable"}, <<Skip>>)
UnlessCurly == When({"}"}, <<>>, <<Literal>>)
UnlessRound == When({")"}, <<>>, <<Literal>>)
Returned == Maybe({"return"}, <<Skip, OpenCurly, UnlessCurly, CloseCurly>>)
Otherwise == Maybe({"False"}, <<Skip>> \o Braced(<<Block>>))

LEMMA MaybeTakes ==
  ASSUME NEW types, NoBracket(types), NEW then, Fits(0, then, 0, 0)
  PROVE  Takes(Maybe(types, then), 0)
<1>1. Fits(0, <<>>, 0, 0) /\ Sees(<<>>) /\ 0 \in Int
  BY FitsNone
<1> QED
  BY <1>1, WhenTakes, Zenon DEF Maybe, When

\* The tests are for words, not for brackets.
LEMMA TestsAreWords ==
  /\ NoBracket({"type"}) /\ NoBracket({"msg"}) /\ NoBracket({"receive"}) /\ NoBracket({"lib"})
  /\ NoBracket({","}) /\ NoBracket({"IDENT", "variable"}) /\ NoBracket({"return"})
  /\ NoBracket({"False"}) /\ NoBracket({"pass"}) /\ NoBracket({"def"}) /\ NoBracket({"array"})
  /\ NoBracket({"struct"})
BY DEF NoBracket, OpenTypes, CloseTypes

LEMMA TypeDetailFits ==
  LET row == <<Skip, OpenCurly, Name, CloseCurly, Comma>>
  IN  Fits(0, row, 0, 0)
<1> DEFINE row == <<Skip, OpenCurly, Name, CloseCurly, Comma>>
           l == <<0, 0, 1, 1, 0, 0>>
<1>1. /\ row = [k \in 1 .. 5 |-> row[k]] /\ l \in [1 .. 5 + 1 -> Int]
      /\ l[1] = 0 /\ l[5 + 1] = 0 /\ 5 \in Nat
  OBVIOUS
<1>2. \A k \in 1 .. 5 :
        Turns(row[k], l[k + 1] - l[k]) /\ (k > 1 => ~Blind(row[k])) /\ l[k] >= 0
  BY WordsTake, SkipTurns, CommaTakes DEF Takes
<1> HIDE DEF row, l
<1>4. IsSeq(row) /\ Len(row) = 5
  BY <1>1, TupleIsSeq
<1>5. Fits(0, row, 0, 0)
  BY <1>1, <1>2, <1>4 DEF Fits
<1> QED
  BY <1>5 DEF row

LEMMA MsgDetailFits ==
  LET row == <<Skip, OpenCurly, Name, CloseCurly>>
  IN  Fits(0, row, 0, 0)
<1> DEFINE row == <<Skip, OpenCurly, Name, CloseCurly>>
           l == <<0, 0, 1, 1, 0>>
<1>1. /\ row = [k \in 1 .. 4 |-> row[k]] /\ l \in [1 .. 4 + 1 -> Int]
      /\ l[1] = 0 /\ l[4 + 1] = 0 /\ 4 \in Nat
  OBVIOUS
<1>2. \A k \in 1 .. 4 :
        Turns(row[k], l[k + 1] - l[k]) /\ (k > 1 => ~Blind(row[k])) /\ l[k] >= 0
  BY WordsTake, SkipTurns DEF Takes
<1> HIDE DEF row, l
<1>4. IsSeq(row) /\ Len(row) = 4
  BY <1>1, TupleIsSeq
<1>5. Fits(0, row, 0, 0)
  BY <1>1, <1>2, <1>4 DEF Fits
<1> QED
  BY <1>5 DEF row

LEMMA ReceivesFits ==
  LET row == <<Skip, OpenCurly, FieldList, CloseCurly, Comma>>
  IN  Fits(0, row, 0, 0)
<1> DEFINE row == <<Skip, OpenCurly, FieldList, CloseCurly, Comma>>
           l == <<0, 0, 1, 1, 0, 0>>
<1>1. /\ row = [k \in 1 .. 5 |-> row[k]] /\ l \in [1 .. 5 + 1 -> Int]
      /\ l[1] = 0 /\ l[5 + 1] = 0 /\ 5 \in Nat
  OBVIOUS
<1>2. \A k \in 1 .. 5 :
        Turns(row[k], l[k + 1] - l[k]) /\ (k > 1 => ~Blind(row[k])) /\ l[k] >= 0
  BY WordsTake, SkipTurns, ListsTake, CommaTakes DEF Takes
<1> HIDE DEF row, l
<1>4. IsSeq(row) /\ Len(row) = 5
  BY <1>1, TupleIsSeq
<1>5. Fits(0, row, 0, 0)
  BY <1>1, <1>2, <1>4 DEF Fits
<1> QED
  BY <1>5 DEF row

LEMMA LibsFits ==
  LET row == <<Skip, OpenCurly, NameList, CloseCurly, Comma>>
  IN  Fits(0, row, 0, 0)
<1> DEFINE row == <<Skip, OpenCurly, NameList, CloseCurly, Comma>>
           l == <<0, 0, 1, 1, 0, 0>>
<1>1. /\ row = [k \in 1 .. 5 |-> row[k]] /\ l \in [1 .. 5 + 1 -> Int]
      /\ l[1] = 0 /\ l[5 + 1] = 0 /\ 5 \in Nat
  OBVIOUS
<1>2. \A k \in 1 .. 5 :
        Turns(row[k], l[k + 1] - l[k]) /\ (k > 1 => ~Blind(row[k])) /\ l[k] >= 0
  BY WordsTake, SkipTurns, ListsTake, CommaTakes DEF Takes
<1> HIDE DEF row, l
<1>4. IsSeq(row) /\ Len(row) = 5
  BY <1>1, TupleIsSeq
<1>5. Fits(0, row, 0, 0)
  BY <1>1, <1>2, <1>4 DEF Fits
<1> QED
  BY <1>5 DEF row

LEMMA SecondFits ==
  LET row == <<Skip, Argument>>
  IN  Fits(0, row, 0, 0)
<1> DEFINE row == <<Skip, Argument>>
           l == <<0, 0, 0>>
<1>1. /\ row = [k \in 1 .. 2 |-> row[k]] /\ l \in [1 .. 2 + 1 -> Int]
      /\ l[1] = 0 /\ l[2 + 1] = 0 /\ 2 \in Nat
  OBVIOUS
<1>2. \A k \in 1 .. 2 :
        Turns(row[k], l[k + 1] - l[k]) /\ (k > 1 => ~Blind(row[k])) /\ l[k] >= 0
  BY WordsTake, SkipTurns, ValuesTake DEF Takes
<1> HIDE DEF row, l
<1>4. IsSeq(row) /\ Len(row) = 2
  BY <1>1, TupleIsSeq
<1>5. Fits(0, row, 0, 0)
  BY <1>1, <1>2, <1>4 DEF Fits
<1> QED
  BY <1>5 DEF row

LEMMA SkippedFits ==
  LET row == <<Skip>>
  IN  Fits(0, row, 0, 0)
<1> DEFINE row == <<Skip>>
           l == <<0, 0>>
<1>1. /\ row = [k \in 1 .. 1 |-> row[k]] /\ l \in [1 .. 1 + 1 -> Int]
      /\ l[1] = 0 /\ l[1 + 1] = 0 /\ 1 \in Nat
  OBVIOUS
<1>2. \A k \in 1 .. 1 :
        Turns(row[k], l[k + 1] - l[k]) /\ (k > 1 => ~Blind(row[k])) /\ l[k] >= 0
  BY WordsTake, SkipTurns DEF Takes
<1> HIDE DEF row, l
<1>4. IsSeq(row) /\ Len(row) = 1
  BY <1>1, TupleIsSeq
<1>5. Fits(0, row, 0, 0)
  BY <1>1, <1>2, <1>4 DEF Fits
<1> QED
  BY <1>5 DEF row

LEMMA UnlessTakes == Takes(UnlessCurly, 0) /\ Takes(UnlessRound, 0)
<1>1. Fits(0, <<>>, 0, 0) /\ Sees(<<>>) /\ 0 \in Int
  BY FitsNone
<1>2. Fits(0, <<Literal>>, 0, 0) /\ Sees(<<Literal>>)
  BY ValuesTake, OneTakes
<1> QED
  BY <1>1, <1>2, WhenTakes, Zenon DEF UnlessCurly, UnlessRound, When

LEMMA ReturnedFits ==
  LET row == <<Skip, OpenCurly, UnlessCurly, CloseCurly>>
  IN  Fits(0, row, 0, 0)
<1> DEFINE row == <<Skip, OpenCurly, UnlessCurly, CloseCurly>>
           l == <<0, 0, 1, 1, 0>>
<1>1. /\ row = [k \in 1 .. 4 |-> row[k]] /\ l \in [1 .. 4 + 1 -> Int]
      /\ l[1] = 0 /\ l[4 + 1] = 0 /\ 4 \in Nat
  OBVIOUS
<1>2. \A k \in 1 .. 4 :
        Turns(row[k], l[k + 1] - l[k]) /\ (k > 1 => ~Blind(row[k])) /\ l[k] >= 0
  BY WordsTake, SkipTurns, UnlessTakes DEF Takes
<1> HIDE DEF row, l
<1>4. IsSeq(row) /\ Len(row) = 4
  BY <1>1, TupleIsSeq
<1>5. Fits(0, row, 0, 0)
  BY <1>1, <1>2, <1>4 DEF Fits
<1> QED
  BY <1>5 DEF row

\* A block in braces.
LEMMA BracedFits ==
  /\ Fits(0, Braced(<<Block>>), 0, 0) /\ Sees(Braced(<<Block>>))
  /\ Fits(0, <<Skip>> \o Braced(<<Block>>), 0, 0)
<1> DEFINE b == <<Block>>
           c == <<CloseCurly>>
           o == <<OpenCurly>>
<1>1. Fits(0, o, 0, 1) /\ Sees(o) /\ o # <<>> /\ Len(o) = 1 /\ o[1] = OpenCurly
  BY WordsTake, OneTakes
<1>2. Fits(0, b, 0, 0) /\ Sees(b)
  BY ListsTake, OneTakes
<1>3. Fits(0, c, 0, -1) /\ Sees(c)
  BY WordsTake, OneTakes
<1> HIDE DEF b, c, o
<1>4. Fits(0, b, 1, 1) /\ Fits(0, c, 1, 0)
  <2>1. 0 <= 0 + 1 /\ 1 = 0 + 1 /\ 0 = -1 + 1 /\ 0 \in Int /\ 1 \in Int
    OBVIOUS
  <2> QED
    BY <1>2, <1>3, <2>1, FitsShift
<1>5. Fits(0, o \o b, 0, 1)
  BY <1>1, <1>2, <1>4, FitsConcat
<1>6. Fits(0, (o \o b) \o c, 0, 0)
  BY <1>3, <1>4, <1>5, FitsConcat
<1>7. Sees((o \o b) \o c)
  <2>1. IsSeq(o) /\ IsSeq(b) /\ IsSeq(c) /\ IsSeq(o \o b)
    BY <1>1, <1>2, <1>3, <1>5 DEF Fits
  <2>2. 1 \in 1 .. Len(o) /\ 1 \in 1 .. Len(o \o b)
    BY <1>1, <2>1, ConcatIsSeq, LenIsNat
  <2>3. (o \o b)[1] = o[1] /\ ((o \o b) \o c)[1] = (o \o b)[1]
    BY <2>1, <2>2, ConcatIsSeq
  <2> QED
    BY <1>1, <2>3, WordsTake DEF Sees, Takes
<1>8. Braced(<<Block>>) = (o \o b) \o c
  BY Zenon DEF Braced, b, c, o, OpenCurly, CloseCurly
<1> QED
  BY <1>6, <1>7, <1>8, SkipFits

LEMMA MaybesTake ==
  /\ Takes(TypeDetail, 0) /\ Takes(MsgDetail, 0) /\ Takes(Receives, 0) /\ Takes(Libs, 0)
  /\ Takes(SecondArgument, 0) /\ Takes(Attribute, 0) /\ Takes(Returned, 0) /\ Takes(Otherwise, 0)
<1>1. Takes(TypeDetail, 0)
  BY TypeDetailFits, TestsAreWords, MaybeTakes, Zenon DEF TypeDetail
<1>2. Takes(MsgDetail, 0)
  BY MsgDetailFits, TestsAreWords, MaybeTakes, Zenon DEF MsgDetail
<1>3. Takes(Receives, 0)
  BY ReceivesFits, TestsAreWords, MaybeTakes, Zenon DEF Receives
<1>4. Takes(Libs, 0)
  BY LibsFits, TestsAreWords, MaybeTakes, Zenon DEF Libs
<1>5. Takes(SecondArgument, 0)
  BY SecondFits, TestsAreWords, MaybeTakes, Zenon DEF SecondArgument
<1>6. Takes(Attribute, 0)
  BY SkippedFits, TestsAreWords, MaybeTakes, Zenon DEF Attribute
<1>7. Takes(Returned, 0)
  BY ReturnedFits, TestsAreWords, MaybeTakes, Zenon DEF Returned
<1>8. Takes(Otherwise, 0)
  BY BracedFits, TestsAreWords, MaybeTakes, Zenon DEF Otherwise
<1> QED
  BY <1>1, <1>2, <1>3, <1>4, <1>5, <1>6, <1>7, <1>8

\* What the rows end in.
LEMMA CloseFits ==
  /\ Fits(0, Close(2), 1, -1) /\ Sees(Close(2))
  /\ Fits(0, Close(3), 2, -1) /\ Sees(Close(3))
<1> DEFINE r == Expect(")")
           c == CloseCurly
           s == Expect("]")
           u == <<r, c, s>>
           k2 == SubSeq(u, 2, 3)
           k3 == SubSeq(u, 1, 3)
<1>1. Takes(r, -1) /\ Takes(c, -1) /\ Takes(s, -1)
  BY WordsTake
<1>2. Close(2) = k2 /\ Close(3) = k3
  <2>1. 4 - 2 = 2 /\ 4 - 3 = 1
    OBVIOUS
  <2> QED
    BY <2>1, Zenon DEF Close, Closers, CloseCurly
<1> HIDE DEF r, c, s
<1>3. /\ Len(k2) = 2 /\ k2[1] = c /\ k2[2] = s
      /\ Len(k3) = 3 /\ k3[1] = r /\ k3[2] = c /\ k3[3] = s
      /\ k2 \in Seq({r, c, s}) /\ k3 \in Seq({r, c, s})
  <2>1. u \in Seq({r, c, s}) /\ Len(u) = 3 /\ u[1] = r /\ u[2] = c /\ u[3] = s
    OBVIOUS
  <2> HIDE DEF u
  <2>2. /\ k2 \in Seq({r, c, s}) /\ Len(k2) = 2
        /\ k3 \in Seq({r, c, s}) /\ Len(k3) = 3
        /\ \A i \in 1 .. 2 : k2[i] = u[2 + i - 1]
        /\ \A i \in 1 .. 3 : k3[i] = u[1 + i - 1]
    BY <2>1, SubSeqProperties
  <2> HIDE DEF k2, k3
  <2> QED
    BY <2>1, <2>2
<1> HIDE DEF u, k2, k3
<1> DEFINE l2 == <<1, 0, -1>>
           l3 == <<2, 1, 0, -1>>
<1>4. Fits(0, k2, 1, -1)
  <2>1. l2 \in [1 .. 2 + 1 -> Int] /\ l2[1] = 1 /\ l2[2] = 0 /\ l2[2 + 1] = -1
    OBVIOUS
  <2>2. \A k \in 1 .. 2 : Turns(k2[k], l2[k + 1] - l2[k]) /\ ~Blind(k2[k]) /\ l2[k] >= 0
    BY <1>1, <1>3 DEF Takes
  <2> HIDE DEF l2
  <2> QED
    BY <1>3, <2>1, <2>2 DEF Fits, IsSeq
<1>5. Fits(0, k3, 2, -1)
  <2>1. l3 \in [1 .. 3 + 1 -> Int] /\ l3[1] = 2 /\ l3[3 + 1] = -1
    OBVIOUS
  <2>2. \A k \in 1 .. 3 : Turns(k3[k], l3[k + 1] - l3[k]) /\ ~Blind(k3[k]) /\ l3[k] >= 0
    BY <1>1, <1>3 DEF Takes
  <2> HIDE DEF l3
  <2> QED
    BY <1>3, <2>1, <2>2 DEF Fits, IsSeq
<1>6. Sees(k2) /\ Sees(k3)
  BY <1>1, <1>3 DEF Sees, Takes
<1> QED
  BY <1>2, <1>4, <1>5, <1>6

\* What a declaration and a mutation have in them.
Object == When2({"IDENT"}, {"("}, <<Node("StructInstance")>>, <<Literal>>)
TypedValue == When({"Array_"}, <<Name, Expect("("), Name, Expect(":"), Leaf>>,
                   <<Name, Expect("("), Name, Expect(":"), Object>>)
Declared == When({"struct"}, <<Node("StructDef")>>, <<Name, OpenCurly, TypedValue>> \o Close(3))
Stored == When({"array"}, <<Node("ArrayStore")>>,
               <<Attribute, OpenCurly, Name, Expect("("), Name, Expect(":"), Literal>> \o Close(3))

LEMMA ObjectTakes == Takes(Object, 0)
<1>1. Fits(0, <<Node("StructInstance")>>, 0, 0) /\ Sees(<<Node("StructInstance")>>)
  BY WordsTake, OneTakes
<1>2. Fits(0, <<Literal>>, 0, 0) /\ Sees(<<Literal>>) /\ 0 \in Int
  BY ValuesTake, OneTakes
<1> QED
  BY <1>1, <1>2, WhenTakes, Zenon DEF Object

LEMMA ElementFits ==
  LET row == <<Name, Expect("("), Name, Expect(":"), Leaf>>
  IN  Fits(0, row, 0, 1) /\ Sees(row)
<1> DEFINE row == <<Name, Expect("("), Name, Expect(":"), Leaf>>
           l == <<0, 0, 1, 1, 1, 1>>
<1>1. /\ row = [k \in 1 .. 5 |-> row[k]] /\ l \in [1 .. 5 + 1 -> Int]
      /\ l[1] = 0 /\ l[5 + 1] = 1 /\ 5 \in Nat
  OBVIOUS
<1>2. \A k \in 1 .. 5 :
        Turns(row[k], l[k + 1] - l[k]) /\ (k > 1 => ~Blind(row[k])) /\ l[k] >= 0
  BY WordsTake DEF Takes
<1>3. Sees(row)
  BY WordsTake DEF Takes, Sees
<1> HIDE DEF row, l
<1>4. IsSeq(row) /\ Len(row) = 5
  BY <1>1, TupleIsSeq
<1>5. Fits(0, row, 0, 1)
  BY <1>1, <1>2, <1>4 DEF Fits
<1> QED
  BY <1>3, <1>5 DEF row

LEMMA ObjectFits ==
  LET row == <<Name, Expect("("), Name, Expect(":"), Object>>
  IN  Fits(0, row, 0, 1) /\ Sees(row)
<1> DEFINE row == <<Name, Expect("("), Name, Expect(":"), Object>>
           l == <<0, 0, 1, 1, 1, 1>>
<1>1. /\ row = [k \in 1 .. 5 |-> row[k]] /\ l \in [1 .. 5 + 1 -> Int]
      /\ l[1] = 0 /\ l[5 + 1] = 1 /\ 5 \in Nat
  OBVIOUS
<1>2. \A k \in 1 .. 5 :
        Turns(row[k], l[k + 1] - l[k]) /\ (k > 1 => ~Blind(row[k])) /\ l[k] >= 0
  BY WordsTake, ObjectTakes DEF Takes
<1>3. Sees(row)
  BY WordsTake DEF Takes, Sees
<1> HIDE DEF row, l
<1>4. IsSeq(row) /\ Len(row) = 5
  BY <1>1, TupleIsSeq
<1>5. Fits(0, row, 0, 1)
  BY <1>1, <1>2, <1>4 DEF Fits
<1> QED
  BY <1>3, <1>5 DEF row

LEMMA TypedTakes == Takes(TypedValue, 1)
<1>1. 1 \in Int
  OBVIOUS
<1> QED
  BY <1>1, ElementFits, ObjectFits, WhenTakes, Zenon DEF TypedValue, When

LEMMA DeclaredFits ==
  LET row == <<Name, OpenCurly, TypedValue>>
  IN  Fits(0, row, 0, 2) /\ Sees(row)
<1> DEFINE row == <<Name, OpenCurly, TypedValue>>
           l == <<0, 0, 1, 2>>
<1>1. /\ row = [k \in 1 .. 3 |-> row[k]] /\ l \in [1 .. 3 + 1 -> Int]
      /\ l[1] = 0 /\ l[3 + 1] = 2 /\ 3 \in Nat
  OBVIOUS
<1>2. \A k \in 1 .. 3 :
        Turns(row[k], l[k + 1] - l[k]) /\ (k > 1 => ~Blind(row[k])) /\ l[k] >= 0
  BY WordsTake, TypedTakes DEF Takes
<1>3. Sees(row)
  BY WordsTake DEF Takes, Sees
<1> HIDE DEF row, l
<1>4. IsSeq(row) /\ Len(row) = 3
  BY <1>1, TupleIsSeq
<1>5. Fits(0, row, 0, 2)
  BY <1>1, <1>2, <1>4 DEF Fits
<1> QED
  BY <1>3, <1>5 DEF row

LEMMA StoredFits ==
  LET row == <<Attribute, OpenCurly, Name, Expect("("), Name, Expect(":"), Literal>>
  IN  Fits(0, row, 0, 2) /\ Sees(row)
<1> DEFINE row == <<Attribute, OpenCurly, Name, Expect("("), Name, Expect(":"), Literal>>
           l == <<0, 0, 1, 1, 2, 2, 2, 2>>
<1>1. /\ row = [k \in 1 .. 7 |-> row[k]] /\ l \in [1 .. 7 + 1 -> Int]
      /\ l[1] = 0 /\ l[7 + 1] = 2 /\ 7 \in Nat
  OBVIOUS
<1>2. \A k \in 1 .. 7 :
        Turns(row[k], l[k + 1] - l[k]) /\ (k > 1 => ~Blind(row[k])) /\ l[k] >= 0
  BY WordsTake, MaybesTake, ValuesTake DEF Takes
<1>3. Sees(row)
  BY WordsTake, MaybesTake DEF Takes, Sees
<1> HIDE DEF row, l
<1>4. IsSeq(row) /\ Len(row) = 7
  BY <1>1, TupleIsSeq
<1>5. Fits(0, row, 0, 2)
  BY <1>1, <1>2, <1>4 DEF Fits
<1> QED
  BY <1>3, <1>5 DEF row

\* A row before the brackets that close it.
LEMMA WithClose ==
  ASSUME NEW row
  PROVE  /\ Fits(0, row, 0, 1) => Fits(0, row \o Close(2), 0, -1)
         /\ Fits(0, row, 0, 2) => Fits(0, row \o Close(3), 0, -1)
         /\ Item(row, 1) => Item(row \o Close(2), -1)
<1>1. 0 \in Int
  OBVIOUS
<1> QED
  BY <1>1, CloseFits, FitsConcat, ItemConcat, Zenon

LEMMA RowsJoin ==
  ASSUME NEW r1, NEW r2, NEW v, NEW w, Fits(0, r1, 0, v), Fits(0, r2, v, w), r1 # <<>>, Sees(r1), Sees(r2)
  PROVE  Fits(0, r1 \o r2, 0, w) /\ Sees(r1 \o r2) /\ r1 \o r2 # <<>>
<1>1. IsSeq(r1) /\ IsSeq(r2)
  BY DEF Fits
<1>2. 1 \in 1 .. Len(r1)
  BY <1>1, EmptySeq, LenIsNat DEF IsSeq
<1>3. (r1 \o r2)[1] = r1[1] /\ r1 \o r2 # <<>>
  BY <1>1, <1>2, ConcatIsSeq, HeadOfConcat
<1>4. Fits(0, r1 \o r2, 0, w)
  BY FitsConcat
<1> QED
  BY <1>3, <1>4 DEF Sees

LEMMA KindsTurn ==
  /\ "StructDef" \in Inner /\ NodeTurn("StructDef") = -1
  /\ "ArrayStore" \in Inner /\ NodeTurn("ArrayStore") = -1
BY DEF Inner, NodeTurn, Closing

LEMMA StoresTake == Takes(Declared, -1) /\ Takes(Stored, -1)
<1> DEFINE r1 == <<Name, OpenCurly, TypedValue>>
           r2 == <<Attribute, OpenCurly, Name, Expect("("), Name, Expect(":"), Literal>>
<1>1. Fits(0, r1, 0, 2) /\ Sees(r1) /\ Fits(0, r2, 0, 2) /\ Sees(r2)
  BY DeclaredFits, StoredFits, Zenon
<1>2. r1 # <<>> /\ r2 # <<>>
  OBVIOUS
<1>3. Takes(When({"struct"}, <<Node("StructDef")>>, r1 \o Close(3)), -1)
  <2> HIDE DEF r1
  <2>1. Fits(0, r1 \o Close(3), 0, -1) /\ Sees(r1 \o Close(3))
    BY <1>1, <1>2, RowsJoin, CloseFits
  <2> QED
    BY <2>1, KindsTurn, TestsAreWords, NodeTakes, Zenon
<1>4. Takes(When({"array"}, <<Node("ArrayStore")>>, r2 \o Close(3)), -1)
  <2> HIDE DEF r2
  <2>1. Fits(0, r2 \o Close(3), 0, -1) /\ Sees(r2 \o Close(3))
    BY <1>1, <1>2, RowsJoin, CloseFits
  <2> QED
    BY <2>1, KindsTurn, TestsAreWords, NodeTakes, Zenon
<1> QED
  BY <1>3, <1>4, Zenon DEF Declared, Stored

\* What Error has in it.
Handled == When({"pass"}, <<Skip>>, <<TypeDetail, MsgDetail, Block>>)
HandledPart == <<CommaMark, Expect("Ok"), Expect("["), Block, Expect("]"), CommaMark, Expect("Err"),
                 Expect("["), Handled, Expect("]")>>
Attempt == When({"def"}, <<Skip, OpenCurly, Name, CloseCurly>>,
                <<Expect("try")>> \o Braced(<<Block>>) \o HandledPart)

LEMMA DetailsFit ==
  LET row == <<TypeDetail, MsgDetail, Block>>
  IN  Fits(0, row, 0, 0) /\ Sees(row)
<1> DEFINE row == <<TypeDetail, MsgDetail, Block>>
           l == <<0, 0, 0, 0>>
<1>1. /\ row = [k \in 1 .. 3 |-> row[k]] /\ l \in [1 .. 3 + 1 -> Int]
      /\ l[1] = 0 /\ l[3 + 1] = 0 /\ 3 \in Nat
  OBVIOUS
<1>2. \A k \in 1 .. 3 :
        Turns(row[k], l[k + 1] - l[k]) /\ (k > 1 => ~Blind(row[k])) /\ l[k] >= 0
  BY WordsTake, MaybesTake, ListsTake DEF Takes
<1>3. Sees(row)
  BY WordsTake, MaybesTake DEF Takes, Sees
<1> HIDE DEF row, l
<1>4. IsSeq(row) /\ Len(row) = 3
  BY <1>1, TupleIsSeq
<1>5. Fits(0, row, 0, 0)
  BY <1>1, <1>2, <1>4 DEF Fits
<1> QED
  BY <1>3, <1>5 DEF row

LEMMA HandledTakes == Takes(Handled, 0)
<1>1. 0 \in Int
  OBVIOUS
<1> QED
  BY <1>1, SkippedFits, DetailsFit, TestsAreWords, WhenTakes, Zenon DEF Handled, When

LEMMA HandledFits ==
  LET row == <<CommaMark, Expect("Ok"), Expect("["), Block, Expect("]"), CommaMark,
               Expect("Err"), Expect("["), Handled, Expect("]")>>
  IN  Fits(0, row, 0, 0) /\ Sees(row)
<1> DEFINE row == <<CommaMark, Expect("Ok"), Expect("["), Block, Expect("]"), CommaMark,
                    Expect("Err"), Expect("["), Handled, Expect("]")>>
           l == <<0, 0, 0, 1, 1, 0, 0, 0, 1, 1, 0>>
<1>1. /\ row = [k \in 1 .. 10 |-> row[k]] /\ l \in [1 .. 10 + 1 -> Int]
      /\ l[1] = 0 /\ l[10 + 1] = 0 /\ 10 \in Nat
  OBVIOUS
<1>2. \A k \in 1 .. 10 :
        Turns(row[k], l[k + 1] - l[k]) /\ (k > 1 => ~Blind(row[k])) /\ l[k] >= 0
  BY WordsTake, ListsTake, HandledTakes DEF Takes
<1>3. Sees(row)
  BY WordsTake DEF Takes, Sees
<1> HIDE DEF row, l
<1>4. IsSeq(row) /\ Len(row) = 10
  BY <1>1, TupleIsSeq
<1>5. Fits(0, row, 0, 0)
  BY <1>1, <1>2, <1>4 DEF Fits
<1> QED
  BY <1>3, <1>5 DEF row

LEMMA AttemptTakes == Takes(Attempt, 0)
<1> DEFINE t == <<Expect("try")>>
           b == Braced(<<Block>>)
<1>1. Fits(0, t, 0, 0) /\ Sees(t) /\ t # <<>>
  BY WordsTake, OneTakes
<1>2. Fits(0, b, 0, 0) /\ Sees(b)
  BY BracedFits
<1>3. Fits(0, HandledPart, 0, 0) /\ Sees(HandledPart)
  BY HandledFits, Zenon DEF HandledPart
<1> HIDE DEF t, b
<1>4. Fits(0, t \o b, 0, 0) /\ Sees(t \o b) /\ t \o b # <<>>
  BY <1>1, <1>2, RowsJoin
<1>5. Fits(0, (t \o b) \o HandledPart, 0, 0) /\ Sees((t \o b) \o HandledPart)
  BY <1>3, <1>4, RowsJoin
<1>6. 0 \in Int
  OBVIOUS
<1> QED
  BY <1>5, <1>6, MsgDetailFits, TestsAreWords, WhenTakes, Zenon DEF Attempt, When, t, b

(***************************************************************************)
(* The parse functions, one by one.                                        *)
(***************************************************************************)

LEMMA VariableItem ==
  LET row == <<Skip, Expect("["), Declared>>
  IN  Item(row, -1)
<1> DEFINE row == <<Skip, Expect("["), Declared>>
           l == <<0, 0, 0, -1>>
<1>1. /\ row = [k \in 1 .. 3 |-> row[k]] /\ l \in [1 .. 3 + 1 -> Int]
      /\ l[3] = 0 /\ l[3 + 1] = -1 /\ row[1] = Skip /\ row[2] = Expect("[") /\ 3 \in Nat /\ 3 >= 3
  OBVIOUS
<1>2. \A k \in 3 .. 3 : Turns(row[k], l[k + 1] - l[k]) /\ ~Blind(row[k]) /\ l[k] >= 0
  BY WordsTake, StoresTake DEF Takes
<1>3. Opening(row[2])
  BY <1>1, OpeningAre
<1> HIDE DEF row, l
<1>4. Item(row, -1)
  BY <1>1, <1>2, <1>3, TupleIsItem, Zenon
<1> QED
  BY <1>4 DEF row

LEMMA MutationItem ==
  LET row == <<Skip, Expect("["), Stored>>
  IN  Item(row, -1)
<1> DEFINE row == <<Skip, Expect("["), Stored>>
           l == <<0, 0, 0, -1>>
<1>1. /\ row = [k \in 1 .. 3 |-> row[k]] /\ l \in [1 .. 3 + 1 -> Int]
      /\ l[3] = 0 /\ l[3 + 1] = -1 /\ row[1] = Skip /\ row[2] = Expect("[") /\ 3 \in Nat /\ 3 >= 3
  OBVIOUS
<1>2. \A k \in 3 .. 3 : Turns(row[k], l[k + 1] - l[k]) /\ ~Blind(row[k]) /\ l[k] >= 0
  BY WordsTake, StoresTake DEF Takes
<1>3. Opening(row[2])
  BY <1>1, OpeningAre
<1> HIDE DEF row, l
<1>4. Item(row, -1)
  BY <1>1, <1>2, <1>3, TupleIsItem, Zenon
<1> QED
  BY <1>4 DEF row

LEMMA IfHead ==
  LET row == <<Skip, Expect("["), Expect("check"), OpenCurly, Node("Condition"), CloseCurly,
               CommaMark, Expect("True")>>
  IN  Item(row, 0)
<1> DEFINE row == <<Skip, Expect("["), Expect("check"), OpenCurly, Node("Condition"),
                    CloseCurly, CommaMark, Expect("True")>>
           l == <<0, 0, 0, 0, 1, 1, 0, 0, 0>>
<1>1. /\ row = [k \in 1 .. 8 |-> row[k]] /\ l \in [1 .. 8 + 1 -> Int]
      /\ l[3] = 0 /\ l[8 + 1] = 0 /\ row[1] = Skip /\ row[2] = Expect("[") /\ 8 \in Nat /\ 8 >= 3
  OBVIOUS
<1>2. \A k \in 3 .. 8 : Turns(row[k], l[k + 1] - l[k]) /\ ~Blind(row[k]) /\ l[k] >= 0
  BY WordsTake DEF Takes
<1>3. Opening(row[2])
  BY <1>1, OpeningAre
<1> HIDE DEF row, l
<1>4. Item(row, 0)
  BY <1>1, <1>2, <1>3, TupleIsItem, Zenon
<1> QED
  BY <1>4 DEF row

LEMMA IfEnd ==
  LET row == <<Comma, Otherwise, Expect("]")>>
  IN  Fits(0, row, 0, -1) /\ Sees(row)
<1> DEFINE row == <<Comma, Otherwise, Expect("]")>>
           l == <<0, 0, 0, -1>>
<1>1. /\ row = [k \in 1 .. 3 |-> row[k]] /\ l \in [1 .. 3 + 1 -> Int]
      /\ l[1] = 0 /\ l[3 + 1] = -1 /\ 3 \in Nat
  OBVIOUS
<1>2. \A k \in 1 .. 3 :
        Turns(row[k], l[k + 1] - l[k]) /\ (k > 1 => ~Blind(row[k])) /\ l[k] >= 0
  BY WordsTake, CommaTakes, MaybesTake DEF Takes
<1>3. Sees(row)
  BY WordsTake, CommaTakes DEF Takes, Sees
<1> HIDE DEF row, l
<1>4. IsSeq(row) /\ Len(row) = 3
  BY <1>1, TupleIsSeq
<1>5. Fits(0, row, 0, -1)
  BY <1>1, <1>2, <1>4 DEF Fits
<1> QED
  BY <1>3, <1>5 DEF row

LEMMA LoopHead ==
  LET row == <<Skip, Expect("["), Expect("check"), OpenCurly, Node("Condition"), CloseCurly,
               CommaMark, Expect("for")>>
  IN  Item(row, 0)
<1> DEFINE row == <<Skip, Expect("["), Expect("check"), OpenCurly, Node("Condition"),
                    CloseCurly, CommaMark, Expect("for")>>
           l == <<0, 0, 0, 0, 1, 1, 0, 0, 0>>
<1>1. /\ row = [k \in 1 .. 8 |-> row[k]] /\ l \in [1 .. 8 + 1 -> Int]
      /\ l[3] = 0 /\ l[8 + 1] = 0 /\ row[1] = Skip /\ row[2] = Expect("[") /\ 8 \in Nat /\ 8 >= 3
  OBVIOUS
<1>2. \A k \in 3 .. 8 : Turns(row[k], l[k + 1] - l[k]) /\ ~Blind(row[k]) /\ l[k] >= 0
  BY WordsTake DEF Takes
<1>3. Opening(row[2])
  BY <1>1, OpeningAre
<1> HIDE DEF row, l
<1>4. Item(row, 0)
  BY <1>1, <1>2, <1>3, TupleIsItem, Zenon
<1> QED
  BY <1>4 DEF row

LEMMA FuncHead ==
  LET row == <<Skip, Expect("["), Name, OpenCurly, Receives, Statements, Returned>>
  IN  Item(row, 1)
<1> DEFINE row == <<Skip, Expect("["), Name, OpenCurly, Receives, Statements, Returned>>
           l == <<0, 0, 0, 0, 1, 1, 1, 1>>
<1>1. /\ row = [k \in 1 .. 7 |-> row[k]] /\ l \in [1 .. 7 + 1 -> Int]
      /\ l[3] = 0 /\ l[7 + 1] = 1 /\ row[1] = Skip /\ row[2] = Expect("[") /\ 7 \in Nat /\ 7 >= 3
  OBVIOUS
<1>2. \A k \in 3 .. 7 : Turns(row[k], l[k + 1] - l[k]) /\ ~Blind(row[k]) /\ l[k] >= 0
  BY WordsTake, MaybesTake, ListsTake DEF Takes
<1>3. Opening(row[2])
  BY <1>1, OpeningAre
<1> HIDE DEF row, l
<1>4. Item(row, 1)
  BY <1>1, <1>2, <1>3, TupleIsItem, Zenon
<1> QED
  BY <1>4 DEF row

LEMMA ErrorItem ==
  LET row == <<Skip, Expect("["), Attempt, Expect("]")>>
  IN  Item(row, -1)
<1> DEFINE row == <<Skip, Expect("["), Attempt, Expect("]")>>
           l == <<0, 0, 0, 0, -1>>
<1>1. /\ row = [k \in 1 .. 4 |-> row[k]] /\ l \in [1 .. 4 + 1 -> Int]
      /\ l[3] = 0 /\ l[4 + 1] = -1 /\ row[1] = Skip /\ row[2] = Expect("[") /\ 4 \in Nat /\ 4 >= 3
  OBVIOUS
<1>2. \A k \in 3 .. 4 : Turns(row[k], l[k + 1] - l[k]) /\ ~Blind(row[k]) /\ l[k] >= 0
  BY WordsTake, AttemptTakes DEF Takes
<1>3. Opening(row[2])
  BY <1>1, OpeningAre
<1> HIDE DEF row, l
<1>4. Item(row, -1)
  BY <1>1, <1>2, <1>3, TupleIsItem, Zenon
<1> QED
  BY <1>4 DEF row

LEMMA FatalItem ==
  LET row == <<Skip, Expect("["), TypeDetail, MsgDetail, Expect("]")>>
  IN  Item(row, -1)
<1> DEFINE row == <<Skip, Expect("["), TypeDetail, MsgDetail, Expect("]")>>
           l == <<0, 0, 0, 0, 0, -1>>
<1>1. /\ row = [k \in 1 .. 5 |-> row[k]] /\ l \in [1 .. 5 + 1 -> Int]
      /\ l[3] = 0 /\ l[5 + 1] = -1 /\ row[1] = Skip /\ row[2] = Expect("[") /\ 5 \in Nat /\ 5 >= 3
  OBVIOUS
<1>2. \A k \in 3 .. 5 : Turns(row[k], l[k + 1] - l[k]) /\ ~Blind(row[k]) /\ l[k] >= 0
  BY WordsTake, MaybesTake DEF Takes
<1>3. Opening(row[2])
  BY <1>1, OpeningAre
<1> HIDE DEF row, l
<1>4. Item(row, -1)
  BY <1>1, <1>2, <1>3, TupleIsItem, Zenon
<1> QED
  BY <1>4 DEF row

LEMMA ImportHead ==
  LET row == <<Skip, Expect("["), Name, OpenCurly, NameList>>
  IN  Item(row, 1)
<1> DEFINE row == <<Skip, Expect("["), Name, OpenCurly, NameList>>
           l == <<0, 0, 0, 0, 1, 1>>
<1>1. /\ row = [k \in 1 .. 5 |-> row[k]] /\ l \in [1 .. 5 + 1 -> Int]
      /\ l[3] = 0 /\ l[5 + 1] = 1 /\ row[1] = Skip /\ row[2] = Expect("[") /\ 5 \in Nat /\ 5 >= 3
  OBVIOUS
<1>2. \A k \in 3 .. 5 : Turns(row[k], l[k + 1] - l[k]) /\ ~Blind(row[k]) /\ l[k] >= 0
  BY WordsTake, ListsTake DEF Takes
<1>3. Opening(row[2])
  BY <1>1, OpeningAre
<1> HIDE DEF row, l
<1>4. Item(row, 1)
  BY <1>1, <1>2, <1>3, TupleIsItem, Zenon
<1> QED
  BY <1>4 DEF row

LEMMA ExternHead ==
  LET row == <<Skip, Expect("["), Name, OpenCurly, Libs>>
  IN  Item(row, 1)
<1> DEFINE row == <<Skip, Expect("["), Name, OpenCurly, Libs>>
           l == <<0, 0, 0, 0, 1, 1>>
<1>1. /\ row = [k \in 1 .. 5 |-> row[k]] /\ l \in [1 .. 5 + 1 -> Int]
      /\ l[3] = 0 /\ l[5 + 1] = 1 /\ row[1] = Skip /\ row[2] = Expect("[") /\ 5 \in Nat /\ 5 >= 3
  OBVIOUS
<1>2. \A k \in 3 .. 5 : Turns(row[k], l[k + 1] - l[k]) /\ ~Blind(row[k]) /\ l[k] >= 0
  BY WordsTake, MaybesTake DEF Takes
<1>3. Opening(row[2])
  BY <1>1, OpeningAre
<1> HIDE DEF row, l
<1>4. Item(row, 1)
  BY <1>1, <1>2, <1>3, TupleIsItem, Zenon
<1> QED
  BY <1>4 DEF row

LEMMA CallItem ==
  LET row == <<Skip, OpenCurly, Name, Expect("("), ArgumentList, Expect(")"), CloseCurly>>
  IN  Item(row, -1)
<1> DEFINE row == <<Skip, OpenCurly, Name, Expect("("), ArgumentList, Expect(")"), CloseCurly>>
           l == <<0, 0, 0, 0, 1, 1, 0, -1>>
<1>1. /\ row = [k \in 1 .. 7 |-> row[k]] /\ l \in [1 .. 7 + 1 -> Int]
      /\ l[3] = 0 /\ l[7 + 1] = -1 /\ row[1] = Skip /\ row[2] = OpenCurly /\ 7 \in Nat /\ 7 >= 3
  OBVIOUS
<1>2. \A k \in 3 .. 7 : Turns(row[k], l[k + 1] - l[k]) /\ ~Blind(row[k]) /\ l[k] >= 0
  BY WordsTake, ListsTake DEF Takes
<1>3. Opening(row[2])
  BY <1>1, OpeningAre
<1> HIDE DEF row, l
<1>4. Item(row, -1)
  BY <1>1, <1>2, <1>3, TupleIsItem, Zenon
<1> QED
  BY <1>4 DEF row

LEMMA ReturnItem ==
  LET row == <<Skip, Expect("("), UnlessRound, Expect(")")>>
  IN  Item(row, -1)
<1> DEFINE row == <<Skip, Expect("("), UnlessRound, Expect(")")>>
           l == <<0, 0, 0, 0, -1>>
<1>1. /\ row = [k \in 1 .. 4 |-> row[k]] /\ l \in [1 .. 4 + 1 -> Int]
      /\ l[3] = 0 /\ l[4 + 1] = -1 /\ row[1] = Skip /\ row[2] = Expect("(") /\ 4 \in Nat /\ 4 >= 3
  OBVIOUS
<1>2. \A k \in 3 .. 4 : Turns(row[k], l[k + 1] - l[k]) /\ ~Blind(row[k]) /\ l[k] >= 0
  BY WordsTake, UnlessTakes DEF Takes
<1>3. Opening(row[2])
  BY <1>1, OpeningAre
<1> HIDE DEF row, l
<1>4. Item(row, -1)
  BY <1>1, <1>2, <1>3, TupleIsItem, Zenon
<1> QED
  BY <1>4 DEF row

LEMMA ExprItem ==
  LET row == <<Skip, OpenCurly, Name, Expect("("), Argument, SecondArgument, Expect(")"),
               CloseCurly>>
  IN  Item(row, -1)
<1> DEFINE row == <<Skip, OpenCurly, Name, Expect("("), Argument, SecondArgument, Expect(")"),
                    CloseCurly>>
           l == <<0, 0, 0, 0, 1, 1, 1, 0, -1>>
<1>1. /\ row = [k \in 1 .. 8 |-> row[k]] /\ l \in [1 .. 8 + 1 -> Int]
      /\ l[3] = 0 /\ l[8 + 1] = -1 /\ row[1] = Skip /\ row[2] = OpenCurly /\ 8 \in Nat /\ 8 >= 3
  OBVIOUS
<1>2. \A k \in 3 .. 8 : Turns(row[k], l[k + 1] - l[k]) /\ ~Blind(row[k]) /\ l[k] >= 0
  BY WordsTake, ValuesTake, MaybesTake DEF Takes
<1>3. Opening(row[2])
  BY <1>1, OpeningAre
<1> HIDE DEF row, l
<1>4. Item(row, -1)
  BY <1>1, <1>2, <1>3, TupleIsItem, Zenon
<1> QED
  BY <1>4 DEF row

LEMMA BracketedHead ==
  LET row == <<Skip, Expect("["), OpenCurly, Block>>
  IN  Item(row, 1)
<1> DEFINE row == <<Skip, Expect("["), OpenCurly, Block>>
           l == <<0, 0, 0, 1, 1>>
<1>1. /\ row = [k \in 1 .. 4 |-> row[k]] /\ l \in [1 .. 4 + 1 -> Int]
      /\ l[3] = 0 /\ l[4 + 1] = 1 /\ row[1] = Skip /\ row[2] = Expect("[") /\ 4 \in Nat /\ 4 >= 3
  OBVIOUS
<1>2. \A k \in 3 .. 4 : Turns(row[k], l[k + 1] - l[k]) /\ ~Blind(row[k]) /\ l[k] >= 0
  BY WordsTake, ListsTake DEF Takes
<1>3. Opening(row[2])
  BY <1>1, OpeningAre
<1> HIDE DEF row, l
<1>4. Item(row, 1)
  BY <1>1, <1>2, <1>3, TupleIsItem, Zenon
<1> QED
  BY <1>4 DEF row

LEMMA AwaitItem ==
  LET row == <<Skip, Expect("["), Name, Expect("]")>>
  IN  Item(row, -1)
<1> DEFINE row == <<Skip, Expect("["), Name, Expect("]")>>
           l == <<0, 0, 0, 0, -1>>
<1>1. /\ row = [k \in 1 .. 4 |-> row[k]] /\ l \in [1 .. 4 + 1 -> Int]
      /\ l[3] = 0 /\ l[4 + 1] = -1 /\ row[1] = Skip /\ row[2] = Expect("[") /\ 4 \in Nat /\ 4 >= 3
  OBVIOUS
<1>2. \A k \in 3 .. 4 : Turns(row[k], l[k + 1] - l[k]) /\ ~Blind(row[k]) /\ l[k] >= 0
  BY WordsTake DEF Takes
<1>3. Opening(row[2])
  BY <1>1, OpeningAre
<1> HIDE DEF row, l
<1>4. Item(row, -1)
  BY <1>1, <1>2, <1>3, TupleIsItem, Zenon
<1> QED
  BY <1>4 DEF row

LEMMA MemHead ==
  LET row == <<Skip, Expect("["), Name, OpenCurly, Block>>
  IN  Item(row, 1)
<1> DEFINE row == <<Skip, Expect("["), Name, OpenCurly, Block>>
           l == <<0, 0, 0, 0, 1, 1>>
<1>1. /\ row = [k \in 1 .. 5 |-> row[k]] /\ l \in [1 .. 5 + 1 -> Int]
      /\ l[3] = 0 /\ l[5 + 1] = 1 /\ row[1] = Skip /\ row[2] = Expect("[") /\ 5 \in Nat /\ 5 >= 3
  OBVIOUS
<1>2. \A k \in 3 .. 5 : Turns(row[k], l[k + 1] - l[k]) /\ ~Blind(row[k]) /\ l[k] >= 0
  BY WordsTake, ListsTake DEF Takes
<1>3. Opening(row[2])
  BY <1>1, OpeningAre
<1> HIDE DEF row, l
<1>4. Item(row, 1)
  BY <1>1, <1>2, <1>3, TupleIsItem, Zenon
<1> QED
  BY <1>4 DEF row

LEMMA ShareItem ==
  LET row == <<Skip, Expect("("), Name, Expect(")")>>
  IN  Item(row, -1)
<1> DEFINE row == <<Skip, Expect("("), Name, Expect(")")>>
           l == <<0, 0, 0, 0, -1>>
<1>1. /\ row = [k \in 1 .. 4 |-> row[k]] /\ l \in [1 .. 4 + 1 -> Int]
      /\ l[3] = 0 /\ l[4 + 1] = -1 /\ row[1] = Skip /\ row[2] = Expect("(") /\ 4 \in Nat /\ 4 >= 3
  OBVIOUS
<1>2. \A k \in 3 .. 4 : Turns(row[k], l[k + 1] - l[k]) /\ ~Blind(row[k]) /\ l[k] >= 0
  BY WordsTake DEF Takes
<1>3. Opening(row[2])
  BY <1>1, OpeningAre
<1> HIDE DEF row, l
<1>4. Item(row, -1)
  BY <1>1, <1>2, <1>3, TupleIsItem, Zenon
<1> QED
  BY <1>4 DEF row

LEMMA JumpItem ==
  LET row == <<Skip, OpenCurly, CloseCurly>>
  IN  Item(row, -1)
<1> DEFINE row == <<Skip, OpenCurly, CloseCurly>>
           l == <<0, 0, 0, -1>>
<1>1. /\ row = [k \in 1 .. 3 |-> row[k]] /\ l \in [1 .. 3 + 1 -> Int]
      /\ l[3] = 0 /\ l[3 + 1] = -1 /\ row[1] = Skip /\ row[2] = OpenCurly /\ 3 \in Nat /\ 3 >= 3
  OBVIOUS
<1>2. \A k \in 3 .. 3 : Turns(row[k], l[k + 1] - l[k]) /\ ~Blind(row[k]) /\ l[k] >= 0
  BY WordsTake DEF Takes
<1>3. Opening(row[2])
  BY <1>1, OpeningAre
<1> HIDE DEF row, l
<1>4. Item(row, -1)
  BY <1>1, <1>2, <1>3, TupleIsItem, Zenon
<1> QED
  BY <1>4 DEF row

LEMMA OfLiteralItem ==
  LET row == <<Skip, OpenCurly, Name, Expect("("), Literal, Expect(")"), CloseCurly>>
  IN  Item(row, -1)
<1> DEFINE row == <<Skip, OpenCurly, Name, Expect("("), Literal, Expect(")"), CloseCurly>>
           l == <<0, 0, 0, 0, 1, 1, 0, -1>>
<1>1. /\ row = [k \in 1 .. 7 |-> row[k]] /\ l \in [1 .. 7 + 1 -> Int]
      /\ l[3] = 0 /\ l[7 + 1] = -1 /\ row[1] = Skip /\ row[2] = OpenCurly /\ 7 \in Nat /\ 7 >= 3
  OBVIOUS
<1>2. \A k \in 3 .. 7 : Turns(row[k], l[k + 1] - l[k]) /\ ~Blind(row[k]) /\ l[k] >= 0
  BY WordsTake, ValuesTake DEF Takes
<1>3. Opening(row[2])
  BY <1>1, OpeningAre
<1> HIDE DEF row, l
<1>4. Item(row, -1)
  BY <1>1, <1>2, <1>3, TupleIsItem, Zenon
<1> QED
  BY <1>4 DEF row

LEMMA OfNameItem ==
  LET row == <<Skip, OpenCurly, Name, CloseCurly>>
  IN  Item(row, -1)
<1> DEFINE row == <<Skip, OpenCurly, Name, CloseCurly>>
           l == <<0, 0, 0, 0, -1>>
<1>1. /\ row = [k \in 1 .. 4 |-> row[k]] /\ l \in [1 .. 4 + 1 -> Int]
      /\ l[3] = 0 /\ l[4 + 1] = -1 /\ row[1] = Skip /\ row[2] = OpenCurly /\ 4 \in Nat /\ 4 >= 3
  OBVIOUS
<1>2. \A k \in 3 .. 4 : Turns(row[k], l[k + 1] - l[k]) /\ ~Blind(row[k]) /\ l[k] >= 0
  BY WordsTake DEF Takes
<1>3. Opening(row[2])
  BY <1>1, OpeningAre
<1> HIDE DEF row, l
<1>4. Item(row, -1)
  BY <1>1, <1>2, <1>3, TupleIsItem, Zenon
<1> QED
  BY <1>4 DEF row

LEMMA ConditionFits ==
  LET row == <<Name, Expect("("), Name, Expect(":"), Name, Expect(")")>>
  IN  Fits(0, row, 0, 0) /\ Sees(row)
<1> DEFINE row == <<Name, Expect("("), Name, Expect(":"), Name, Expect(")")>>
           l == <<0, 0, 1, 1, 1, 1, 0>>
<1>1. /\ row = [k \in 1 .. 6 |-> row[k]] /\ l \in [1 .. 6 + 1 -> Int]
      /\ l[1] = 0 /\ l[6 + 1] = 0 /\ 6 \in Nat
  OBVIOUS
<1>2. \A k \in 1 .. 6 :
        Turns(row[k], l[k + 1] - l[k]) /\ (k > 1 => ~Blind(row[k])) /\ l[k] >= 0
  BY WordsTake DEF Takes
<1>3. Sees(row)
  BY WordsTake DEF Takes, Sees
<1> HIDE DEF row, l
<1>4. IsSeq(row) /\ Len(row) = 6
  BY <1>1, TupleIsSeq
<1>5. Fits(0, row, 0, 0)
  BY <1>1, <1>2, <1>4 DEF Fits
<1> QED
  BY <1>3, <1>5 DEF row

LEMMA InstanceFits ==
  LET row == <<Name, Expect("("), SettingList, Expect(")")>>
  IN  Fits(0, row, 0, 0) /\ Sees(row)
<1> DEFINE row == <<Name, Expect("("), SettingList, Expect(")")>>
           l == <<0, 0, 1, 1, 0>>
<1>1. /\ row = [k \in 1 .. 4 |-> row[k]] /\ l \in [1 .. 4 + 1 -> Int]
      /\ l[1] = 0 /\ l[4 + 1] = 0 /\ 4 \in Nat
  OBVIOUS
<1>2. \A k \in 1 .. 4 :
        Turns(row[k], l[k + 1] - l[k]) /\ (k > 1 => ~Blind(row[k])) /\ l[k] >= 0
  BY WordsTake, ListsTake DEF Takes
<1>3. Sees(row)
  BY WordsTake DEF Takes, Sees
<1> HIDE DEF row, l
<1>4. IsSeq(row) /\ Len(row) = 4
  BY <1>1, TupleIsSeq
<1>5. Fits(0, row, 0, 0)
  BY <1>1, <1>2, <1>4 DEF Fits
<1> QED
  BY <1>3, <1>5 DEF row

LEMMA ArrayStoreHead ==
  LET row == <<Skip, OpenCurly, Name, Expect("("), Name, Expect(":"), Literal, Expect(":"),
               Literal>>
  IN  Fits(0, row, 0, 2)
<1> DEFINE row == <<Skip, OpenCurly, Name, Expect("("), Name, Expect(":"), Literal,
                    Expect(":"), Literal>>
           l == <<0, 0, 1, 1, 2, 2, 2, 2, 2, 2>>
<1>1. /\ row = [k \in 1 .. 9 |-> row[k]] /\ l \in [1 .. 9 + 1 -> Int]
      /\ l[1] = 0 /\ l[9 + 1] = 2 /\ 9 \in Nat
  OBVIOUS
<1>2. \A k \in 1 .. 9 :
        Turns(row[k], l[k + 1] - l[k]) /\ (k > 1 => ~Blind(row[k])) /\ l[k] >= 0
  BY WordsTake, SkipTurns, ValuesTake DEF Takes
<1> HIDE DEF row, l
<1>4. IsSeq(row) /\ Len(row) = 9
  BY <1>1, TupleIsSeq
<1>5. Fits(0, row, 0, 2)
  BY <1>1, <1>2, <1>4 DEF Fits
<1> QED
  BY <1>5 DEF row

LEMMA StructDefHead ==
  LET row == <<Skip, OpenCurly, Name, Expect(":"), FieldList>>
  IN  Fits(0, row, 0, 1)
<1> DEFINE row == <<Skip, OpenCurly, Name, Expect(":"), FieldList>>
           l == <<0, 0, 1, 1, 1, 1>>
<1>1. /\ row = [k \in 1 .. 5 |-> row[k]] /\ l \in [1 .. 5 + 1 -> Int]
      /\ l[1] = 0 /\ l[5 + 1] = 1 /\ 5 \in Nat
  OBVIOUS
<1>2. \A k \in 1 .. 5 :
        Turns(row[k], l[k + 1] - l[k]) /\ (k > 1 => ~Blind(row[k])) /\ l[k] >= 0
  BY WordsTake, SkipTurns, ListsTake DEF Takes
<1> HIDE DEF row, l
<1>4. IsSeq(row) /\ Len(row) = 5
  BY <1>1, TupleIsSeq
<1>5. Fits(0, row, 0, 1)
  BY <1>1, <1>2, <1>4 DEF Fits
<1> QED
  BY <1>5 DEF row

(***************************************************************************)
(* Row(kind), of all the kinds that statements and other rows have.        *)
(***************************************************************************)
LEMMA DetailIs == Detail("msg") = MsgDetail
BY Zenon DEF Detail, MsgDetail, Maybe, OpenCurly, CloseCurly

LEMMA PlainItems ==
  /\ Item(parseVariable, -1) /\ Item(parseMutation, -1) /\ Item(parseFatal, -1)
  /\ Item(parseCall, -1) /\ Item(parseReturn, -1) /\ Item(parseExpr, -1)
  /\ Item(parseAwait, -1) /\ Item(parseShare, -1) /\ Item(parseJump, -1)
  /\ Item(parseOfLiteral, -1) /\ Item(parseOfName, -1)
<1>1. Item(parseVariable, -1)
  BY VariableItem, Zenon DEF parseVariable, Declared, TypedValue, Object, OpenCurly
<1>2. Item(parseMutation, -1)
  BY MutationItem, Zenon DEF parseMutation, Stored, Attribute, Maybe, OpenCurly
<1>3. Item(parseFatal, -1)
  BY FatalItem, DetailIs, Zenon DEF parseFatal, TypeDetail, Maybe, OpenCurly, CloseCurly
<1>4. Item(parseCall, -1)
  BY CallItem, Zenon DEF parseCall, ArgumentList, OpenCurly, CloseCurly
<1>5. Item(parseReturn, -1)
  BY ReturnItem, Zenon DEF parseReturn, UnlessRound
<1>6. Item(parseExpr, -1)
  BY ExprItem, Zenon DEF parseExpr, SecondArgument, Maybe, OpenCurly, CloseCurly
<1>7. Item(parseAwait, -1) /\ Item(parseShare, -1)
  BY AwaitItem, ShareItem, Zenon DEF parseAwait, parseShare
<1>8. Item(parseJump, -1)
  BY JumpItem, Zenon DEF parseJump, OpenCurly, CloseCurly
<1>9. Item(parseOfLiteral, -1)
  BY OfLiteralItem, Zenon DEF parseOfLiteral, OpenCurly, CloseCurly
<1>10. Item(parseOfName, -1)
  BY OfNameItem, Zenon DEF parseOfName, OpenCurly, CloseCurly
<1> QED
  BY <1>1, <1>2, <1>3, <1>4, <1>5, <1>6, <1>7, <1>8, <1>9, <1>10

LEMMA LongItems ==
  /\ Item(parseIf, -1) /\ Item(parseLoop, -1) /\ Item(parseFunc, -1) /\ Item(parseError, -1)
  /\ Item(parseImport, -1) /\ Item(parseExtern, -1) /\ Item(parseBracketed, -1) /\ Item(parseMem, -1)
<1>1. Item(parseIf, -1)
  <2> DEFINE r == <<Skip, Expect("["), Expect("check"), OpenCurly, Node("Condition"), CloseCurly,
                    CommaMark, Expect("True")>>
             b == Braced(<<Block>>)
             t == <<Comma, Otherwise, Expect("]")>>
  <2>1. Item(r, 0) /\ Fits(0, t, 0, -1) /\ Sees(t)
    BY IfHead, IfEnd, Zenon
  <2>2. Fits(0, b, 0, 0) /\ Sees(b)
    BY BracedFits
  <2> HIDE DEF r, b, t
  <2>3. Item((r \o b) \o t, -1)
    BY <2>1, <2>2, ItemConcat
  <2> QED
    BY <2>3, Zenon DEF parseIf, r, b, t, Otherwise, Maybe, OpenCurly, CloseCurly, CommaMark
<1>2. Item(parseLoop, -1)
  <2> DEFINE r == <<Skip, Expect("["), Expect("check"), OpenCurly, Node("Condition"), CloseCurly,
                    CommaMark, Expect("for")>>
             b == Braced(<<Block>>)
             t == <<Expect("]")>>
  <2>1. Item(r, 0)
    BY LoopHead, Zenon
  <2>2. Fits(0, b, 0, 0) /\ Sees(b) /\ Fits(0, t, 0, -1) /\ Sees(t)
    BY BracedFits, WordsTake, OneTakes
  <2> HIDE DEF r, b, t
  <2>3. Item((r \o b) \o t, -1)
    BY <2>1, <2>2, ItemConcat
  <2> QED
    BY <2>3, Zenon DEF parseLoop, r, b, t, OpenCurly, CloseCurly, CommaMark
<1>3. Item(parseFunc, -1)
  BY FuncHead, WithClose, Zenon
     DEF parseFunc, Receives, FieldList, Statements, Returned, UnlessCurly, Maybe, OpenCurly, CloseCurly
<1>4. Item(parseError, -1)
  BY ErrorItem, DetailIs, Zenon
     DEF parseError, Attempt, HandledPart, Handled, TypeDetail, Maybe, OpenCurly, CloseCurly, CommaMark
<1>5. Item(parseImport, -1)
  BY ImportHead, WithClose, Zenon DEF parseImport, NameList, OpenCurly
<1>6. Item(parseExtern, -1)
  BY ExternHead, WithClose, Zenon DEF parseExtern, Libs, NameList, Maybe, OpenCurly, CloseCurly
<1>7. Item(parseBracketed, -1)
  BY BracketedHead, WithClose, Zenon DEF parseBracketed, OpenCurly
<1>8. Item(parseMem, -1)
  BY MemHead, WithClose, Zenon DEF parseMem, OpenCurly
<1> QED
  BY <1>1, <1>2, <1>3, <1>4, <1>5, <1>6, <1>7, <1>8

LEMMA OtherRows ==
  /\ Fits(0, parseCondition, 0, 0) /\ Sees(parseCondition)
  /\ Fits(0, parseStructInstance, 0, 0) /\ Sees(parseStructInstance)
  /\ Fits(0, parseArrayStore, 0, -1) /\ Fits(0, parseStructDef, 0, -1)
<1>1. Fits(0, parseCondition, 0, 0) /\ Sees(parseCondition)
  BY ConditionFits, Zenon DEF parseCondition
<1>2. Fits(0, parseStructInstance, 0, 0) /\ Sees(parseStructInstance)
  BY InstanceFits, Zenon DEF parseStructInstance, SettingList
<1>3. Fits(0, parseArrayStore, 0, -1)
  BY ArrayStoreHead, WithClose, Zenon DEF parseArrayStore, OpenCurly
<1>4. Fits(0, parseStructDef, 0, -1)
  BY StructDefHead, WithClose, Zenon DEF parseStructDef, FieldList, OpenCurly
<1> QED
  BY <1>1, <1>2, <1>3, <1>4

\* The row of every node that a statement is.
StatementKinds == {"Incr"} \union {StatementOf[t] : t \in DOMAIN StatementOf}

LEMMA StatementRows ==
  ASSUME NEW kind \in StatementKinds
  PROVE  Item(Row(kind), -1)
<1>1. kind \in {"Incr", "Variable", "Mutation", "If", "Return", "Loop", "Func", "Func_pub", "Error",
                "Fatal", "Import", "Extern", "Call", "Async", "Share", "Await", "GPU", "Mem", "Break",
                "Continue", "Cast", "Index", "Address", "Deref"}
  BY DEF StatementKinds, StatementOf
<1> QED
  BY <1>1, PlainItems, LongItems DEF Row

\* The row of every node that a row asks for.
LEMMA InnerRows ==
  ASSUME NEW kind \in Inner
  PROVE  /\ Fits(0, Row(kind), 0, NodeTurn(kind))
         /\ kind \in {"StructInstance", "Condition"} => Sees(Row(kind))
<1>1. /\ Fits(0, parseCall, 0, 0) /\ Fits(0, parseExpr, 0, 0) /\ Fits(0, parseOfLiteral, 0, 0)
      /\ Fits(0, parseOfName, 0, 0)
  <2>1. \A row : Item(row, -1) => Fits(0, row, 0, 0)
    <3>1. -1 + 1 = 0
      OBVIOUS
    <3> QED
      BY <3>1, ItemFits
  <2> QED
    BY <2>1, PlainItems
<1> QED
  BY <1>1, OtherRows DEF Row, Inner, NodeTurn, Closing

(***************************************************************************)
(* Counting brackets.                                                      *)
(***************************************************************************)
LEMMA CountSplit ==
  ASSUME NEW p \in Int, NEW q \in Int, NEW r \in Int, p - 1 <= q, q <= r, NEW types
  PROVE  /\ Count(p, q, types) \in Int /\ Count(q + 1, r, types) \in Int
         /\ Count(p, r, types) = Count(p, q, types) + Count(q + 1, r, types)
<1> DEFINE In(a, b) == {i \in a .. b : parsed[i].type \in types}
<1>1. ASSUME NEW a \in Int, NEW b \in Int PROVE IsFiniteSet(In(a, b))
  BY FS_Interval, FS_Subset
<1>2. IsFiniteSet(In(p, q)) /\ IsFiniteSet(In(q + 1, r))
  BY <1>1
<1>3. In(p, r) = In(p, q) \union In(q + 1, r) /\ In(p, q) \intersect In(q + 1, r) = {}
  OBVIOUS
<1> HIDE DEF In
<1>4. /\ Cardinality(In(p, r)) = Cardinality(In(p, q)) + Cardinality(In(q + 1, r))
      /\ Cardinality(In(p, q)) \in Nat /\ Cardinality(In(q + 1, r)) \in Nat
  <2>1. Cardinality({}) = 0
    BY FS_EmptySet
  <2>2. Cardinality(In(p, q)) \in Nat /\ Cardinality(In(q + 1, r)) \in Nat
    BY <1>2, FS_CardinalityType
  <2> DEFINE a == In(p, q)
             b == In(q + 1, r)
  <2>3. IsFiniteSet(a) /\ IsFiniteSet(b) /\ a \intersect b = {} /\ In(p, r) = a \union b
    BY <1>2, <1>3
  <2> HIDE DEF a, b
  <2>4. Cardinality(a \union b) = Cardinality(a) + Cardinality(b) - Cardinality(a \intersect b)
    BY <2>3, FS_Union
  <2>5. Cardinality(a) \in Nat /\ Cardinality(b) \in Nat
    BY <2>2 DEF a, b
  <2>6. Cardinality(In(p, r)) = Cardinality(a \union b) /\ Cardinality(a \intersect b) = 0
    BY <2>1, <2>3, Zenon
  <2> DEFINE x == Cardinality(a)
             y == Cardinality(b)
             z == Cardinality(a \union b)
             i == Cardinality(a \intersect b)
  <2>7. z = x + y - i /\ i = 0 /\ x \in Nat /\ y \in Nat
    BY <2>4, <2>5, <2>6
  <2> HIDE DEF x, y, z, i
  <2>8. z = x + y
    BY <2>7
  <2> QED
    BY <2>2, <2>6, <2>8, Zenon DEF a, b, x, y, z
<1> QED
  BY <1>4 DEF Count, In

LEMMA CountFew ==
  ASSUME NEW p \in Int, NEW types
  PROVE  /\ Count(p, p - 1, types) = 0
         /\ Count(p, p, types) = IF parsed[p].type \in types THEN 1 ELSE 0
<1>1. {i \in p .. p - 1 : parsed[i].type \in types} = {}
  OBVIOUS
<1>2. {i \in p .. p : parsed[i].type \in types} = IF parsed[p].type \in types THEN {p} ELSE {}
  OBVIOUS
<1> QED
  BY <1>1, <1>2, FS_EmptySet, FS_Singleton DEF Count

LEMMA BalanceSplit ==
  ASSUME NEW p \in Int, NEW q \in Int, NEW r \in Int, p - 1 <= q, q <= r
  PROVE  /\ Balance(p, q) \in Int /\ Balance(q + 1, r) \in Int
         /\ Balance(p, r) = Balance(p, q) + Balance(q + 1, r)
<1>1. \A types : /\ Count(p, q, types) \in Int /\ Count(q + 1, r, types) \in Int
                 /\ Count(p, r, types) = Count(p, q, types) + Count(q + 1, r, types)
  BY CountSplit
<1>2. \A a, b : Balance(a, b) = Count(a, b, OpenTypes) - Count(a, b, CloseTypes)
  BY DEF Balance, OpenTypes, CloseTypes
<1> QED
  BY <1>1, <1>2

LEMMA BalanceFew ==
  ASSUME NEW p \in Int
  PROVE  Balance(p, p - 1) = 0 /\ Balance(p, p) = Turn(parsed[p].type)
<1>1. /\ Balance(p, p - 1) = Count(p, p - 1, OpenTypes) - Count(p, p - 1, CloseTypes)
      /\ Balance(p, p) = Count(p, p, OpenTypes) - Count(p, p, CloseTypes)
  BY DEF Balance, OpenTypes, CloseTypes
<1>2. OpenTypes \intersect CloseTypes = {}
  BY DEF OpenTypes, CloseTypes
<1> QED
  BY <1>1, <1>2, CountFew DEF Turn

LEMMA BalanceNext ==
  ASSUME NEW p \in Int, NEW q \in Int, p <= q
  PROVE  /\ Balance(p, q) \in Int /\ Balance(p, q - 1) \in Int
         /\ Balance(p, q) = Balance(p, q - 1) + Turn(parsed[q].type)
         /\ Turn(parsed[q].type) \in {-1, 0, 1}
<1>1. p - 1 <= q - 1 /\ q - 1 <= q /\ (q - 1) + 1 = q /\ q - 1 \in Int
  OBVIOUS
<1>2. Balance(p, q - 1) \in Int /\ Balance(q, q) \in Int /\ Balance(p, q) = Balance(p, q - 1) + Balance(q, q)
  BY <1>1, BalanceSplit
<1> QED
  BY <1>2, BalanceFew DEF Turn

\* Where the count comes back from 1, it does so at a closing bracket.
LEMMA TurnIs ==
  ASSUME NEW type
  PROVE  /\ type \in CloseTypes <=> Turn(type) = -1
         /\ type \in OpenTypes <=> Turn(type) = 1
<1>1. OpenTypes \intersect CloseTypes = {}
  BY DEF OpenTypes, CloseTypes
<1> QED
  BY <1>1 DEF Turn

LEMMA ItemEndsAre ==
  ASSUME NEW p
  PROVE  ItemEnds(p) = {q \in p .. Len(parsed) - 1 : parsed[q].type \in CloseTypes /\ Balance(p, q) = 0}
BY DEF ItemEnds, CloseTypes

\* skipTopLevel finds the first end of an item.
LEMMA skipTopLevelFinds ==
  ASSUME NEW p \in Nat, NEW e, e \in ItemEnds(p)
  PROVE  \E q \in ItemEnds(p) : skipTopLevel(p) = q + 1 /\ \A r \in ItemEnds(p) : q <= r
<1> DEFINE E == ItemEnds(p)
           least == CHOOSE q \in E : \A r \in E : q <= r
<1>1. E \subseteq p .. Len(parsed) - 1
  BY DEF ItemEnds
<1>2. E \in SUBSET Nat
  BY <1>1
<1>3. skipTopLevel(p) = least + 1 /\ E # {}
  BY DEF skipTopLevel
<1> HIDE DEF E
<1>4. \E q \in E : \A r \in E : q <= r
  BY <1>2, <1>3, LeastNumber
<1>5. least \in E /\ \A r \in E : least <= r
  BY <1>4
<1> QED
  BY <1>3, <1>5 DEF E

(***************************************************************************)
(* The parser of an item.                                                  *)
(***************************************************************************)
\* The tokens end in the only EOF, and special words are identifiers.
TokensKnown ==
  /\ IsSeq(parsed) /\ Len(parsed) >= 1
  /\ \A k \in 1 .. Len(parsed) : parsed[k].type = "EOF" <=> k = Len(parsed)
  /\ \A k \in 1 .. Len(parsed) : parsed[k].word # "none" => parsed[k].type = "IDENT"

Faultless(m) == m.errs = <<>> /\ \A k \in DOMAIN m.out : ~Opener(m.out[k])

\* Within the brackets of the statement at s, at the position p, where by the row that is
\* still to do g brackets are open: no more are, and if as many are then none of them is
\* one of those before the item.
InsideAt(s, todo, p, g) ==
  /\ Fits(1, todo, g, 0)
  /\ todo # <<>> /\ Blind(todo[1]) => Turn(parsed[p].type) = 0
  /\ p \in s + 2 .. Len(parsed) /\ Turn(parsed[s].type) = 0 /\ Turn(parsed[s + 1].type) = 1
  /\ Balance(s, p - 1) <= g
  /\ Balance(s, p - 1) = g => /\ \A q \in s + 1 .. p - 2 : Balance(s, q) >= 1
                              /\ g = 0 => parsed[p - 1].type \in CloseTypes

\* Before the statement, before its word, before its bracket, or within it.
OnItem(m, s) ==
  \/ m.todo = <<Statement>> /\ m.pos = s
  \/ Item(m.todo, -1) /\ m.pos = s /\ s < Len(parsed) /\ Turn(parsed[s].type) = 0
  \/ /\ IsSeq(m.todo) /\ m.todo # <<>> /\ Opening(Head(m.todo))
     /\ Fits(0, Tail(m.todo), 0, -1) /\ Sees(Tail(m.todo))
     /\ m.pos = s + 1 /\ Turn(parsed[s].type) = 0
  \/ \E g \in Nat : InsideAt(s, m.todo, m.pos, g)

\* A step that leaves the position, and one that takes a token.
LEMMA InsideStays ==
  ASSUME NEW s, NEW todo, NEW p, NEW g, InsideAt(s, todo, p, g),
         NEW row, Fits(1, row, g, 0), row # <<>> /\ Blind(row[1]) => Turn(parsed[p].type) = 0
  PROVE  InsideAt(s, row, p, g)
BY DEF InsideAt

LEMMA InsideMoves ==
  ASSUME NEW s \in Nat, NEW todo, NEW p, NEW g \in Nat, g >= 1, InsideAt(s, todo, p, g), TokensKnown,
         p < Len(parsed), NEW w \in {-1, 0, 1}, Turn(parsed[p].type) <= w,
         NEW rest, NEW h, h = g + w, Fits(1, rest, h, 0), Sees(rest)
  PROVE  h \in Nat /\ InsideAt(s, rest, p + 1, h)
<1> DEFINE d == Turn(parsed[p].type)
           b == Balance(s, p - 1)
           c == Balance(s, p)
<1>1. p \in Nat /\ p >= s + 2 /\ Len(parsed) \in Nat /\ p + 1 \in s + 2 .. Len(parsed)
  BY LenIsNat DEF InsideAt, TokensKnown
<1>2. b \in Int /\ c \in Int /\ c = b + d /\ d \in {-1, 0, 1}
  BY <1>1, BalanceNext
<1>3. b <= g /\ (b = g => \A q \in s + 1 .. p - 2 : Balance(s, q) >= 1)
  BY DEF InsideAt
<1>4. d <= w /\ h \in Nat
  OBVIOUS
<1>5. h = 0 => d = -1
  BY <1>2, <1>4
<1>6. d = -1 => parsed[p].type \in CloseTypes
  BY TurnIs
<1> HIDE DEF d
<1>7. c <= h /\ (c = h => b = g)
  BY <1>2, <1>3, <1>4
<1>8. ASSUME c = h, NEW q \in s + 1 .. p - 1
      PROVE  Balance(s, q) >= 1
  <2>1. CASE q \in s + 1 .. p - 2
    BY <1>3, <1>7, <1>8, <2>1
  <2>2. CASE q = p - 1
    BY <1>7, <1>8, <2>2
  <2> QED
    BY <1>1, <2>1, <2>2
<1>9. (p + 1) - 1 = p /\ (p + 1) - 2 = p - 1
  BY <1>1
<1>10. rest # <<>> => ~Blind(rest[1])
  BY DEF Sees
<1>11. /\ p + 1 \in s + 2 .. Len(parsed) /\ Turn(parsed[s].type) = 0 /\ Turn(parsed[s + 1].type) = 1
  BY <1>1 DEF InsideAt
<1>12. Balance(s, (p + 1) - 1) <= h
  BY <1>7, <1>9
<1>13. Balance(s, (p + 1) - 1) = h => /\ \A q \in s + 1 .. (p + 1) - 2 : Balance(s, q) >= 1
                                      /\ h = 0 => parsed[(p + 1) - 1].type \in CloseTypes
  BY <1>5, <1>6, <1>8, <1>9
<1> QED
  BY <1>4, <1>10, <1>11, <1>12, <1>13 DEF InsideAt

\* What a step leaves out: an error stays, and so does a bracket taken as a name.
LEMMA ErrorsStay ==
  ASSUME NEW m, DOMAIN m = ParserFields, IsSeq(m.errs), NEW ts, Step(m, ts).errs = <<>>
  PROVE  m.errs = <<>> /\ Step(m, ts).errs # Append(m.errs, m.pos)
<1> DEFINE e == Append(m.errs, m.pos)
<1>1. e # <<>>
  BY FirstStays
<1> HIDE DEF e
<1>2. Step(m, ts).errs = m.errs \/ Step(m, ts).errs = e
  BY DEF Step, Enter, ParserFields, e
<1>3. m.errs = <<>> /\ Step(m, ts).errs # e
  BY <1>1, <1>2
<1> QED
  BY <1>3 DEF e

LEMMA SeenStays ==
  ASSUME NEW m, DOMAIN m = ParserFields, IsSeq(m.out), NEW ts, NEW k \in DOMAIN m.out
  PROVE  k \in DOMAIN Step(m, ts).out /\ Step(m, ts).out[k] = m.out[k]
<1>1. Step(m, ts).out = m.out \/ \E kind : Step(m, ts).out = Seen(m, kind)
  BY StepAddsNode
<1>2. ASSUME NEW kind PROVE k \in DOMAIN Seen(m, kind) /\ Seen(m, kind)[k] = m.out[k]
  <2> DEFINE e == [path |-> m.path, kind |-> kind, at |-> m.pos]
             out == m.out
  <2>1. Seen(m, kind) = Append(out, e)
    BY DEF Seen
  <2> HIDE DEF e
  <2>2. /\ DOMAIN out = 1 .. Len(out) /\ DOMAIN Append(out, e) = 1 .. Len(Append(out, e))
        /\ Len(Append(out, e)) = Len(out) + 1 /\ Len(out) \in Nat
        /\ \A i \in 1 .. Len(out) : Append(out, e)[i] = out[i]
    BY AppendedTokens, LenIsNat
  <2> QED
    BY <2>1, <2>2
<1> QED
  BY <1>1, <1>2

LEMMA StaysFaultless ==
  ASSUME NEW m, DOMAIN m = ParserFields, IsSeq(m.out), IsSeq(m.errs), Faultless(Step(m, parsed))
  PROVE  Faultless(m)
<1>1. m.errs = <<>>
  BY ErrorsStay DEF Faultless
<1>2. ASSUME NEW k \in DOMAIN m.out PROVE ~Opener(m.out[k])
  BY SeenStays DEF Faultless
<1> QED
  BY <1>1, <1>2 DEF Faultless

\* A name or a literal that is taken is no opening bracket.
LEMMA TakenIsNoOpener ==
  ASSUME NEW m, DOMAIN m = ParserFields, IsSeq(m.out), Head(m.todo).op \in {"name", "leaf"},
         Faultless(Step(m, parsed))
  PROVE  parsed[m.pos].type \notin OpenTypes
<1> DEFINE op == Head(m.todo).op
           e == [path |-> m.path, kind |-> op, at |-> m.pos]
           out == m.out
           n == Len(out)
<1>1. Step(m, parsed).out = Seen(m, op)
  BY DEF Step, ParserFields
<1>2. Seen(m, op) = Append(out, e) /\ e.kind = op /\ e.at = m.pos
  BY DEF Seen
<1> HIDE DEF e, op
<1>3. /\ DOMAIN Append(out, e) = 1 .. n + 1 /\ n \in Nat /\ Append(out, e)[n + 1] = e
  BY AppendedTokens, LenIsNat
<1>4. n + 1 \in DOMAIN Append(out, e)
  BY <1>3
<1>5. ~Opener(e)
  BY <1>1, <1>2, <1>3, <1>4 DEF Faultless
<1>6. e.kind \in {"name", "leaf"}
  BY <1>2 DEF op
<1> QED
  BY <1>2, <1>5, <1>6 DEF Opener, OpenTypes

\* A step without a fault, by what is to do.
LEMMA StepIs ==
  ASSUME NEW m, DOMAIN m = ParserFields, IsSeq(m.out), IsSeq(m.errs), Faultless(Step(m, parsed))
  PROVE  LET do == Head(m.todo)
             rest == Tail(m.todo)
             h == Step(m, parsed)
             type == parsed[m.pos].type
             next == Advance(parsed, m.pos)
         IN  /\ do.op = "expect" => type = do.type /\ h.pos = next /\ h.todo = rest
             /\ do.op \in {"skip", "name", "leaf"} => h.pos = next /\ h.todo = rest
             /\ do.op = "end" => h.pos = m.pos /\ h.todo = rest
             /\ do.op = "node" => h.pos = m.pos /\ h.todo = Row(do.kind) \o <<End>> \o rest
             /\ do.op = "when" => /\ h.pos = m.pos
                                  /\ \/ Heads(parsed, m.pos, do) /\ h.todo = do.then \o rest
                                     \/ h.todo = do.else \o rest
             /\ do.op = "until" => /\ h.pos = m.pos
                                   /\ h.todo = rest \/ h.todo = do.body \o m.todo
             /\ do.op = "statement" =>
                  /\ h.pos = m.pos /\ type \in DOMAIN StatementOf \union {"++", "--"}
                  /\ \E kind \in StatementKinds : h.todo = Row(kind) \o <<End>> \o rest
<1> DEFINE do == Head(m.todo)
           rest == Tail(m.todo)
           h == Step(m, parsed)
           type == parsed[m.pos].type
           next == Advance(parsed, m.pos)
<1>1. h.errs # Append(m.errs, m.pos)
  BY ErrorsStay DEF Faultless
<1>2. do.op = "expect" => type = do.type /\ h.pos = next /\ h.todo = rest
  BY <1>1 DEF Step, ParserFields
<1>3. do.op \in {"skip", "name", "leaf"} => h.pos = next /\ h.todo = rest
  BY ZenonT(20) DEF Step, ParserFields
<1>4. do.op = "end" => h.pos = m.pos /\ h.todo = rest
  BY ZenonT(40) DEF Step, ParserFields
<1>5. do.op = "node" => h.pos = m.pos /\ h.todo = Row(do.kind) \o <<End>> \o rest
  BY Zenon DEF Step, Enter, ParserFields
<1>6. do.op = "when" => /\ h.pos = m.pos
                        /\ \/ Heads(parsed, m.pos, do) /\ h.todo = do.then \o rest
                           \/ h.todo = do.else \o rest
  BY ZenonT(20) DEF Step, ParserFields
<1>7. do.op = "until" => h.pos = m.pos /\ (h.todo = rest \/ h.todo = do.body \o m.todo)
  BY DEF Step, ParserFields
<1>8. ASSUME do.op = "statement"
      PROVE  /\ h.pos = m.pos /\ type \in DOMAIN StatementOf \union {"++", "--"}
             /\ \E kind \in StatementKinds : h.todo = Row(kind) \o <<End>> \o rest
  <2>1. h = CASE type \in DOMAIN StatementOf -> Enter(m, StatementOf[type], rest)
              [] type \in {"++", "--"} -> Enter(m, "Incr", rest)
              [] OTHER -> [m EXCEPT !.pos = next, !.errs = Append(m.errs, m.pos), !.todo = rest]
    BY <1>8, Zenon DEF Step
  <2>2. \A kind : /\ Enter(m, kind, rest).pos = m.pos
                  /\ Enter(m, kind, rest).todo = Row(kind) \o <<End>> \o rest
    BY DEF Enter, ParserFields
  <2>3. [m EXCEPT !.pos = next, !.errs = Append(m.errs, m.pos), !.todo = rest].errs = Append(m.errs, m.pos)
    BY DEF ParserFields
  <2>4. "Incr" \in StatementKinds /\ \A t \in DOMAIN StatementOf : StatementOf[t] \in StatementKinds
    BY DEF StatementKinds
  <2> HIDE DEF h, rest, type, next
  <2>5. \/ type \in DOMAIN StatementOf /\ h = Enter(m, StatementOf[type], rest)
        \/ type \in {"++", "--"} /\ h = Enter(m, "Incr", rest)
    BY <1>1, <2>1, <2>3
  <2> QED
    BY <2>2, <2>4, <2>5, Zenon
<1> QED
  BY <1>2, <1>3, <1>4, <1>5, <1>6, <1>7, <1>8, Zenon

\* A row put before what is still to do.
LEMMA RowBefore ==
  ASSUME NEW row, NEW w \in Int, Fits(0, row, 0, w), NEW g \in Nat, g >= 1, NEW rest, NEW h, h = g + w,
         Fits(1, rest, h, 0), Sees(rest)
  PROVE  /\ Fits(1, row \o rest, g, 0)
         /\ row \o rest # <<>> /\ Blind((row \o rest)[1]) => row # <<>> /\ Blind(row[1])
<1>1. 1 <= 0 + g /\ g = 0 + g /\ h = w + g /\ 0 \in Int /\ 1 \in Int /\ g \in Int
  OBVIOUS
<1>2. Fits(1, row, g, h)
  BY <1>1, FitsShift
<1>3. Fits(1, row \o rest, g, 0)
  BY <1>1, <1>2, FitsConcat
<1>4. IsSeq(row) /\ IsSeq(rest)
  BY DEF Fits
<1>5. CASE row = <<>>
  <2>1. PICK S : rest \in Seq(S)
    BY <1>4 DEF IsSeq
  <2>2. row \o rest = rest
    BY <1>5, <2>1, ConcatEmptySeq
  <2> QED
    BY <1>3, <2>2 DEF Sees
<1>6. CASE row # <<>>
  <2>1. 1 \in 1 .. Len(row)
    BY <1>4, <1>6, EmptySeq, LenIsNat DEF IsSeq
  <2>2. (row \o rest)[1] = row[1]
    BY <1>4, <2>1, ConcatIsSeq
  <2> QED
    BY <1>3, <1>6, <2>2
<1> QED
  BY <1>5, <1>6

LEMMA ConcatThree ==
  ASSUME NEW a, IsSeq(a), NEW b, IsSeq(b), NEW c, IsSeq(c)
  PROVE  a \o (b \o c) = (a \o b) \o c
<1>1. PICK A : a \in Seq(A)
  BY DEF IsSeq
<1>2. PICK B : b \in Seq(B)
  BY DEF IsSeq
<1>3. PICK C : c \in Seq(C)
  BY DEF IsSeq
<1> DEFINE S == A \union B \union C
<1>4. a \in Seq(S) /\ b \in Seq(S) /\ c \in Seq(S)
  BY <1>1, <1>2, <1>3, SeqMonotonic
<1> HIDE DEF S
<1>5. (a \o b) \o c = a \o (b \o c)
  BY <1>4, ConcatAssociative
<1> QED
  BY <1>5

\* The row of a node, and its end.
LEMMA NodeBefore ==
  ASSUME NEW row, NEW w \in {-1, 0}, Fits(0, row, 0, w), NEW g \in Nat, g >= 1, NEW rest, NEW h, h = g + w,
         Fits(1, rest, h, 0), Sees(rest)
  PROVE  LET all == row \o <<End>> \o rest
         IN  /\ Fits(1, all, g, 0)
             /\ all # <<>> /\ Blind(all[1]) => row # <<>> /\ Blind(row[1])
<1> DEFINE t == <<End>>
           tr == t \o rest
<1>1. h \in Nat /\ h \in Int /\ (h >= 1 \/ (h = 1 - 1 /\ End = End)) /\ h = h + 0 /\ w \in Int /\ 1 \in Int
  OBVIOUS
<1>2. Fits(1, t, h, h)
  BY <1>1, ElementsTurn, FitsOne
<1>3. Fits(1, tr, h, 0)
  BY <1>1, <1>2, FitsConcat
<1>4. t # <<>> /\ Len(t) = 1 /\ t[1] = End
  OBVIOUS
<1> HIDE DEF t
<1>5. IsSeq(row) /\ IsSeq(t) /\ IsSeq(rest)
  BY <1>2 DEF Fits
<1>6. Sees(tr)
  <2>1. 1 \in 1 .. Len(t)
    BY <1>4
  <2>2. tr[1] = t[1]
    BY <1>5, <2>1, ConcatIsSeq
  <2> QED
    BY <1>4, <2>2, WhoSees DEF Sees
<1> HIDE DEF tr
<1>7. /\ Fits(1, row \o tr, g, 0)
      /\ row \o tr # <<>> /\ Blind((row \o tr)[1]) => row # <<>> /\ Blind(row[1])
  BY <1>1, <1>3, <1>6, RowBefore
<1>8. row \o tr = (row \o t) \o rest
  BY <1>5, ConcatThree DEF tr
<1> QED
  BY <1>7, <1>8, Zenon DEF t

\* The words of statements are no brackets.
LEMMA StatementTurns ==
  ASSUME NEW type \in DOMAIN StatementOf \union {"++", "--"}
  PROVE  Turn(type) = 0 /\ type # "EOF"
<1>1. type \in {"Variable", "Mutation", "If", "return", "Loop", "Function", "Function_public", "Error",
                "Fatal", "Import", "Extern", "call", "Async", "share", "Await", "GPU", "Mem", "break",
                "continue", "cast", "index", "addr", "deref", "++", "--"}
  BY DEF StatementOf
<1> QED
  BY <1>1 DEF Turn, OpenTypes, CloseTypes

\* A test for words has not met a bracket.
LEMMA WordsAreNoBrackets ==
  ASSUME TokensKnown, NEW p \in 1 .. Len(parsed), NEW when, NoBracket(when.types),
         Heads(parsed, p, when)
  PROVE  Turn(parsed[p].type) = 0
<1>1. PICK t \in {parsed[p].type, parsed[p].word} : t \in when.types
  BY DEF Heads, Types
<1>2. t \notin OpenTypes \union CloseTypes \union {"none"}
  BY <1>1 DEF NoBracket
<1>3. CASE t = parsed[p].type
  BY <1>2, <1>3 DEF Turn
<1>4. CASE t = parsed[p].word
  <2>1. parsed[p].type = "IDENT"
    BY <1>2, <1>4 DEF TokensKnown
  <2> QED
    BY <2>1 DEF Turn, OpenTypes, CloseTypes
<1> QED
  BY <1>1, <1>3, <1>4

\* Within the brackets of an item.
LEMMA InsideStep ==
  ASSUME TokensKnown, NEW m, DOMAIN m = ParserFields, IsSeq(m.out), IsSeq(m.errs), m.todo # <<>>,
         NEW s \in Nat, NEW g \in Nat, InsideAt(s, m.todo, m.pos, g), Faultless(Step(m, parsed))
  PROVE  \E k \in Nat : InsideAt(s, Step(m, parsed).todo, Step(m, parsed).pos, k)
<1> DEFINE do == Head(m.todo)
           rest == Tail(m.todo)
           next == Step(m, parsed)
           p == m.pos
           type == parsed[p].type
<1>1. /\ Fits(1, m.todo, g, 0) /\ (Blind(m.todo[1]) => Turn(type) = 0)
      /\ p \in s + 2 .. Len(parsed)
  BY DEF InsideAt
<1>2. /\ g >= 1 \/ (g = 1 - 1 /\ do = End)
      /\ Sees(rest) /\ do = m.todo[1]
      /\ \E v \in Int : Turns(do, v) /\ Fits(1, rest, g + v, 0)
  BY <1>1, FitsTail
<1>3. PICK w \in Int : Turns(do, w) /\ Fits(1, rest, g + w, 0)
  BY <1>2
<1>4. /\ do.op \in {"expect", "skip", "name", "leaf", "end", "node", "statement", "when", "until"}
      /\ do.op = "expect" => w = Turn(do.type) /\ do.type # "EOF"
      /\ do.op \in {"skip", "name", "leaf", "end", "statement"} => w = 0
      /\ do.op = "node" => do.kind \in Inner /\ w = NodeTurn(do.kind)
      /\ do.op = "when" => /\ Fits(0, do.then, 0, w) /\ Fits(0, do.else, 0, w)
                           /\ Sees(do.else) /\ (Sees(do.then) \/ NoBracket(do.types))
      /\ do.op = "until" => w = 0 /\ Fits(0, do.body, 0, 0) /\ Sees(do.body)
  BY <1>3, TurnsRight
<1>5. do.op # "end" => g >= 1
  BY <1>2 DEF End
<1>6. /\ p \in 1 .. Len(parsed) /\ p \in Nat /\ Len(parsed) \in Nat
      /\ (type = "EOF" <=> p = Len(parsed))
  BY <1>1, LenIsNat DEF TokensKnown
<1>7. /\ do.op = "expect" => type = do.type /\ next.pos = Advance(parsed, p) /\ next.todo = rest
      /\ do.op \in {"skip", "name", "leaf"} => next.pos = Advance(parsed, p) /\ next.todo = rest
      /\ do.op = "end" => next.pos = p /\ next.todo = rest
      /\ do.op = "node" => next.pos = p /\ next.todo = Row(do.kind) \o <<End>> \o rest
      /\ do.op = "when" => /\ next.pos = p
                           /\ \/ Heads(parsed, p, do) /\ next.todo = do.then \o rest
                              \/ next.todo = do.else \o rest
      /\ do.op = "until" => /\ next.pos = p
                            /\ next.todo = rest \/ next.todo = do.body \o m.todo
      /\ do.op = "statement" =>
           /\ next.pos = p /\ type \in DOMAIN StatementOf \union {"++", "--"}
           /\ \E kind \in StatementKinds : next.todo = Row(kind) \o <<End>> \o rest
  BY StepIs
<1>8. do.op \in {"name", "leaf"} => type \notin OpenTypes
  BY TakenIsNoOpener
<1>9. do.op = "skip" => Turn(type) = 0
  BY <1>1, <1>2 DEF Blind
<1>10. rest # <<>> => ~Blind(rest[1])
  BY <1>2 DEF Sees
<1> DEFINE h == g + w
<1>11. Fits(1, rest, h, 0) /\ g = g + 0 /\ w = w + 0
  BY <1>3
<1>12. m.todo # <<>> /\ InsideAt(s, m.todo, p, g)
  OBVIOUS
<1>13. h = g + w
  OBVIOUS
<1> SUFFICES \E k \in Nat : InsideAt(s, next.todo, next.pos, k)
  OBVIOUS
<1> HIDE DEF do, rest, next, h, type
\* A row in the place of the first element.
<1>14. ASSUME NEW row, Fits(0, row, 0, w), g >= 1, row # <<>> /\ Blind(row[1]) => Turn(type) = 0,
              next.pos = p, next.todo = row \o rest
       PROVE  InsideAt(s, next.todo, next.pos, g)
  <2>1. /\ Fits(1, row \o rest, g, 0)
        /\ row \o rest # <<>> /\ Blind((row \o rest)[1]) => row # <<>> /\ Blind(row[1])
    BY <1>2, <1>11, <1>13, <1>14, RowBefore
  <2> QED
    BY <1>12, <1>14, <2>1, InsideStays DEF type
<1>15. ASSUME NEW row, Fits(0, row, 0, w), g >= 1, w \in {-1, 0}, next.pos = p,
              row # <<>> /\ Blind(row[1]) => Turn(type) = 0, next.todo = row \o <<End>> \o rest
       PROVE  InsideAt(s, next.todo, next.pos, g)
  <2> DEFINE all == row \o <<End>> \o rest
  <2>1. /\ Fits(1, all, g, 0)
        /\ all # <<>> /\ Blind(all[1]) => row # <<>> /\ Blind(row[1])
    BY <1>2, <1>11, <1>13, <1>15, NodeBefore
  <2>2. next.todo = all
    BY <1>15
  <2> HIDE DEF all
  <2> QED
    BY <1>12, <1>15, <2>1, <2>2, InsideStays DEF type
<1>16. ASSUME next.pos = Advance(parsed, p), next.todo = rest, w \in {-1, 0, 1}, g >= 1,
              Turn(type) <= w, p < Len(parsed) \/ w = 0
       PROVE  InsideAt(s, next.todo, next.pos, h) /\ h \in Nat
  <2>1. CASE p < Len(parsed)
    <3>1. next.pos = p + 1
      BY <1>16, <2>1 DEF Advance
    <3> QED
      BY <1>2, <1>11, <1>12, <1>13, <1>16, <2>1, <3>1, InsideMoves DEF type
  <2>2. CASE ~(p < Len(parsed))
    <3>1. next.pos = p /\ h = g
      BY <1>6, <1>13, <1>16, <2>2 DEF Advance
    <3> QED
      BY <1>10, <1>11, <1>12, <1>16, <3>1, InsideStays
  <2> QED
    BY <2>1, <2>2
<1>17. CASE do.op = "expect"
  <2>1. w = Turn(type) /\ type # "EOF" /\ g >= 1
    BY <1>4, <1>5, <1>7, <1>17
  <2>2. w \in {-1, 0, 1} /\ p < Len(parsed) /\ Turn(type) <= w
    BY <1>6, <2>1 DEF Turn
  <2> QED
    BY <1>7, <1>16, <1>17, <2>1, <2>2
<1>18. CASE do.op \in {"skip", "name", "leaf"}
  <2>1. w = 0 /\ g >= 1
    BY <1>4, <1>5, <1>18
  <2>2. Turn(type) <= w
    BY <1>8, <1>9, <1>18, <2>1 DEF Turn
  <2> QED
    BY <1>7, <1>16, <1>18, <2>1, <2>2
<1>19. CASE do.op = "end"
  <2>1. h = g
    BY <1>4, <1>13, <1>19
  <2> QED
    BY <1>7, <1>10, <1>11, <1>12, <1>19, <2>1, InsideStays
<1>20. CASE do.op = "node"
  <2>1. do.kind \in Inner /\ w = NodeTurn(do.kind) /\ g >= 1
    BY <1>4, <1>5, <1>20
  <2>2. /\ Fits(0, Row(do.kind), 0, w) /\ w \in {-1, 0}
        /\ do.kind \in {"StructInstance", "Condition"} => Sees(Row(do.kind))
    BY <2>1, InnerRows DEF NodeTurn
  <2>3. do.kind \notin {"StructInstance", "Condition"} => Turn(type) = 0
    BY <1>1, <1>2, <1>20 DEF Blind, type
  <2> DEFINE row == Row(do.kind)
  <2>4. row # <<>> /\ Blind(row[1]) => Turn(type) = 0
    BY <2>2, <2>3 DEF Sees
  <2>5. next.pos = p /\ next.todo = row \o <<End>> \o rest
    BY <1>7, <1>20
  <2>6. Fits(0, row, 0, w)
    BY <2>2
  <2> HIDE DEF row
  <2> QED
    BY <1>15, <2>1, <2>2, <2>4, <2>5, <2>6
<1>21. CASE do.op = "when"
  <2>1. g >= 1 /\ next.pos = p
    BY <1>5, <1>7, <1>21
  <2>2. CASE Heads(parsed, p, do) /\ next.todo = do.then \o rest
    <3> DEFINE row == do.then
    <3>1. Fits(0, row, 0, w) /\ (Sees(row) \/ NoBracket(do.types))
      BY <1>4, <1>21
    <3>2. NoBracket(do.types) => Turn(type) = 0
      BY <1>6, <2>2, WordsAreNoBrackets DEF type
    <3>3. row # <<>> /\ Blind(row[1]) => Turn(type) = 0
      BY <3>1, <3>2 DEF Sees
    <3>4. next.todo = row \o rest
      BY <2>2
    <3> HIDE DEF row
    <3> QED
      BY <1>14, <2>1, <3>1, <3>3, <3>4
  <2>3. CASE next.todo = do.else \o rest
    <3> DEFINE row == do.else
    <3>1. Fits(0, row, 0, w) /\ Sees(row) /\ next.todo = row \o rest
      BY <1>4, <1>21, <2>3
    <3>2. row # <<>> /\ Blind(row[1]) => Turn(type) = 0
      BY <3>1 DEF Sees
    <3> HIDE DEF row
    <3> QED
      BY <1>14, <2>1, <3>1, <3>2
  <2> QED
    BY <1>7, <1>21, <2>2, <2>3
<1>22. CASE do.op = "until"
  <2>1. g >= 1 /\ next.pos = p /\ w = 0 /\ h = g
    BY <1>4, <1>5, <1>7, <1>13, <1>22
  <2>2. CASE next.todo = rest
    BY <1>10, <1>11, <1>12, <2>1, <2>2, InsideStays
  <2>3. CASE next.todo = do.body \o m.todo
    <3> DEFINE body == do.body
               todo == m.todo
    <3>1. Fits(0, body, 0, 0) /\ Sees(body) /\ next.todo = body \o todo
      BY <1>4, <1>22, <2>3
    <3>2. Sees(todo)
      BY <1>2, <1>22 DEF Sees, Blind
    <3>3. Fits(1, todo, g, 0) /\ 0 \in Int
      BY <1>1
    <3> HIDE DEF body, todo
    <3>4. /\ Fits(1, body \o todo, g, 0)
          /\ body \o todo # <<>> /\ Blind((body \o todo)[1]) => body # <<>> /\ Blind(body[1])
      BY <1>11, <2>1, <3>1, <3>2, <3>3, RowBefore
    <3>5. ~(body # <<>> /\ Blind(body[1]))
      BY <3>1 DEF Sees
    <3> QED
      BY <1>12, <2>1, <3>1, <3>4, <3>5, InsideStays
  <2> QED
    BY <1>7, <1>22, <2>2, <2>3
<1>23. CASE do.op = "statement"
  <2>1. PICK kind \in StatementKinds : next.todo = Row(kind) \o <<End>> \o rest
    BY <1>7, <1>23
  <2>2. g >= 1 /\ next.pos = p /\ Turn(type) = 0 /\ w = 0
    BY <1>4, <1>5, <1>7, <1>23, StatementTurns
  <2> DEFINE row == Row(kind)
  <2>3. Fits(0, row, 0, w) /\ w \in {-1, 0}
    <3>1. -1 + 1 = 0
      OBVIOUS
    <3> QED
      BY <2>2, <3>1, StatementRows, ItemFits
  <2>4. next.todo = row \o <<End>> \o rest
    BY <2>1
  <2> HIDE DEF row
  <2> QED
    BY <1>15, <2>2, <2>3, <2>4
<1> QED
  BY <1>4, <1>17, <1>18, <1>19, <1>20, <1>21, <1>22, <1>23

\* From its word to its end, an item without a fault.
LEMMA ItemStep ==
  ASSUME TokensKnown, NEW m, DOMAIN m = ParserFields, IsSeq(m.out), IsSeq(m.errs), m.todo # <<>>,
         NEW s \in 1 .. Len(parsed), m.pos \in s .. Len(parsed), OnItem(m, s),
         Faultless(Step(m, parsed))
  PROVE  OnItem(Step(m, parsed), s)
<1> DEFINE do == Head(m.todo)
           rest == Tail(m.todo)
           next == Step(m, parsed)
           p == m.pos
           type == parsed[p].type
           n == Len(parsed)
<1>1. /\ n \in Nat /\ s \in Nat /\ s >= 1 /\ p \in 1 .. n /\ p \in Nat
      /\ (type = "EOF" <=> p = n)
  BY LenIsNat DEF TokensKnown
<1>2. /\ do.op = "expect" => type = do.type /\ next.pos = Advance(parsed, p) /\ next.todo = rest
      /\ do.op \in {"skip", "name", "leaf"} => next.pos = Advance(parsed, p) /\ next.todo = rest
      /\ do.op = "statement" =>
           /\ next.pos = p /\ type \in DOMAIN StatementOf \union {"++", "--"}
           /\ \E kind \in StatementKinds : next.todo = Row(kind) \o <<End>> \o rest
  BY StepIs
<1>3. CASE m.todo = <<Statement>> /\ p = s
  <2>1. do = Statement /\ rest = <<>>
    BY <1>3
  <2>2. do.op = "statement"
    BY <2>1 DEF Statement
  <2>3. PICK kind \in StatementKinds : next.todo = Row(kind) \o <<End>> \o rest
    BY <1>2, <2>2
  <2>4. next.pos = s /\ Turn(parsed[s].type) = 0 /\ s < n
    BY <1>1, <1>2, <1>3, <2>2, StatementTurns
  <2> DEFINE row == Row(kind)
             t == <<End>>
             e == <<>>
  <2>5. Item(row, -1)
    BY StatementRows
  <2>6. Fits(0, t, -1, -1) /\ Sees(t) /\ Fits(0, e, -1, -1) /\ Sees(e)
    <3>1. 0 \in Int /\ -1 \in Int /\ -1 = -1 + 0 /\ -1 = 0 - 1
      OBVIOUS
    <3>2. Fits(0, t, -1, -1)
      BY <3>1, ElementsTurn, FitsOne
    <3>3. Sees(t)
      BY WhoSees DEF Sees
    <3> QED
      BY <3>1, <3>2, <3>3, FitsNone
  <2>7. next.todo = (row \o t) \o e
    BY <2>1, <2>3
  <2> HIDE DEF row, t, e
  <2>8. Item((row \o t) \o e, -1)
    BY <2>5, <2>6, ItemConcat
  <2> QED
    BY <2>4, <2>7, <2>8 DEF OnItem
<1>4. CASE Item(m.todo, -1) /\ p = s /\ s < n /\ Turn(parsed[s].type) = 0
  <2>1. /\ do = Skip /\ IsSeq(rest) /\ rest # <<>> /\ Opening(Head(rest))
        /\ Fits(0, Tail(rest), 0, -1) /\ Sees(Tail(rest))
    BY <1>4 DEF Item
  <2>2. do.op = "skip"
    BY <2>1 DEF Skip
  <2>3. next.pos = s + 1 /\ next.todo = rest
    BY <1>1, <1>2, <1>4, <2>2 DEF Advance
  <2> HIDE DEF next, rest
  <2>4. OnItem(next, s)
    BY <1>4, <2>1, <2>3 DEF OnItem
  <2> QED
    BY <2>4 DEF next
<1>5. CASE /\ IsSeq(m.todo) /\ m.todo # <<>> /\ Opening(do)
           /\ Fits(0, rest, 0, -1) /\ Sees(rest)
           /\ p = s + 1 /\ Turn(parsed[s].type) = 0
  <2>1. PICK o \in OpenTypes : do = Expect(o)
    BY <1>5 DEF Opening
  <2>2. do.op = "expect" /\ do.type = o
    BY <2>1 DEF Expect
  <2>3. type = o /\ next.pos = Advance(parsed, p) /\ next.todo = rest
    BY <1>2, <2>2
  <2>4. o # "EOF" /\ Turn(o) = 1
    BY DEF OpenTypes, Turn
  <2>5. next.pos = s + 2 /\ s + 2 \in s + 2 .. n
    <3>1. s + 1 < n
      BY <1>1, <1>5, <2>3, <2>4
    <3> QED
      BY <1>1, <1>5, <2>3, <3>1 DEF Advance
  <2>6. Fits(1, rest, 1, 0)
    <3>1. 1 <= 0 + 1 /\ 1 = 0 + 1 /\ 0 = -1 + 1 /\ 0 \in Int /\ 1 \in Int
      OBVIOUS
    <3> QED
      BY <1>5, <3>1, FitsShift
  <2>7. Turn(parsed[s + 1].type) = 1
    BY <1>5, <2>3, <2>4
  <2>8. Balance(s, s + 1) = 1
    <3>1. Balance(s, s) = 0
      BY <1>1, <1>5, BalanceFew
    <3>2. s + 1 \in Int /\ s <= s + 1 /\ (s + 1) - 1 = s
      BY <1>1
    <3> QED
      BY <2>7, <3>1, <3>2, BalanceNext
  <2> HIDE DEF next, rest
  <2>9. rest # <<>> => ~Blind(rest[1])
    BY <1>5 DEF Sees
  <2>10. (s + 2) - 1 = s + 1 /\ s + 1 .. (s + 2) - 2 = {} /\ 1 # 0
    BY <1>1
  <2>11. InsideAt(s, rest, s + 2, 1)
    BY <1>5, <2>5, <2>6, <2>7, <2>8, <2>9, <2>10 DEF InsideAt
  <2>12. OnItem(next, s)
    BY <2>3, <2>5, <2>11 DEF OnItem
  <2> QED
    BY <2>12 DEF next
<1>6. CASE \E g \in Nat : InsideAt(s, m.todo, p, g)
  <2>1. PICK g \in Nat : InsideAt(s, m.todo, m.pos, g)
    BY <1>6
  <2>2. \E k \in Nat : InsideAt(s, next.todo, next.pos, k)
    BY <1>1, <2>1, InsideStep
  <2> HIDE DEF next
  <2>3. OnItem(next, s)
    BY <2>2 DEF OnItem
  <2> QED
    BY <2>3 DEF next
<1> QED
  BY <1>3, <1>4, <1>5, <1>6 DEF OnItem

\* At its end the count is back, or below what it was.
LEMMA ItemDone ==
  ASSUME TokensKnown, NEW m, m.todo = <<>>, NEW s \in Nat, OnItem(m, s)
  PROVE  /\ m.pos \in s + 2 .. Len(parsed) /\ Turn(parsed[s].type) = 0 /\ Turn(parsed[s + 1].type) = 1
         /\ Balance(s, m.pos - 1) \in Int
         /\ m.pos = skipTopLevel(s) \/ Balance(s, m.pos - 1) < 0
<1> DEFINE p == m.pos
           b == Balance(s, p - 1)
<1>1. ~Item(m.todo, -1) /\ m.todo # <<Statement>>
  BY DEF Item
<1>2. PICK g \in Nat : InsideAt(s, m.todo, p, g)
  BY <1>1 DEF OnItem
<1>3. g = 0
  <2>1. Fits(1, <<>>, g, 0) /\ Len(<<>>) = 0
    BY <1>2 DEF InsideAt
  <2> QED
    BY <2>1 DEF Fits
<1>4. /\ p \in s + 2 .. Len(parsed) /\ Turn(parsed[s].type) = 0 /\ Turn(parsed[s + 1].type) = 1
      /\ b <= 0
      /\ b = 0 => (\A q \in s + 1 .. p - 2 : Balance(s, q) >= 1) /\ parsed[p - 1].type \in CloseTypes
  BY <1>2, <1>3 DEF InsideAt
<1>5. p \in Nat /\ Len(parsed) \in Nat /\ p - 1 \in Nat /\ p - 1 \in s .. Len(parsed) - 1
  BY <1>4, LenIsNat DEF TokensKnown
<1>6. b \in Int
  <2> DEFINE x == p - 1
  <2>1. x \in Int /\ s <= x
    BY <1>5
  <2> HIDE DEF x
  <2>2. Balance(s, x) \in Int
    BY <2>1, BalanceNext
  <2> QED
    BY <2>2 DEF x
<1>7. ASSUME b = 0 PROVE p = skipTopLevel(s)
  <2>1. p - 1 \in ItemEnds(s)
    BY <1>4, <1>5, <1>7, ItemEndsAre
  <2>2. PICK q \in ItemEnds(s) : skipTopLevel(s) = q + 1 /\ \A r \in ItemEnds(s) : q <= r
    BY <2>1, skipTopLevelFinds
  <2>3. q \in s .. Len(parsed) - 1 /\ parsed[q].type \in CloseTypes /\ Balance(s, q) = 0 /\ q <= p - 1
    BY <2>1, <2>2, ItemEndsAre
  <2>4. q # s
    BY <1>4, <2>3, TurnIs
  <2>5. q \notin s + 1 .. p - 2
    BY <1>4, <1>7, <2>3
  <2>6. q = p - 1
    BY <1>5, <2>3, <2>4, <2>5
  <2> QED
    BY <1>5, <2>2, <2>6
<1> HIDE DEF b
<1> QED
  BY <1>4, <1>6, <1>7 DEF b

\* If more was closed than opened, the item has ended before.
LEMMA ItemShort ==
  ASSUME TokensKnown, NEW s \in Nat, Turn(parsed[s].type) = 0, Turn(parsed[s + 1].type) = 1,
         NEW e \in Nat, s < e, e <= Len(parsed), Balance(s, e - 1) < 0
  PROVE  LET t == skipTopLevel(s)
         IN  t \in Nat /\ t <= e - 1 /\ Balance(t, e - 1) < 0
<1> DEFINE T == {q \in s + 1 .. e - 1 : Balance(s, q) <= 0}
<1>1. Balance(s, s) = 0 /\ Balance(s, s + 1) = 1
  <2>1. Balance(s, s) = 0
    BY BalanceFew
  <2>2. s + 1 \in Int /\ s <= s + 1 /\ (s + 1) - 1 = s
    OBVIOUS
  <2> QED
    BY <2>1, <2>2, BalanceNext
<1>2. e - 1 >= s + 2 /\ Len(parsed) \in Nat
  <2>1. Balance(s, e - 1) # 0 /\ Balance(s, e - 1) # 1
    OBVIOUS
  <2>2. e - 1 # s /\ e - 1 # s + 1
    BY <1>1, <2>1
  <2> QED
    BY <2>2, LenIsNat DEF TokensKnown
<1>3. T \in SUBSET Nat /\ e - 1 \in T
  <2> DEFINE x == e - 1
  <2>1. x \in Int /\ s <= x /\ x \in s + 1 .. x /\ Balance(s, x) < 0
    BY <1>2
  <2>2. T = {q \in s + 1 .. x : Balance(s, q) <= 0}
    OBVIOUS
  <2> HIDE DEF x
  <2>3. Balance(s, x) \in Int
    BY <2>1, BalanceNext
  <2>4. Balance(s, x) <= 0
    BY <2>1, <2>3
  <2>5. x \in T
    BY <2>1, <2>2, <2>4
  <2> QED
    BY <2>5 DEF x
<1>4. PICK q \in T : \A k \in T : q <= k
  BY <1>3, LeastNumber
<1>5. q \in s + 1 .. e - 1 /\ Balance(s, q) <= 0 /\ q # s + 1
  BY <1>1, <1>4
<1>6. q \in Nat /\ s <= q /\ q >= s + 2 /\ q - 1 \in s + 1 .. e - 1 /\ ~(q <= q - 1)
  BY <1>5
<1> HIDE DEF T
<1>7. ~(Balance(s, q - 1) <= 0)
  BY <1>4, <1>6 DEF T
<1> DEFINE b == Balance(s, q)
           a == Balance(s, q - 1)
           d == Turn(parsed[q].type)
<1>8. b \in Int /\ a \in Int /\ b = a + d /\ d \in {-1, 0, 1}
  BY <1>6, BalanceNext
<1>9. b <= 0 /\ ~(a <= 0)
  BY <1>5, <1>7
<1> HIDE DEF b, a
<1>10. b = 0 /\ d = -1
  BY <1>8, <1>9
<1>11. q # e - 1
  BY <1>10 DEF b
<1>12. q \in ItemEnds(s)
  <2>1. parsed[q].type \in CloseTypes
    BY <1>10, TurnIs
  <2>2. q \in s .. Len(parsed) - 1
    BY <1>2, <1>5
  <2> QED
    BY <1>10, <2>1, <2>2, ItemEndsAre DEF b
<1>13. PICK r \in ItemEnds(s) : skipTopLevel(s) = r + 1 /\ \A k \in ItemEnds(s) : r <= k
  BY <1>12, skipTopLevelFinds
<1>14. r \in s .. Len(parsed) - 1 /\ Balance(s, r) = 0 /\ r <= q
  BY <1>12, <1>13, ItemEndsAre
<1>15. r \in Nat /\ r + 1 \in Nat /\ r + 1 <= e - 1 /\ r <= e - 1 /\ s - 1 <= r /\ e - 1 \in Int
  BY <1>2, <1>5, <1>11, <1>14
<1>16. Balance(r + 1, e - 1) \in Int /\ Balance(s, e - 1) = Balance(s, r) + Balance(r + 1, e - 1)
  <2> DEFINE x == e - 1
  <2>1. s \in Int /\ r \in Int /\ x \in Int /\ s - 1 <= r /\ r <= x
    BY <1>15
  <2> HIDE DEF x
  <2>2. Balance(r + 1, x) \in Int /\ Balance(s, x) = Balance(s, r) + Balance(r + 1, x)
    BY <2>1, BalanceSplit, ZenonT(40)
  <2> QED
    BY <2>2 DEF x
<1>17. Balance(r + 1, e - 1) < 0
  BY <1>14, <1>16
<1> QED
  BY <1>13, <1>15, <1>17

(***************************************************************************)
(* The items of a text.                                                    *)
(***************************************************************************)
\* What is said of the tokens stays while they do.
LEMMA BalanceStays ==
  ASSUME parsed' = parsed, NEW p, NEW q
  PROVE  Balance(p, q)' = Balance(p, q)
<1>1. ASSUME NEW types PROVE Count(p, q, types)' = Count(p, q, types)
  <2>1. {i \in p .. q : parsed'[i].type \in types} = {i \in p .. q : parsed[i].type \in types}
    OBVIOUS
  <2> QED
    BY <2>1 DEF Count
<1>2. /\ Balance(p, q) = Count(p, q, OpenTypes) - Count(p, q, CloseTypes)
      /\ Balance(p, q)' = Count(p, q, OpenTypes)' - Count(p, q, CloseTypes)'
  BY Zenon DEF Balance, OpenTypes, CloseTypes
<1>3. /\ Count(p, q, OpenTypes)' = Count(p, q, OpenTypes)
      /\ Count(p, q, CloseTypes)' = Count(p, q, CloseTypes)
  BY <1>1
<1> QED
  BY <1>2, <1>3

LEMMA SkipStays ==
  ASSUME parsed' = parsed, NEW p
  PROVE  skipTopLevel(p)' = skipTopLevel(p)
<1>1. \A q : Balance(p, q)' = Balance(p, q)
  BY BalanceStays
<1>2. ItemEnds(p)' = ItemEnds(p)
  BY <1>1 DEF ItemEnds
<1> QED
  BY <1>2 DEF skipTopLevel

LEMMA ParsedStays ==
  ASSUME parsed' = parsed
  PROVE  /\ TokensKnown' <=> TokensKnown
         /\ \A m, s : OnItem(m, s)' <=> OnItem(m, s)
         /\ \A m : Faultless(m)' <=> Faultless(m)
<1>1. TokensKnown' <=> TokensKnown
  BY DEF TokensKnown
<1>2. \A m : Faultless(m)' <=> Faultless(m)
  BY DEF Faultless, Opener
<1>3. \A p, q : Balance(p, q)' = Balance(p, q)
  BY BalanceStays
<1>4. ASSUME NEW s, NEW todo, NEW p, NEW g
      PROVE  InsideAt(s, todo, p, g)' <=> InsideAt(s, todo, p, g)
  BY <1>3 DEF InsideAt
<1>5. ASSUME NEW m, NEW s
      PROVE  OnItem(m, s)' <=> OnItem(m, s)
  BY <1>4 DEF OnItem
<1> QED
  BY <1>1, <1>2, <1>5

\* The inductive invariant, beside OrderInv and MergeInv. No token before the last is an
\* EOF; skipTopLevel leads from one item to the next, and from the last one to the EOF;
\* and the parser of an item without a fault is somewhere in it.
EndIsLast == stage = "lex" => \A k \in 1 .. Len(tokens) - 1 : tokens[k].type # "EOF"
KnownAfter == stage # "lex" => TokensKnown
ExplainedFirst == starts # <<>> => main.todo = <<>>
Follows(i) ==
  \A s : s = starts[i] => skipTopLevel(s) = IF i = Len(starts) THEN main.pos ELSE starts[i + 1]
StartsFollow == \A i \in Items : Follows(i)
AllSplit == Begun => parsed[main.pos].type = "EOF"
ItemKnown(i) == \A m, s : m = sub[i] /\ s = starts[i] /\ Faultless(m) => OnItem(m, s)
ItemsKnown == Begun => \A i \in Items : ItemKnown(i)

WholeInv ==
  EndIsLast /\ KnownAfter /\ ExplainedFirst /\ StartsFollow /\ AllSplit /\ ItemsKnown

\* It holds the property up: an item that is parsed beyond its end, or not to it, would
\* leave brackets over that a later one has to close, and the last one cannot.
LEMMA ItemsEnd ==
  ASSUME WholeInv, OrderInv, MergeInv, Begun, NEW n, n = Len(starts),
         \A i \in Items : sub[i].todo = <<>> /\ Faultless(sub[i]),
         NEW i \in Items
  PROVE  sub[i].pos = IF i = n THEN Len(parsed) ELSE starts[i + 1]
<1>1. TokensKnown /\ IsSeq(starts) /\ n \in Nat /\ Items = 1 .. n /\ Len(parsed) \in Nat
  <2>1. TokensKnown
    BY DEF WholeInv, KnownAfter, Begun
  <2>2. IsSeq(starts)
    BY DEF MergeInv, ListsAre
  <2> QED
    BY <2>1, <2>2, LenIsNat DEF Items, TokensKnown
<1>2. main.pos = Len(parsed)
  BY <1>1 DEF WholeInv, AllSplit, OrderInv, TokensEnd, TokensKnown, Begun
<1>3. \A j \in 1 .. n : starts[j] \in Nat
  BY <1>1 DEF OrderInv, StartsRise
<1>4. \A j \in 1 .. n : skipTopLevel(starts[j]) = IF j = n THEN Len(parsed) ELSE starts[j + 1]
  BY <1>1, <1>2, Zenon DEF WholeInv, StartsFollow, Follows
<1>5. ASSUME NEW j \in 1 .. n
      PROVE  LET s == starts[j]
                 e == sub[j].pos
             IN  /\ e \in s + 2 .. Len(parsed) /\ Turn(parsed[s].type) = 0 /\ Turn(parsed[s + 1].type) = 1
                 /\ Balance(s, e - 1) \in Int
                 /\ e = skipTopLevel(s) \/ Balance(s, e - 1) < 0
  <2>1. OnItem(sub[j], starts[j])
    BY <1>1 DEF WholeInv, ItemsKnown, ItemKnown
  <2> QED
    BY <1>1, <1>3, <2>1, ItemDone
<1> DEFINE e == sub[i].pos
           T == {k \in Nat : k <= n - i /\ starts[n - k] <= e - 1 /\ Balance(starts[n - k], e - 1) < 0}
<1>6. e \in Nat /\ e <= Len(parsed) /\ starts[i] <= e - 1
  BY <1>1, <1>3, <1>5
<1> HIDE DEF e
<1>7. ASSUME Balance(starts[i], e - 1) < 0 PROVE FALSE
  <2>1. n - i \in Nat /\ n - (n - i) = i
    BY <1>1
  <2>2. T \in SUBSET Nat /\ n - i \in T
    BY <1>6, <1>7, <2>1
  <2>3. PICK k \in T : \A l \in T : k <= l
    BY <2>2, LeastNumber
  <2> DEFINE j == n - k
             s == starts[j]
             t == skipTopLevel(s)
  <2>4. /\ k \in Nat /\ k <= n - i /\ j \in 1 .. n /\ s <= e - 1 /\ Balance(s, e - 1) < 0
        /\ s \in Nat /\ s < e
    BY <1>1, <1>3, <1>6, <2>3
  <2>5. Turn(parsed[s].type) = 0 /\ Turn(parsed[s + 1].type) = 1
    BY <1>5, <2>4
  <2>6. t = IF j = n THEN Len(parsed) ELSE starts[j + 1]
    BY <1>4, <2>4
  <2> HIDE DEF j, s
  <2>7. t \in Nat /\ t <= e - 1 /\ Balance(t, e - 1) < 0
    BY <1>1, <1>6, <2>4, <2>5, ItemShort
  <2> HIDE DEF t
  <2>8. j # n
    BY <1>1, <1>6, <2>6, <2>7
  <2>9. k - 1 \in Nat /\ k - 1 <= n - i /\ n - (k - 1) = j + 1
    <3>1. n \in Nat /\ i \in Nat /\ k \in Nat /\ k <= n - i /\ n - k # n
      BY <1>1, <2>4, <2>8 DEF j
    <3> QED
      BY <3>1 DEF j
  <2>10. k - 1 \in T
    BY <2>6, <2>7, <2>8, <2>9
  <2> QED
    BY <2>3, <2>4, <2>10
<1>8. e = skipTopLevel(starts[i])
  BY <1>1, <1>5, <1>7 DEF e
<1> QED
  BY <1>1, <1>4, <1>8 DEF e

\* A token is made while none is the EOF.
LEMMA TokenComes ==
  ASSUME NextToken
  PROVE  tokens' = tokens \/ (~Lexed /\ \E t : tokens' = Append(tokens, t))
<1>1. \A type, end : Emit(type, end) => tokens' = Append(tokens, Token(type, end))
  BY DEF Emit
<1>2. CASE SkipNewline \/ SkipBlanks \/ ReadUnknown
  BY <1>2 DEF SkipNewline, SkipBlanks, ReadUnknown
<1>3. CASE ReadMark
  BY <1>1, <1>3, Zenon DEF ReadMark, More
<1>4. CASE ReadString
  BY <1>1, <1>4, Zenon DEF ReadString, More
<1>5. CASE ReadNumber \/ ReadIdentOrKeyword
  BY <1>1, <1>5, Zenon DEF ReadNumber, ReadIdentOrKeyword, More
<1>6. CASE ReadEnd
  BY <1>1, <1>6, Zenon DEF ReadEnd
<1> QED
  BY <1>2, <1>3, <1>4, <1>5, <1>6 DEF NextToken

LEMMA LexKeepsWhole ==
  ASSUME WholeInv, OrderInv, LexInv, Lex
  PROVE  WholeInv'
<1>1. /\ stage = "lex" /\ stage' = stage /\ main' = main /\ starts' = starts /\ NextToken
      /\ starts = <<>>
  BY DEF Lex, parseVars, OrderInv, NothingYet
<1>2. ~Begun' /\ Items' = {}
  BY <1>1 DEF Begun, Items
<1>3. EndIsLast'
  <2>1. /\ IsSeq(tokens) /\ Len(tokens) \in Nat
        /\ \A k \in 1 .. Len(tokens) - 1 : tokens[k].type # "EOF"
    BY <1>1, LenIsNat DEF LexInv, TokensTrue, WholeInv, EndIsLast
  <2>2. CASE tokens' = tokens
    BY <2>1, <2>2 DEF EndIsLast
  <2>3. CASE ~Lexed /\ \E t : tokens' = Append(tokens, t)
    <3>1. PICK t : tokens' = Append(tokens, t)
      BY <2>3
    <3>2. /\ Len(tokens') = Len(tokens) + 1
          /\ \A k \in 1 .. Len(tokens) : tokens'[k] = tokens[k]
      BY <2>1, <3>1, AppendedTokens
    <3>3. Len(tokens) # 0 => tokens[Len(tokens)].type # "EOF"
      BY <2>1, <2>3, EmptySeq DEF Lexed
    <3>4. \A k \in 1 .. Len(tokens) : tokens[k].type # "EOF"
      BY <2>1, <3>3
    <3> QED
      BY <2>1, <3>2, <3>4 DEF EndIsLast
  <2> QED
    BY <1>1, <2>2, <2>3, TokenComes
<1> QED
  BY <1>1, <1>2, <1>3 DEF WholeInv, KnownAfter, ExplainedFirst, StartsFollow, AllSplit, ItemsKnown

LEMMA BeginParseKeepsWhole ==
  ASSUME WholeInv, OrderInv, LexInv, BeginParse, OrderInv'
  PROVE  WholeInv'
<1>1. /\ stage = "lex" /\ Lexed /\ stage' = "split" /\ starts' = starts /\ starts = <<>>
      /\ parsed' = [k \in DOMAIN tokens |-> parsed'[k]]
      /\ \A k \in DOMAIN tokens : /\ parsed'[k].type = tokens[k].type
                                  /\ parsed'[k].word # "none" => parsed'[k].type = "IDENT"
  BY DEF BeginParse, OrderInv, NothingYet
<1>2. ~Begun' /\ Items' = {} /\ stage' # "lex"
  BY <1>1 DEF Begun, Items
<1>3. /\ IsSeq(tokens) /\ Len(tokens) \in Nat /\ DOMAIN tokens = 1 .. Len(tokens)
      /\ \A k \in 1 .. Len(tokens) - 1 : tokens[k].type # "EOF"
      /\ tokens[Len(tokens)].type = "EOF"
  BY <1>1, LenIsNat DEF LexInv, TokensTrue, WholeInv, EndIsLast, Lexed
<1>4. IsSeq(parsed)' /\ Len(parsed') >= 1
  BY <1>2 DEF OrderInv, TokensEnd
<1>5. Len(parsed') = Len(tokens)
  BY <1>1, <1>3, <1>4, LenIsNat DEF IsSeq
<1>6. ASSUME NEW k \in 1 .. Len(parsed')
      PROVE  /\ parsed'[k].type = "EOF" <=> k = Len(parsed')
             /\ parsed'[k].word # "none" => parsed'[k].type = "IDENT"
  BY <1>1, <1>3, <1>5
<1>7. TokensKnown'
  BY <1>4, <1>6 DEF TokensKnown
<1> QED
  BY <1>1, <1>2, <1>7 DEF WholeInv, EndIsLast, KnownAfter, ExplainedFirst, StartsFollow, AllSplit, ItemsKnown

LEMMA ParseExplanationKeepsWhole ==
  ASSUME WholeInv, OrderInv, ParseExplanation
  PROVE  WholeInv'
<1>1. /\ stage = "split" /\ stage' = stage /\ parsed' = parsed /\ starts' = starts
      /\ main.todo # <<>>
  BY DEF ParseExplanation
<1>2. starts = <<>> /\ TokensKnown
  BY <1>1 DEF WholeInv, ExplainedFirst, KnownAfter
<1>3. ~Begun' /\ Items' = {} /\ stage' # "lex" /\ TokensKnown'
  BY <1>1, <1>2, ParsedStays DEF Begun, Items
<1> QED
  BY <1>1, <1>2, <1>3 DEF WholeInv, EndIsLast, KnownAfter, ExplainedFirst, StartsFollow, AllSplit, ItemsKnown

\* The new item follows those before.
LEMMA SplitItemKeepsWhole ==
  ASSUME WholeInv, OrderInv, MergeInv, SplitItem
  PROVE  WholeInv'
<1> DEFINE n == Len(starts)
           q == skipTopLevel(main.pos)
<1>1. /\ stage = "split" /\ stage' = stage /\ parsed' = parsed /\ main.todo = <<>>
      /\ starts' = Append(starts, main.pos) /\ main' = [main EXCEPT !.pos = q]
  BY DEF SplitItem
<1>2. DOMAIN main = ParserFields
  BY DEF OrderInv, MainIs
<1>3. main'.todo = <<>> /\ main'.pos = q
  BY <1>1, <1>2 DEF ParserFields
<1>4. /\ Items = 1 .. n /\ Items' = 1 .. n + 1 /\ n \in Nat /\ Len(starts') = n + 1
      /\ starts'[n + 1] = main.pos /\ \A k \in 1 .. n : starts'[k] = starts[k]
  <2>1. IsSeq(starts)
    BY DEF MergeInv, ListsAre
  <2>2. IsSeq(starts')
    BY <1>1, <2>1, AppendIsSeq
  <2> QED
    BY <1>1, <2>1, <2>2, AppendedTokens, LenIsNat DEF Items
<1>5. \A p : skipTopLevel(p)' = skipTopLevel(p)
  BY <1>1, SkipStays
<1> HIDE DEF n, q
<1>6. ASSUME NEW i \in 1 .. n + 1, NEW s, s = starts'[i]
      PROVE  skipTopLevel(s) = IF i = n + 1 THEN q ELSE starts'[i + 1]
  <2>1. CASE i = n + 1
    BY <1>4, <1>6, <2>1 DEF q
  <2>2. CASE i \in 1 .. n
    <3>1. skipTopLevel(s) = IF i = n THEN main.pos ELSE starts[i + 1]
      BY <1>4, <1>6, <2>2 DEF WholeInv, StartsFollow, Follows, n
    <3>2. i # n => i + 1 \in 1 .. n
      BY <1>4, <2>2
    <3> QED
      BY <1>4, <2>2, <3>1, <3>2
  <2> QED
    BY <1>4, <2>1, <2>2
<1>7. StartsFollow'
  <2>1. ASSUME NEW i \in Items', NEW s, s = starts'[i]
        PROVE  skipTopLevel(s)' = IF i = Len(starts') THEN main'.pos ELSE starts'[i + 1]
    BY <1>3, <1>4, <1>5, <1>6, <2>1
  <2> QED
    BY <2>1 DEF StartsFollow, Follows
<1>8. ~Begun' /\ stage' # "lex" /\ TokensKnown'
  BY <1>1, ParsedStays DEF Begun, WholeInv, KnownAfter
<1> QED
  BY <1>1, <1>3, <1>7, <1>8 DEF WholeInv, EndIsLast, KnownAfter, ExplainedFirst, AllSplit, ItemsKnown

\* What does not touch the items or their parsers.
LEMMA FollowStays ==
  ASSUME StartsFollow, parsed' = parsed, starts' = starts, main' = main
  PROVE  StartsFollow'
<1>1. \A p : skipTopLevel(p)' = skipTopLevel(p)
  BY SkipStays
<1>2. Items' = Items
  BY DEF Items
<1>3. ASSUME NEW i \in Items', NEW s, s = starts'[i]
      PROVE  skipTopLevel(s)' = IF i = Len(starts') THEN main'.pos ELSE starts'[i + 1]
  BY <1>1, <1>2, <1>3 DEF StartsFollow, Follows
<1> QED
  BY <1>3 DEF StartsFollow, Follows

LEMMA StartItemsKeepsWhole ==
  ASSUME WholeInv, OrderInv, StartItems
  PROVE  WholeInv'
<1>1. /\ stage = "split" /\ stage' = "items" /\ parsed' = parsed /\ starts' = starts /\ main' = main
      /\ main.todo = <<>> /\ parsed[main.pos].type = "EOF"
      /\ sub' = [i \in Items |-> NewParser(starts[i], <<Statement>>)]
  BY DEF StartItems
<1>2. stage' # "lex" /\ TokensKnown' /\ StartsFollow' /\ Items' = Items
  BY <1>1, ParsedStays, FollowStays DEF WholeInv, KnownAfter, Items
<1>3. ASSUME NEW i \in Items', NEW m, NEW s, m = sub'[i], s = starts'[i]
      PROVE  OnItem(m, s)'
  <2>1. m = NewParser(s, <<Statement>>)
    BY <1>1, <1>2, <1>3
  <2>2. m.todo = <<Statement>> /\ m.pos = s
    BY <2>1, NewParserFields
  <2>3. OnItem(m, s)
    BY <2>2 DEF OnItem
  <2> QED
    BY <1>1, <2>3, ParsedStays
<1>4. ItemsKnown'
  BY <1>3 DEF ItemsKnown, ItemKnown
<1> QED
  BY <1>1, <1>2, <1>4 DEF WholeInv, EndIsLast, KnownAfter, ExplainedFirst, AllSplit

\* A parser goes on in its item.
LEMMA ParseItemKeepsWhole ==
  ASSUME WholeInv, OrderInv, MergeInv, ParseItem
  PROVE  WholeInv'
<1>1. PICK j \in Items : sub[j].todo # <<>> /\ sub' = [sub EXCEPT ![j] = Step(sub[j], parsed)]
  BY DEF ParseItem
<1>2. /\ stage = "items" /\ stage' = stage /\ parsed' = parsed /\ starts' = starts /\ main' = main
  BY DEF ParseItem
<1>3. stage' # "lex" /\ TokensKnown' /\ StartsFollow' /\ Items' = Items /\ Begun /\ TokensKnown
  BY <1>2, ParsedStays, FollowStays DEF WholeInv, KnownAfter, Items, Begun
<1>4. \A i \in Items : sub'[i] = IF i = j THEN Step(sub[j], parsed) ELSE sub[i]
  BY <1>1, <1>3 DEF OrderInv, ItemParsers
<1>5. ASSUME NEW i \in Items', NEW m, NEW s, m = sub'[i], s = starts'[i], Faultless(m)'
      PROVE  OnItem(m, s)'
  <2>1. Faultless(m) /\ i \in Items /\ s = starts[i]
    BY <1>2, <1>3, <1>5, ParsedStays
  <2>2. CASE i # j
    <3>1. m = sub[i]
      BY <1>4, <1>5, <2>1, <2>2
    <3>2. OnItem(m, s)
      BY <1>3, <2>1, <3>1 DEF WholeInv, ItemsKnown, ItemKnown
    <3> QED
      BY <1>2, <3>2, ParsedStays
  <2>3. CASE i = j
    <3> DEFINE o == sub[j]
    <3>1. m = Step(o, parsed) /\ o.todo # <<>>
      BY <1>1, <1>4, <1>5, <2>1, <2>3
    <3>2. /\ DOMAIN o = ParserFields /\ IsSeq(o.out) /\ IsSeq(o.errs) /\ o.pos \in s .. Len(parsed)
          /\ s \in 1 .. Len(parsed)
      BY <1>3, <2>1, <2>3 DEF OrderInv, ItemParsers, ParserAt, StartsRise, MergeInv, SubsAre, IsParser
    <3>3. o = sub[j] /\ s = starts[j]
      BY <2>1, <2>3
    <3> HIDE DEF o
    <3>4. Faultless(o)
      BY <2>1, <3>1, <3>2, StaysFaultless
    <3>5. OnItem(o, s)
      BY <1>3, <3>3, <3>4 DEF WholeInv, ItemsKnown, ItemKnown
    <3>6. OnItem(m, s)
      BY <1>3, <2>1, <3>1, <3>2, <3>5, ItemStep
    <3> QED
      BY <1>2, <3>6, ParsedStays
  <2> QED
    BY <2>2, <2>3
<1>6. ItemsKnown'
  BY <1>5 DEF ItemsKnown, ItemKnown
<1> QED
  BY <1>2, <1>3, <1>6 DEF WholeInv, EndIsLast, ExplainedFirst, AllSplit, KnownAfter, Begun

\* Nothing else touches the tokens, the items or their parsers.
LEMMA OthersKeepWhole ==
  ASSUME WholeInv, stage # "lex" => stage' # "lex", stage = "lex" => UNCHANGED <<stage, tokens>>,
         UNCHANGED <<parsed, starts, main, sub, Begun>>
  PROVE  WholeInv'
<1>1. parsed' = parsed /\ starts' = starts /\ main' = main /\ sub' = sub /\ Begun' = Begun
  OBVIOUS
<1>2. StartsFollow' /\ Items' = Items
  BY <1>1, FollowStays DEF WholeInv, Items
<1>3. ASSUME Begun', NEW i \in Items', NEW m, NEW s, m = sub'[i], s = starts'[i], Faultless(m)'
      PROVE  OnItem(m, s)'
  <2>1. OnItem(m, s)
    BY <1>1, <1>2, <1>3, ParsedStays DEF WholeInv, ItemsKnown, ItemKnown
  <2> QED
    BY <1>1, <2>1, ParsedStays
<1>4. ItemsKnown'
  BY <1>3 DEF ItemsKnown, ItemKnown
<1>5. KnownAfter'
  BY <1>1, ParsedStays DEF WholeInv, KnownAfter
<1>6. EndIsLast'
  BY DEF WholeInv, EndIsLast
<1> QED
  BY <1>1, <1>2, <1>4, <1>5, <1>6 DEF WholeInv, ExplainedFirst, AllSplit

LEMMA WholeInvInit == InitSource => WholeInv
<1> SUFFICES ASSUME InitSource PROVE WholeInv
  OBVIOUS
<1>1. stage = "lex" /\ starts = <<>> /\ tokens = <<>>
  BY DEF InitSource, InitLexer
<1>2. ~Begun /\ Items = {} /\ Len(tokens) = 0
  BY <1>1 DEF Begun, Items
<1> QED
  BY <1>1, <1>2 DEF WholeInv, EndIsLast, KnownAfter, ExplainedFirst, StartsFollow, AllSplit, ItemsKnown

LEMMA WholeInvCorrect == SpecSource => []WholeInv
<1>1. WholeInv /\ OrderInv /\ MergeInv /\ LexInv /\ OrderInv' /\ [NextSource]_sourceVars => WholeInv'
  <2> SUFFICES ASSUME WholeInv, OrderInv, MergeInv, LexInv, OrderInv', [NextSource]_sourceVars
               PROVE  WholeInv'
    OBVIOUS
  <2>1. CASE UNCHANGED sourceVars
    <3>1. UNCHANGED <<stage, tokens, parsed, starts, main, sub>>
      BY <2>1 DEF sourceVars, parseVars, lexVars
    <3> QED
      BY <3>1, OthersKeepWhole DEF Begun
  <2>2. CASE \E i \in Items : Lock(i) \/ Unlock(i)
    <3>1. /\ UNCHANGED <<stage, parsed, starts, main, sub>> /\ stage # "lex"
      BY <2>2 DEF Lock, Unlock, Parsed, MergeInv, Exclusion, NotBegun, Begun
    <3> QED
      BY <3>1, OthersKeepWhole DEF Begun
  <2>3. CASE Wait
    <3>1. UNCHANGED <<parsed, starts, main, sub>> /\ stage = "items" /\ stage' = "done"
      BY <2>3 DEF Wait
    <3> QED
      BY <3>1, OthersKeepWhole DEF Begun
  <2> QED
    BY <2>1, <2>2, <2>3, LexKeepsWhole, BeginParseKeepsWhole, ParseExplanationKeepsWhole,
       SplitItemKeepsWhole, StartItemsKeepsWhole, ParseItemKeepsWhole DEF NextSource
<1> QED
  BY <1>1, WholeInvInit, OrderInvCorrect, LexInvCorrect, PTL DEF SpecSource

\* For every text: where the parsers report no error and take no opening bracket as a name,
\* the items that skipTopLevel cuts by counting brackets are those that the grammar reads,
\* each to its end and none beyond (skipTopLevel and parseStatement of parser.go).
THEOREM ItemsAreWholeCorrect == SpecSource => []ItemsAreWhole
<1>1. ASSUME WholeInv, OrderInv, MergeInv PROVE ItemsAreWhole
  <2> SUFFICES ASSUME Parsed, NEW i \in Items,
                      \A j \in Items : /\ sub[j].errs = <<>>
                                       /\ \A k \in DOMAIN sub[j].out : ~Opener(sub[j].out[k])
               PROVE  sub[i].pos = IF i = Len(starts) THEN Len(parsed) ELSE starts[i + 1]
    BY DEF ItemsAreWhole
  <2>1. Begun /\ \A j \in Items : sub[j].todo = <<>> /\ Faultless(sub[j])
    BY DEF Parsed, Begun, Faultless
  <2> QED
    BY <1>1, <2>1, ItemsEnd
<1> QED
  BY <1>1, WholeInvCorrect, OrderInvCorrect, PTL

=============================================================================
