--------------------------- MODULE LineInput_proofs ---------------------------
(***************************************************************************)
(* Proofs about LineInput for every value of the constants: the types and *)
(* the history size limit.                                                 *)
(***************************************************************************)
EXTENDS LineInput, SequenceTheorems, TLAPS

-----------------------------------------------------------------------------
(* Lemmas about the sequence operations the model is built from.          *)

\* Replacing the front of a non-empty sequence keeps its length and its
\* tail.
LEMMA ExceptFront ==
  ASSUME NEW S, NEW h \in Seq(S), Len(h) >= 1, NEW x \in S
  PROVE  LET g == [h EXCEPT ![1] = x]
         IN  /\ g \in Seq(S)
             /\ Len(g) = Len(h)
             /\ Tail(g) = Tail(h)
<1> DEFINE g == [h EXCEPT ![1] = x]
<1>1. g \in Seq(S) /\ Len(g) = Len(h)
  BY ExceptSeq
<1>2. Tail(g) \in Seq(S) /\ Tail(h) \in Seq(S)
  BY <1>1, HeadTailProperties
<1>3. Len(Tail(g)) = Len(Tail(h))
  BY <1>1, HeadTailProperties
<1>4. \A i \in 1 .. Len(Tail(g)) : Tail(g)[i] = Tail(h)[i]
  BY <1>1, <1>3, HeadTailProperties
<1> QED
  BY <1>2, <1>3, <1>4, SeqEqual

\* std::string::insert at a position within the string.
LEMMA InsertAtProps ==
  ASSUME NEW S, NEW s \in Seq(S), NEW i \in 1 .. Len(s) + 1, NEW e \in S
  PROVE  InsertAt(s, i, e) \in Seq(S) /\ Len(InsertAt(s, i, e)) = Len(s) + 1
<1>1. SubSeq(s, 1, i - 1) \in Seq(S) /\ Len(SubSeq(s, 1, i - 1)) = i - 1
  BY SubSeqProperties
<1>2. SubSeq(s, i, Len(s)) \in Seq(S) /\ Len(SubSeq(s, i, Len(s))) = Len(s) - i + 1
  BY SubSeqProperties
<1> DEFINE A == SubSeq(s, 1, i - 1) \o <<e>>
          B == SubSeq(s, i, Len(s))
<1>3. <<e>> \in Seq(S) /\ Len(<<e>>) = 1
  OBVIOUS
<1>4. A \in Seq(S) /\ Len(A) = i
  BY <1>1, <1>3, ConcatProperties
<1>5. A \o B \in Seq(S) /\ Len(A \o B) = Len(A) + Len(B)
  BY <1>2, <1>4, ConcatProperties
<1>6. InsertAt(s, i, e) = A \o B
  BY DEF InsertAt
<1>7. Len(A) + Len(B) = Len(s) + 1
  BY <1>2, <1>4
<1> QED
  BY <1>5, <1>6, <1>7

\* std::string::erase of a char within the string.
LEMMA RemoveAtProps ==
  ASSUME NEW S, NEW s \in Seq(S), NEW i \in 1 .. Len(s)
  PROVE  RemoveAt(s, i) \in Seq(S) /\ Len(RemoveAt(s, i)) = Len(s) - 1
<1>1. SubSeq(s, 1, i - 1) \in Seq(S) /\ Len(SubSeq(s, 1, i - 1)) = i - 1
  BY SubSeqProperties
<1>2. SubSeq(s, i + 1, Len(s)) \in Seq(S)
      /\ Len(SubSeq(s, i + 1, Len(s))) = Len(s) - i
  BY SubSeqProperties
<1> DEFINE A == SubSeq(s, 1, i - 1)
          B == SubSeq(s, i + 1, Len(s))
<1>3. A \o B \in Seq(S) /\ Len(A \o B) = Len(A) + Len(B)
  BY <1>1, <1>2, ConcatProperties
<1>4. RemoveAt(s, i) = A \o B
  BY DEF RemoveAt
<1>5. Len(s) \in Nat /\ i - 1 + (Len(s) - i) = Len(s) - 1
  BY LenProperties
<1>6. Len(A) + Len(B) = Len(s) - 1
  BY <1>1, <1>2, <1>5
<1> QED
  BY <1>3, <1>4, <1>6

\* std::string::resize to a length n: cut, or padded with a fill char.
LEMMA ResizeProps ==
  ASSUME NEW S, NEW s \in Seq(S), NEW n \in Nat, NEW x \in S
  PROVE  LET r == IF n <= Len(s) THEN SubSeq(s, 1, n)
                  ELSE s \o [i \in 1 .. (n - Len(s)) |-> x]
         IN  r \in Seq(S) /\ Len(r) = n
<1>1. CASE n <= Len(s)
  BY <1>1, SubSeqProperties
<1>2. CASE n > Len(s)
  <2>1. [i \in 1 .. (n - Len(s)) |-> x] \in Seq(S)
        /\ Len([i \in 1 .. (n - Len(s)) |-> x]) = n - Len(s)
    BY <1>2, IsASeq
  <2> QED
    BY <1>2, <2>1, ConcatProperties
<1> QED
  BY <1>1, <1>2

\* The history cut to a size limit is a history within the limit.
LEMMA TruncatedProps ==
  ASSUME NEW S, NEW h \in Seq(S), NEW n \in Nat
  PROVE  /\ Truncated(h, n) \in Seq(S)
         /\ n > 0 => Len(Truncated(h, n)) <= n
<1>1. CASE n > 0 /\ Len(h) > n
  BY <1>1, SubSeqProperties DEF Truncated
<1>2. CASE ~(n > 0 /\ Len(h) > n)
  BY <1>2 DEF Truncated
<1> QED
  BY <1>1, <1>2

-----------------------------------------------------------------------------
(* The inductive invariant.                                                *)

\* While a line is edited the history holds it, and the entry last
\* recalled is one of the history's.
Editing ==
  reading => 1 <= Len(history) /\ input_index < Len(history)

\* The inductive invariant.  TypeOK alone is not kept by the editing keys:
\* input = history[1] needs a non-empty history, and a recall reads
\* history[input_index + 1], so Editing is needed.
IInv == TypeOK /\ Editing /\ HistoryBounded

\* The line being edited is a line.
LEMMA InputFacts ==
  ASSUME IInv, reading
  PROVE  /\ input \in Lines
         /\ input \in Seq(Letters)
         /\ Len(input) \in 0 .. MaxLen
<1>1. input \in Lines
  BY DEF IInv, TypeOK, Editing, input
<1> QED
  BY <1>1, LenProperties, BoundsAssumption DEF Lines

\* Writing a line into the front keeps the history's shape behind it.
LEMMA SetInputShape ==
  ASSUME IInv, reading, NEW s \in Lines, SetInput(s)
  PROVE  /\ history' \in Seq(Lines)
         /\ Len(history') = Len(history)
         /\ Tail(history') = Tail(history)
BY ExceptFront DEF IInv, TypeOK, Editing, SetInput

\* A key that edits the line, moves the cursor or recalls an entry keeps
\* the invariant, given the shape of the new history, cursor and index.
LEMMA KeyStep ==
  ASSUME IInv, reading, reading',
         history' \in Seq(Lines),
         Len(history') = Len(history),
         Tail(history') = Tail(history),
         input_index' \in 0 .. Len(history) - 1,
         col' \in 0 .. MaxLen,
         ub' \in BOOLEAN,
         UNCHANGED <<history_size, eof>>
  PROVE  IInv'
BY DEF IInv, TypeOK, Editing, HistoryBounded

\* A key that only moves the cursor.
LEMMA CursorStep ==
  ASSUME IInv, reading, col' \in 0 .. MaxLen,
         UNCHANGED <<history, history_size, reading, input_index, eof, ub>>
  PROVE  IInv'
<1>1. input_index \in 0 .. Len(history) - 1
  BY DEF IInv, TypeOK, Editing
<1> QED
  BY <1>1, KeyStep DEF IInv, TypeOK

\* A key that writes a line into the front.
LEMMA EditStep ==
  ASSUME IInv, reading, NEW s \in Lines, SetInput(s),
         NEW j \in 0 .. Len(history) - 1, input_index' = j,
         NEW c \in 0 .. MaxLen, col' = c,
         UNCHANGED <<history_size, reading, eof, ub>>
  PROVE  IInv'
BY SetInputShape, KeyStep DEF IInv, TypeOK

\* The program starts in a state of the invariant.
LEMMA InitIInv == Init => IInv
<1> SUFFICES ASSUME Init PROVE IInv
  OBVIOUS
<1>1. <<>> \in Seq(Lines)
  BY EmptySeq
<1>2. TypeOK
  <2>1. history \in Seq(Lines)
    BY <1>1 DEF Init
  <2>2. col \in 0 .. MaxLen /\ input_index \in Nat
    BY BoundsAssumption DEF Init
  <2> QED
    BY <2>1, <2>2 DEF Init, TypeOK
<1> QED
  BY <1>2 DEF Init, IInv, Editing, HistoryBounded

\* An empty line is a line.
LEMMA EmptyLine == <<>> \in Lines
BY EmptySeq, BoundsAssumption DEF Lines

\* set_history_size and set_history, between calls of get_user_input.
LEMMA HistoryCallStep ==
  ASSUME IInv,
         \/ \E n \in Sizes : set_history_size(n)
         \/ \E h \in Histories : set_history(h)
  PROVE  IInv'
<1>1. history \in Seq(Lines) /\ history_size \in Nat
  BY BoundsAssumption DEF IInv, TypeOK
<1>2. CASE \E n \in Sizes : set_history_size(n)
  <2>1. PICK n \in Sizes : set_history_size(n)
    BY <1>2
  <2>2. n \in Nat
    BY BoundsAssumption
  <2>3. history' \in Seq(Lines) /\ (n > 0 => Len(history') <= n)
    BY <1>1, <2>1, <2>2, TruncatedProps DEF set_history_size
  <2> QED
    BY <2>1, <2>3
    DEF set_history_size, Idle, IInv, TypeOK, Editing, HistoryBounded
<1>3. CASE \E h \in Histories : set_history(h)
  <2>1. PICK h \in Histories : set_history(h)
    BY <1>3
  <2>2. h \in Seq(Lines)
    BY HistoriesAssumption
  <2>3. history' \in Seq(Lines)
        /\ (history_size > 0 => Len(history') <= history_size)
    BY <1>1, <2>1, <2>2, TruncatedProps DEF set_history
  <2> QED
    BY <2>1, <2>3
    DEF set_history, Idle, IInv, TypeOK, Editing, HistoryBounded
<1> QED
  BY <1>2, <1>3

\* get_user_input begins: the empty line goes to the front, and the oldest
\* entry is dropped when that passes the limit.
LEMMA BeginStep ==
  ASSUME IInv, Begin
  PROVE  IInv'
<1> DEFINE h == <<<<>>>> \o history
           h2 == IF history_size > 0 /\ Len(h) > history_size
                   THEN Front(h) ELSE h
<1>1. history \in Seq(Lines) /\ Len(history) \in Nat
      /\ history_size \in Nat
      /\ (history_size > 0 => Len(history) <= history_size)
  BY LenProperties, BoundsAssumption DEF IInv, TypeOK, HistoryBounded
<1>2. h \in Seq(Lines) /\ Len(h) = Len(history) + 1
  BY <1>1, EmptyLine, ConcatProperties
<1>3. h2 \in Seq(Lines) /\ Len(h2) >= 1
      /\ (history_size > 0 => Len(h2) <= history_size)
  <2>1. CASE history_size > 0 /\ Len(h) > history_size
    <3>1. Front(h) \in Seq(Lines) /\ Len(Front(h)) = Len(h) - 1
      BY <1>2, SubSeqProperties DEF Front
    <3> QED
      BY <1>1, <1>2, <2>1, <3>1
  <2>2. CASE ~(history_size > 0 /\ Len(h) > history_size)
    BY <1>1, <1>2, <2>2
  <2> QED
    BY <2>1, <2>2
<1>4. history' = h2
  BY DEF Begin
<1>5. TypeOK'
  BY <1>3, <1>4, BoundsAssumption DEF Begin, IInv, TypeOK
<1>6. Editing' /\ HistoryBounded'
  BY <1>3, <1>4 DEF Begin, Editing, HistoryBounded
<1> QED
  BY <1>5, <1>6 DEF IInv

\* An edit past the end of the string: the program is in undefined
\* behaviour, and the model leaves everything else as it was.
LEMMA UbStep ==
  ASSUME IInv, reading, ub' = TRUE,
         UNCHANGED <<history, col, history_size, reading, input_index, eof>>
  PROVE  IInv'
<1>1. input_index \in 0 .. Len(history) - 1 /\ col \in 0 .. MaxLen
  BY DEF IInv, TypeOK, Editing
<1> QED
  BY <1>1, KeyStep DEF IInv, TypeOK

\* Up, Down, Ctrl+P and Ctrl+N copy a stored entry into the line.
LEMMA RecallStep ==
  ASSUME IInv, HistoryOlder \/ HistoryNewer
  PROVE  IInv'
<1>1. reading /\ history \in Seq(Lines) /\ Len(history) \in Nat
      /\ 1 <= Len(history) /\ input_index \in 0 .. Len(history) - 1
      /\ col \in 0 .. MaxLen
  BY LenProperties DEF HistoryOlder, HistoryNewer, Key, IInv, TypeOK, Editing
<1>2. CASE HistoryOlder
  <2> DEFINE idx == min(input_index + 1, Len(history) - 1)
  <2>1. idx \in 0 .. Len(history) - 1
    BY <1>1 DEF min
  <2>2. history[idx + 1] \in Lines
    BY <1>1, <2>1
  <2> QED
    BY <1>1, <1>2, <2>1, <2>2, EditStep DEF HistoryOlder
<1>3. CASE HistoryNewer
  <2> DEFINE idx == max(input_index - 1, 0)
  <2>1. idx \in 0 .. Len(history) - 1
    BY <1>1 DEF max
  <2>2. history[idx + 1] \in Lines
    BY <1>1, <2>1
  <2> QED
    BY <1>1, <1>3, <2>1, <2>2, EditStep DEF HistoryNewer
<1> QED
  BY <1>2, <1>3

\* The cursor keys.
LEMMA CursorKeysStep ==
  ASSUME IInv, CursorForward \/ CursorBack \/ CursorHome \/ CursorEnd
  PROVE  IInv'
<1>1. reading
  BY DEF CursorForward, CursorBack, CursorHome, CursorEnd, Key
<1>2. Len(input) \in 0 .. MaxLen /\ col \in 0 .. MaxLen
  BY <1>1, InputFacts DEF IInv, TypeOK
<1>3. CASE CursorForward
  <2>1. col' \in 0 .. MaxLen
    BY <1>2, <1>3, BoundsAssumption DEF CursorForward, min
  <2>2. UNCHANGED <<history, history_size, reading, input_index, eof, ub>>
    BY <1>3 DEF CursorForward
  <2> QED
    BY <1>1, <2>1, <2>2, CursorStep
<1>4. CASE CursorBack
  <2>1. col' \in 0 .. MaxLen
    BY <1>2, <1>4, BoundsAssumption DEF CursorBack, max
  <2>2. UNCHANGED <<history, history_size, reading, input_index, eof, ub>>
    BY <1>4 DEF CursorBack
  <2> QED
    BY <1>1, <2>1, <2>2, CursorStep
<1>5. CASE CursorHome
  <2>1. col' \in 0 .. MaxLen
    BY <1>2, <1>5, BoundsAssumption DEF CursorHome
  <2>2. UNCHANGED <<history, history_size, reading, input_index, eof, ub>>
    BY <1>5 DEF CursorHome
  <2> QED
    BY <1>1, <2>1, <2>2, CursorStep
<1>6. CASE CursorEnd
  <2>1. col' \in 0 .. MaxLen
    BY <1>2, <1>6, BoundsAssumption DEF CursorEnd
  <2>2. UNCHANGED <<history, history_size, reading, input_index, eof, ub>>
    BY <1>6 DEF CursorEnd
  <2> QED
    BY <1>1, <2>1, <2>2, CursorStep
<1> QED
  BY <1>3, <1>4, <1>5, <1>6

\* Ctrl+K: the line cut, or padded with '\0', to the cursor.
LEMMA KillToEndStep ==
  ASSUME IInv, KillToEnd
  PROVE  IInv'
<1>1. reading /\ input \in Seq(Letters) /\ col \in 0 .. MaxLen
  BY InputFacts DEF KillToEnd, Key, IInv, TypeOK
<1> DEFINE r == IF col <= Len(input) THEN SubSeq(input, 1, col)
                ELSE input \o [i \in 1 .. (col - Len(input)) |-> NUL]
<1>2. r \in Seq(Letters) /\ Len(r) = col
  BY <1>1, ResizeProps DEF Letters
<1>3. r \in Lines
  BY <1>1, <1>2 DEF Lines
<1>4. input_index \in 0 .. Len(history) - 1
  BY <1>1 DEF IInv, TypeOK, Editing
<1> QED
  BY <1>1, <1>3, <1>4, EditStep DEF KillToEnd

\* Backspace within the line.
LEMMA BackspaceStep ==
  ASSUME IInv, Backspace
  PROVE  IInv'
<1>1. reading /\ input \in Seq(Letters) /\ Len(input) \in 0 .. MaxLen
      /\ col \in 0 .. MaxLen /\ col > 0
  BY InputFacts DEF Backspace, Key, IInv, TypeOK
<1>2. input_index \in 0 .. Len(history) - 1
  BY <1>1 DEF IInv, TypeOK, Editing
<1>3. CASE col <= Len(input)
  <2>1. RemoveAt(input, col) \in Seq(Letters)
        /\ Len(RemoveAt(input, col)) = Len(input) - 1
    BY <1>1, <1>3, RemoveAtProps
  <2>2. RemoveAt(input, col) \in Lines
    BY <1>1, <2>1, BoundsAssumption DEF Lines
  <2>3. col - 1 \in 0 .. MaxLen
    BY <1>1, BoundsAssumption
  <2> QED
    BY <1>1, <1>2, <1>3, <2>2, <2>3, EditStep DEF Backspace
<1>4. CASE ~(col <= Len(input))
  BY <1>1, <1>4, UbStep DEF Backspace
<1> QED
  BY <1>3, <1>4

\* A char inserted at the cursor, a typed one or the EOF an ended stream
\* returns.
LEMMA InsertStep ==
  ASSUME IInv, NEW ch \in Letters, Insert(ch)
  PROVE  IInv'
<1>1. reading /\ input \in Seq(Letters) /\ Len(input) \in 0 .. MaxLen
      /\ Len(input) < MaxLen /\ col \in 0 .. MaxLen
  BY InputFacts DEF Insert, IInv, TypeOK
<1>2. input_index \in 0 .. Len(history) - 1
  BY <1>1 DEF IInv, TypeOK, Editing
<1>3. CASE col <= Len(input)
  <2>1. InsertAt(input, col + 1, ch) \in Seq(Letters)
        /\ Len(InsertAt(input, col + 1, ch)) = Len(input) + 1
    <3>1. col + 1 \in 1 .. Len(input) + 1
      BY <1>1, <1>3, BoundsAssumption
    <3> QED
      BY <1>1, <3>1, InsertAtProps
  <2>2. InsertAt(input, col + 1, ch) \in Lines
    BY <1>1, <2>1, BoundsAssumption DEF Lines
  <2>3. col + 1 \in 0 .. MaxLen
    BY <1>1, <1>3, BoundsAssumption
  <2> QED
    BY <1>1, <1>2, <1>3, <2>2, <2>3, EditStep DEF Insert
<1>4. CASE ~(col <= Len(input))
  BY <1>1, <1>4, UbStep DEF Insert
<1> QED
  BY <1>3, <1>4

\* Every step of the program keeps the invariant.
LEMMA IInvStep == IInv /\ [Next]_vars => IInv'
<1> SUFFICES ASSUME IInv, [Next]_vars PROVE IInv'
  OBVIOUS
<1>1. CASE \/ \E n \in Sizes : set_history_size(n)
           \/ \E h \in Histories : set_history(h)
  BY <1>1, HistoryCallStep
<1>2. CASE Begin
  BY <1>2, BeginStep
<1>3. CASE HistoryOlder \/ HistoryNewer
  BY <1>3, RecallStep
<1>4. CASE CursorForward \/ CursorBack \/ CursorHome \/ CursorEnd
  BY <1>4, CursorKeysStep
<1>5. CASE KillToEnd
  BY <1>5, KillToEndStep
<1>6. CASE Backspace
  BY <1>6, BackspaceStep
<1>7. CASE \E ch \in Chars : TypeChar(ch)
  BY <1>7, InsertStep DEF TypeChar, Letters
<1>8. CASE ReadEOF
  BY <1>8, InsertStep DEF ReadEOF, Letters
<1>9. CASE Enter
  BY <1>9 DEF Enter, IInv, TypeOK, Editing, HistoryBounded
<1>10. CASE StreamEnds
  BY <1>10 DEF StreamEnds, IInv, TypeOK, Editing, HistoryBounded
<1>11. CASE UNCHANGED vars
  BY <1>11 DEF vars, IInv, TypeOK, Editing, HistoryBounded
<1> QED
  BY <1>1, <1>2, <1>3, <1>4, <1>5, <1>6, <1>7, <1>8, <1>9, <1>10, <1>11
  DEF Next

\* The invariant holds in every reachable state.
LEMMA IInvHolds == Spec => []IInv
BY InitIInv, IInvStep, PTL DEF Spec

-----------------------------------------------------------------------------
(* The properties the line_input run checks, for every value of the       *)
(* constants.                                                              *)

\* Every variable of LineInput ranges over the values the code gives it
\* (TypeOK): the history holds lines of at most MaxLen chars and the cursor
\* stays within 0 .. MaxLen, whatever the keys and calls.
THEOREM LineTypeCorrect == Spec => []TypeOK
BY IInvHolds, PTL DEF IInv

\* set_history_size, set_history and get_user_input, called in any order,
\* keep the history within history_size_ whenever a size is set
\* (HistoryBounded).
THEOREM HistoryLimit == Spec => []HistoryBounded
BY IInvHolds, PTL DEF IInv

=============================================================================
