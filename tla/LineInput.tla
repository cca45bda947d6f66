------------------------------ MODULE LineInput ------------------------------
(***************************************************************************)
(* espp::LineInput: the history kept between calls, and one call of       *)
(* get_user_input, one key per step.  The line being edited is the front  *)
(* of the history deque (input is a reference to it), so it is            *)
(* history[1] here; the cursor is kept relative to the start of the       *)
(* input, col = pos_x - start_pos_x, which is all the editing code uses.  *)
(* Terminal output (redraw, clear, the row pos_y and resize handling) is  *)
(* left out: it changes no state the editing reads.                       *)
(***************************************************************************)
EXTENDS Naturals, Sequences

CONSTANTS
  Chars,         \* the printable characters the user types
  NUL,           \* '\0', the fill of std::string::resize
  EOF,           \* the char is.get() returns once the stream has ended
  Sizes,         \* the values passed to set_history_size
  Histories,     \* the histories passed to set_history
  StreamMayEnd,  \* whether the input stream can reach its end
  MaxLen,        \* bound: longest line
  MaxHistory     \* bound: most history entries while the size is unlimited

ASSUME CharsAssumption == NUL \notin Chars /\ EOF \notin Chars /\ NUL # EOF
ASSUME BoundsAssumption ==
  /\ MaxLen \in Nat \ {0} /\ MaxHistory \in Nat \ {0}
  /\ Sizes \subseteq Nat /\ StreamMayEnd \in BOOLEAN

Letters == Chars \cup {NUL, EOF}
Lines == {s \in Seq(Letters) : Len(s) <= MaxLen}

\* set_history is given lines the user could have typed
ASSUME HistoriesAssumption == Histories \subseteq Seq(Lines)

VARIABLES
  history,       \* input_history_, front first
  history_size,  \* history_size_ (0: unlimited)
  reading,       \* inside get_user_input
  col,           \* pos_x - start_pos_x
  input_index,   \* input_index: the history entry last recalled
  eof,           \* the stream has ended
  ub             \* an edit at a position past the end of the string

vars == <<history, history_size, reading, col, input_index, eof, ub>>

min(a, b) == IF a < b THEN a ELSE b
max(a, b) == IF a < b THEN b ELSE a

\* the line being edited: the front of the deque
input == history[1]

\* the history cut to the size limit, newest kept (deque::resize)
Truncated(h, n) == IF n > 0 /\ Len(h) > n THEN SubSeq(h, 1, n) ELSE h

SetInput(s) == history' = [history EXCEPT ![1] = s]

\* std::string::insert(begin() + i - 1, e)
InsertAt(s, i, e) == SubSeq(s, 1, i - 1) \o <<e>> \o SubSeq(s, i, Len(s))

\* std::string::erase(begin() + i - 1)
RemoveAt(s, i) == SubSeq(s, 1, i - 1) \o SubSeq(s, i + 1, Len(s))

\* std::deque::pop_back
Front(s) == SubSeq(s, 1, Len(s) - 1)

Init ==
  /\ history = <<>>
  /\ history_size = 0
  /\ reading = FALSE
  /\ col = 0
  /\ input_index = 0
  /\ eof = FALSE
  /\ ub = FALSE

Idle == ~reading /\ ~ub

\* mutant: a smaller size is stored without cutting the history
set_history_size_noResize(n) ==
  /\ Idle
  /\ history_size' = n
  /\ UNCHANGED <<history, reading, col, input_index, eof, ub>>

set_history_size(n) ==
  /\ Idle
  /\ history_size' = n
  /\ history' = Truncated(history, n)
  /\ UNCHANGED <<reading, col, input_index, eof, ub>>

set_history(h) ==
  /\ Idle
  /\ history' = Truncated(h, history_size)
  /\ UNCHANGED <<history_size, reading, col, input_index, eof, ub>>

\* get_user_input: emplace an empty line at the front, drop the oldest
\* entry when over the limit
Begin ==
  /\ Idle
  /\ history_size = 0 => Len(history) < MaxHistory
  /\ LET h == <<<<>>>> \o history
         h2 == IF history_size > 0 /\ Len(h) > history_size THEN Front(h) ELSE h
     IN history' = h2
  /\ reading' = TRUE
  /\ col' = 0
  /\ input_index' = 0
  /\ UNCHANGED <<history_size, eof, ub>>

\* a key read by is.get() while the stream is live
Key == reading /\ ~ub /\ ~eof

\* Up arrow and Ctrl+P: copy the next older entry into the line; the
\* cursor is left where it was
HistoryOlder ==
  /\ Key
  /\ LET idx == min(input_index + 1, Len(history) - 1) IN
     /\ input_index' = idx
     /\ SetInput(history[idx + 1])
  /\ UNCHANGED <<history_size, reading, col, eof, ub>>

\* Down arrow and Ctrl+N: copy the next newer entry into the line
HistoryNewer ==
  /\ Key
  /\ LET idx == max(input_index - 1, 0) IN
     /\ input_index' = idx
     /\ SetInput(history[idx + 1])
  /\ UNCHANGED <<history_size, reading, col, eof, ub>>

\* mutant: Right arrow not held at the end of the line
CursorForward_unclamped ==
  /\ Key
  /\ col' = col + 1
  /\ UNCHANGED <<history, history_size, reading, input_index, eof, ub>>

\* Right arrow and Ctrl+F
CursorForward ==
  /\ Key
  /\ col' = min(Len(input), col + 1)
  /\ UNCHANGED <<history, history_size, reading, input_index, eof, ub>>

\* Left arrow and Ctrl+B
CursorBack ==
  /\ Key
  /\ col' = max(0, col - 1)
  /\ UNCHANGED <<history, history_size, reading, input_index, eof, ub>>

\* Ctrl+A
CursorHome ==
  /\ Key
  /\ col' = 0
  /\ UNCHANGED <<history, history_size, reading, input_index, eof, ub>>

\* Ctrl+E
CursorEnd ==
  /\ Key
  /\ col' = Len(input)
  /\ UNCHANGED <<history, history_size, reading, input_index, eof, ub>>

\* Ctrl+K: input.resize(col), which pads with '\0' when col is past the end
KillToEnd ==
  /\ Key
  /\ SetInput(IF col <= Len(input) THEN SubSeq(input, 1, col)
              ELSE input \o [i \in 1..(col - Len(input)) |-> NUL])
  /\ UNCHANGED <<history_size, reading, col, input_index, eof, ub>>

\* Backspace: erase the char before the cursor; erase(begin() + col - 1)
\* with col - 1 >= size() is undefined behaviour
Backspace ==
  /\ Key
  /\ Len(input) > 0 /\ col > 0
  /\ IF col <= Len(input)
       THEN /\ SetInput(RemoveAt(input, col))
            /\ col' = col - 1
            /\ UNCHANGED ub
       ELSE /\ ub' = TRUE
            /\ UNCHANGED <<history, col>>
  /\ UNCHANGED <<history_size, reading, input_index, eof>>

\* any other char, EOF included: insert(begin() + col, ch), undefined
\* behaviour when col is past the end
Insert(ch) ==
  /\ reading /\ ~ub
  /\ Len(input) < MaxLen
  /\ IF col <= Len(input)
       THEN /\ SetInput(InsertAt(input, col + 1, ch))
            /\ col' = col + 1
            /\ UNCHANGED ub
       ELSE /\ ub' = TRUE
            /\ UNCHANGED <<history, col>>
  /\ UNCHANGED <<history_size, reading, input_index, eof>>

TypeChar(ch) == ~eof /\ Insert(ch)

\* once the stream has ended every is.get() returns EOF
ReadEOF == eof /\ Insert(EOF)

\* Enter: the line is returned and stays at the front of the history
Enter ==
  /\ Key
  /\ reading' = FALSE
  /\ UNCHANGED <<history, history_size, col, input_index, eof, ub>>

StreamEnds ==
  /\ StreamMayEnd /\ ~eof /\ ~ub
  /\ eof' = TRUE
  /\ UNCHANGED <<history, history_size, reading, col, input_index, ub>>

Next ==
  \/ \E n \in Sizes : set_history_size(n)
  \/ \E h \in Histories : set_history(h)
  \/ Begin
  \/ HistoryOlder \/ HistoryNewer
  \/ CursorForward \/ CursorBack \/ CursorHome \/ CursorEnd
  \/ KillToEnd \/ Backspace
  \/ \E ch \in Chars : TypeChar(ch)
  \/ ReadEOF \/ Enter \/ StreamEnds

\* get_user_input reads is.get() in a loop that never sleeps: once the
\* stream has ended the next read always happens
Spec == Init /\ [][Next]_vars /\ WF_vars(ReadEOF)

-----------------------------------------------------------------------------
(* Properties.                                                             *)

\* Every variable ranges over the values the code gives it.
TypeOK ==
  /\ history \in Seq(Lines)
  /\ history_size \in Sizes \cup {0}
  /\ reading \in BOOLEAN
  /\ col \in 0..MaxLen
  /\ input_index \in Nat
  /\ eof \in BOOLEAN
  /\ ub \in BOOLEAN

\* set_history_size, set_history and get_user_input together keep the
\* history within history_size_ whenever a size is set, in whatever order
\* they are called.
HistoryBounded ==
  history_size > 0 => Len(history) <= history_size

\* Every insert and erase of get_user_input stays within the string, as
\* std::string requires.
NoEditPastEnd == ~ub

\* A call of get_user_input on a stream that has ended returns.
EndedStreamReturns == (reading /\ eof) ~> ~reading

=============================================================================
