------------------------------ MODULE LineEditor ------------------------------
(***************************************************************************)
(* The line editor of the client's shell (line_editor.cpp), read by        *)
(* RunInteractive one line after the other: keys of a raw terminal, escape *)
(* sequences, the history, and the row that the terminal shows.  Without a *)
(* terminal, lines come from getline.  One character stands for each class *)
(* of printable character that the code tells apart.                       *)
(***************************************************************************)
EXTENDS Integers, Sequences, FiniteSetsExt

CONSTANTS
    Chars,          \* printable characters, " " among them
    MaxLine,        \* bound: the longest line typed
    MaxHistory      \* bound: the longest history

ASSUME EditorAssumption ==
    /\ " " \in Chars
    /\ Chars \cap {"enter", "ctrl_c", "ctrl_d", "esc"} = {}
    /\ MaxLine \in Nat /\ MaxHistory \in Nat

VARIABLES
    history,
    line, cursor, draft, history_index,     \* the locals of ReadLine
    escape,         \* what has been read of an escape sequence
    result,         \* "reading", or the status of the last ReadLine
    shown,          \* the terminal's row after the prompt, and its column
    bottom,         \* history variable: the line last edited below the history
    interrupts      \* history variable: how many Ctrl+C came last in a row

editorVars ==
    <<history, line, cursor, draft, history_index, escape, result, shown, bottom, interrupts>>

Lines == UNION {[1..n -> Chars] : n \in 0..MaxLine}

Reading  == result = "reading"
AtBottom == history_index = Len(history)

FreshLine ==
    /\ line' = <<>> /\ cursor' = 0 /\ draft' = <<>>
    /\ history_index' = Len(history)
    /\ escape' = "" /\ shown' = [text |-> <<>>, column |-> 0]
    /\ bottom' = <<>> /\ interrupts' = 0

EditorInit ==
    /\ history = <<>>
    /\ line = <<>> /\ cursor = 0 /\ draft = <<>> /\ history_index = 0
    /\ escape = "" /\ shown = [text |-> <<>>, column |-> 0]
    /\ bottom = <<>> /\ interrupts = 0
    /\ result = "kCancelled"

-----------------------------------------------------------------------------
(* Redraw: return to the prompt, print the line, erase what is to the right *)
(* of it, and step back to the cursor.                                     *)

\* Mutant: what is to the right of the line stays
RedrawKeepingTail(text, column) ==
    shown' = [text |-> text \o SubSeq(shown.text, Len(text) + 1, Len(shown.text)),
              column |-> column]

Redraw(text, column) ==
    shown' = [text |-> text,
              column |-> IF column < Len(text) THEN Len(text) - (Len(text) - column)
                         ELSE Len(text)]

(* An edit of the line, drawn.                                             *)
Edit(text, column) ==
    /\ line' = text /\ cursor' = column
    /\ Redraw(text, column)
    /\ bottom' = IF AtBottom THEN text ELSE bottom
    /\ UNCHANGED <<history, draft, history_index>>

(* A key that has no effect.                                               *)
Nothing == UNCHANGED <<history, line, cursor, draft, history_index, shown, bottom>>

Do(condition, text, column) == IF condition THEN Edit(text, column) ELSE Nothing

Inserted(key) == SubSeq(line, 1, cursor) \o <<key>> \o SubSeq(line, cursor + 1, Len(line))

Without(first, last) == SubSeq(line, 1, first) \o SubSeq(line, last + 1, Len(line))

(* DeletePreviousWord: back over blanks, then over the word.               *)
Back(from, blank) ==
    Min({c \in 0..from : \A i \in (c + 1)..from : (line[i] = " ") = blank})

WordStart == Back(Back(cursor, TRUE), FALSE)

-----------------------------------------------------------------------------
(* What ReadLine remembers and returns.                                    *)

Remembered(text) ==
    IF text = <<>> \/ (history # <<>> /\ history[Len(history)] = text) THEN history
    ELSE Append(history, text)

Return(status) ==
    /\ result' = status
    /\ UNCHANGED <<history, line, cursor, draft, history_index, shown, bottom>>

Enter ==
    /\ history' = Remembered(line)
    /\ Len(history') <= MaxHistory
    /\ result' = "kLine"
    /\ UNCHANGED <<line, cursor, draft, history_index, shown, bottom>>

CtrlD ==
    IF line = <<>> THEN Return("kEndOfInput")
    ELSE /\ Do(cursor < Len(line), Without(cursor, cursor + 1), cursor)
         /\ UNCHANGED result

(* Keys that edit.  *)
Editing(key) ==
    /\ CASE key = "ctrl_a"    -> Edit(line, 0)
         [] key = "ctrl_e"    -> Edit(line, Len(line))
         [] key = "ctrl_k"    -> Edit(SubSeq(line, 1, cursor), cursor)
         [] key = "ctrl_u"    -> Edit(<<>>, 0)
         [] key = "ctrl_w"    -> Edit(Without(WordStart, cursor), WordStart)
         [] key = "backspace" -> Do(cursor > 0, Without(cursor - 1, cursor), cursor - 1)
         [] OTHER             -> Edit(Inserted(key), cursor + 1)
    /\ UNCHANGED result

EditKeys == {"ctrl_a", "ctrl_e", "ctrl_k", "ctrl_u", "ctrl_w", "backspace"}

Plain(key) ==
    /\ escape = ""
    /\ escape' = IF key = "esc" THEN "esc" ELSE ""
    /\ \/ key = "enter"  /\ Enter
       \/ key = "ctrl_c" /\ Return("kCancelled")
       \/ key = "ctrl_d" /\ CtrlD
       \/ key \in EditKeys /\ Editing(key)
       \/ key \in Chars /\ Len(line) < MaxLine /\ Editing(key)
       \/ key = "esc" /\ Nothing /\ UNCHANGED result

-----------------------------------------------------------------------------
(* Escape sequences.  Whatever follows an escape byte is read as part of    *)
(* the sequence, Ctrl+C and Enter too.                                     *)

\* Mutant: the draft is saved at every step up
UpSavingAlways ==
    /\ history_index > 0
    /\ draft' = line
    /\ history_index' = history_index - 1
    /\ line' = history[history_index] /\ cursor' = Len(line')
    /\ Redraw(line', cursor')
    /\ UNCHANGED <<history, bottom>>

Up ==
    /\ history_index > 0
    /\ draft' = IF AtBottom THEN line ELSE draft
    /\ history_index' = history_index - 1
    /\ line' = history[history_index] /\ cursor' = Len(line')
    /\ Redraw(line', cursor')
    /\ UNCHANGED <<history, bottom>>

Down ==
    /\ ~AtBottom
    /\ history_index' = history_index + 1
    /\ line' = IF history_index' = Len(history) THEN draft ELSE history[history_index' + 1]
    /\ cursor' = Len(line')
    /\ Redraw(line', cursor')
    /\ UNCHANGED <<history, draft, bottom>>

Code(key) ==
    CASE key = "A" /\ history_index > 0 -> Up
      [] key = "B" /\ ~AtBottom         -> Down
      [] key = "C" -> Do(cursor < Len(line), line, cursor + 1)
      [] key = "D" -> Do(cursor > 0, line, cursor - 1)
      [] key = "H" -> Edit(line, 0)
      [] key = "F" -> Edit(line, Len(line))
      [] OTHER     -> Nothing

EscapeAfter(key) ==
    CASE escape = "esc" -> IF key = "[" THEN "csi" ELSE ""
      [] escape = "csi" -> IF key = "3" THEN "csi3" ELSE ""
      [] OTHER          -> ""

Escaped(key) ==
    /\ escape # ""
    /\ escape' = EscapeAfter(key)
    /\ CASE escape = "csi"  -> Code(key)
         [] escape = "csi3" -> Do(key = "~" /\ cursor < Len(line),
                                  Without(cursor, cursor + 1), cursor)
         [] OTHER           -> Nothing
    /\ UNCHANGED result

-----------------------------------------------------------------------------
Codes == {"[", "A", "B", "C", "D", "H", "F", "3", "~"}
Keys  == Chars \cup EditKeys \cup Codes \cup {"enter", "ctrl_c", "ctrl_d", "esc"}

Key ==
    /\ Reading
    /\ \E key \in Keys :
          /\ Plain(key) \/ Escaped(key)
          /\ interrupts' = IF key = "ctrl_c" THEN interrupts + 1 ELSE 0

(* The terminal is gone: a sequence is given up, and the next read ends.    *)
Hangup ==
    /\ Reading
    /\ escape' = ""
    /\ IF escape = "" THEN Return("kEndOfInput") ELSE Nothing /\ UNCHANGED result
    /\ UNCHANGED interrupts

(* RunInteractive, in a terminal: the next line, unless the last command    *)
(* was quit.                                                               *)
ReadLine ==
    /\ result \in {"kLine", "kCancelled"}
    /\ FreshLine
    /\ result' = "reading"
    /\ UNCHANGED history

(* ReadLine without a terminal.                                            *)
GetLine ==
    /\ result \in {"kLine", "kCancelled"}
    /\ FreshLine
    /\ \/ \E text \in Lines : history' = Remembered(text) /\ result' = "kLine"
       \/ UNCHANGED history /\ result' = "kEndOfInput"
    /\ Len(history') <= MaxHistory

EditorNext == Key \/ Hangup \/ ReadLine \/ GetLine

EditorSpec == EditorInit /\ [][EditorNext]_editorVars

-----------------------------------------------------------------------------
(* Every variable keeps its type; the cursor stays in the line, and the     *)
(* position in the history in the history.                                 *)
EditorTypeOK ==
    /\ history \in Seq(Lines) /\ Len(history) <= MaxHistory
    /\ line \in Lines /\ draft \in Lines /\ bottom \in Lines
    /\ cursor \in 0..Len(line)
    /\ history_index \in 0..Len(history)
    /\ escape \in {"", "esc", "csi", "csi3"}
    /\ result \in {"reading", "kLine", "kCancelled", "kEndOfInput"}
    /\ shown.text \in Lines /\ shown.column \in Nat
    /\ interrupts \in Nat

(* The terminal shows the line that Enter would return, and the cursor      *)
(* where the next character would go, after every key.                     *)
ScreenMatches == Reading => shown = [text |-> line, column |-> cursor]

(* A walk through the history, with whatever is edited on the way, ends     *)
(* where it began: back below the history stands what was typed there.      *)
DraftReturns == (Reading /\ AtBottom) => line = bottom

(* master/README.md: a Ctrl+C cancels the current input and shows a new     *)
(* prompt.  No line is still being read after one.                         *)
CtrlCCancels == Reading => interrupts = 0

(* What holds instead: of two Ctrl+C in a row, the second cancels.          *)
SecondCtrlCCancels == Reading => interrupts < 2
=============================================================================
