----------------------------- MODULE CommandLine ----------------------------
(***************************************************************************)
(* The line after `:` (presentation/input/command_line.rs): the text, the  *)
(* cursor in it, and the history.  The text is a sequence of characters; a *)
(* word of a command counts as one character, and so does a whole command  *)
(* with its argument.  A cursor beyond the text would make the removal of  *)
(* a character fail, an index beyond the history the recall of a command.  *)
(***************************************************************************)
EXTENDS Integers, Sequences

CONSTANT Commands  \* from the texts that parse as a command to the command

WithNumber == {"limit", "threads", "dense", "depth"}
NoLimit == -1     \* the value of `top' without a number
ASSUME CommandsAssumption ==
  \A text \in DOMAIN Commands :
    LET c == Commands[text]
    IN  /\ c.name \in WithNumber => c.value \in Nat
        /\ c.name = "top" => c.value \in Nat \cup {NoLimit}
        /\ c.name = "mode" => c.value \in {"allocated", "apparent"}
        /\ c.name = "base" => c.value \in {"decimal", "binary"}
        /\ c.name = "trash" => c.value \in {"permanent", "trash"}

NewLine == [input |-> <<>>, cursor |-> 0, history |-> <<>>, index |-> 0]

Open(l) == [l EXCEPT !.input = <<>>, !.cursor = 0, !.index = 0]

Insert(l, character) ==
  [l EXCEPT !.input = SubSeq(@, 1, l.cursor) \o <<character>> \o SubSeq(@, l.cursor + 1, Len(@)),
            !.cursor = @ + 1]

(* At the start of an empty line it closes the line, which CloseOnBackspace *)
(* tells; at the start of any other it does nothing.                        *)
CloseOnBackspace(l) == l.input = <<>>
Backspace(l) ==
  IF l.cursor = 0 THEN l
  ELSE [l EXCEPT !.input = SubSeq(@, 1, l.cursor - 1) \o SubSeq(@, l.cursor + 1, Len(@)),
                 !.cursor = @ - 1]

MoveLeft(l) == [l EXCEPT !.cursor = IF @ > 0 THEN @ - 1 ELSE 0]
MoveRight(l) == [l EXCEPT !.cursor = IF @ < Len(l.input) THEN @ + 1 ELSE Len(l.input)]
MoveHome(l) == [l EXCEPT !.cursor = 0]
MoveEnd(l) == [l EXCEPT !.cursor = Len(l.input)]

(* The line shows the command of the history at an index, from 1; index 0  *)
(* is none.                                                                *)
Recall(l, i) == MoveEnd([l EXCEPT !.index = i, !.input = l.history[i]])

HistoryPrevious(l) ==
  IF l.history = <<>> THEN l
  ELSE Recall(l, IF l.index = 0 THEN Len(l.history) ELSE IF l.index = 1 THEN 1 ELSE l.index - 1)

LeaveCursor(l) ==                                                 \* variant
  IF l.index = 0 THEN l
  ELSE IF l.index >= Len(l.history) THEN [l EXCEPT !.index = 0, !.input = <<>>]
  ELSE Recall(l, l.index + 1)
HistoryNext(l) ==
  IF l.index = 0 THEN l
  ELSE IF l.index >= Len(l.history) THEN [l EXCEPT !.index = 0, !.input = <<>>, !.cursor = 0]
  ELSE Recall(l, l.index + 1)

(* submit: an empty line is no command; a command that repeats the last is *)
(* remembered once.  The text of a submitted line stays until it is opened *)
(* again.                                                                  *)
Remember(l) ==
  [l EXCEPT !.index = 0,
            !.history = IF @ # <<>> /\ @[Len(@)] = l.input THEN @ ELSE Append(@, l.input)]
Submit(l) == IF l.input = <<>> THEN l ELSE Remember(l)

(* parse_command: the checks of its numbers; a text that is no command     *)
(* only says so.                                                           *)
Unknown == [name |-> "unknown"]
InRange(c) ==
  CASE c.name \in {"limit", "threads"} -> c.value > 0
    [] c.name = "dense" -> c.value >= 100
    [] c.name = "depth" -> c.value \in 1..64
    [] OTHER -> TRUE
Parse(text) ==
  IF text[1] = "filter" THEN [name |-> "filter", value |-> Tail(text)]
  ELSE IF Len(text) = 1 /\ text[1] \in DOMAIN Commands /\ InRange(Commands[text[1]])
       THEN Commands[text[1]]
  ELSE Unknown
=============================================================================
