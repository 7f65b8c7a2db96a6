----------------------------- MODULE LineReader -----------------------------
(***************************************************************************)
(* The shell's line editor (LineReader of src/client/EtDBShell.h) on a     *)
(* terminal: a string, a cursor into it, and an index into the history,    *)
(* which is kept oldest first.  One action per key.  A line is a sequence  *)
(* of tokens here, a token standing for a character.                       *)
(***************************************************************************)
EXTENDS Integers, Sequences, FiniteSetsExt, SequencesExt

CONSTANTS
  Char,       (* what can be typed                                         *)
  Blank,      (* the blank among them                                      *)
  MaxLine,    (* bound on the length of a line                             *)
  MaxHistory  (* _history keeps so many lines; 1000 in the code            *)

ASSUME ReaderAssumption ==
  Blank \in Char /\ MaxLine \in Nat /\ MaxHistory \in Nat \ {0}

VARIABLES
  line, cursor,  (* the text, and the position in it                       *)
  histIdx,       (* the entry shown, counted from 0; -1 for none           *)
  savedLine,     (* the line left for the history                          *)
  history        (* _history, the oldest first                             *)

reader == <<line, cursor, histIdx, savedLine, history>>

(* The locals of readLine() as it begins.                                  *)
FreshLine == /\ line' = <<>> /\ cursor' = 0 /\ histIdx' = -1
             /\ savedLine' = <<>>

ReaderInit ==
  /\ line = <<>> /\ cursor = 0 /\ histIdx = -1 /\ savedLine = <<>>
  /\ history = <<>>

Before    == SubSeq(line, 1, cursor)
From(k)   == SubSeq(line, k + 1, Len(line))
Edit(l, k) == line' = l /\ cursor' = k /\ UNCHANGED <<histIdx, savedLine, history>>

Insert(c) ==
  /\ Len(line) < MaxLine
  /\ Edit(Append(Before, c) \o From(cursor), cursor + 1)

Backspace ==
  /\ cursor > 0
  /\ Edit(SubSeq(line, 1, cursor - 1) \o From(cursor), cursor - 1)

DeleteKey == cursor < Len(line) /\ Edit(Before \o From(cursor + 1), cursor)
CurLeft   == cursor > 0 /\ Edit(line, cursor - 1)
CurRight  == cursor < Len(line) /\ Edit(line, cursor + 1)
HomeKey   == Edit(line, 0)
EndKey    == Edit(line, Len(line))
KillLine  == Edit(Before, cursor)

(* Ctrl-W erases the blanks before the cursor, then what is not blank.     *)
LastWhere(k, P(_)) == Max({0} \cup {i \in 1 .. k : P(i)})
KillWord ==
  LET word == LastWhere(cursor, LAMBDA i : line[i] # Blank)
      at   == LastWhere(word, LAMBDA i : line[i] = Blank)
  IN  Edit(SubSeq(line, 1, at) \o From(cursor), at)

ShowEntry(k) == line' = history[k + 1] /\ cursor' = Len(line')

KeepSaved == UNCHANGED savedLine                                 \* mutant
SaveLine  == savedLine' = line

HistBack ==
  /\ history # <<>>
  /\ IF histIdx = -1
     THEN SaveLine /\ histIdx' = Len(history) - 1
     ELSE histIdx' = (IF histIdx > 0 THEN histIdx - 1 ELSE 0) /\ UNCHANGED savedLine
  /\ ShowEntry(histIdx')
  /\ UNCHANGED history

(* The test for the newest entry, histIdx = size - 1, also holds where     *)
(* there is no entry: what was typed gives way to the line saved, which is *)
(* empty then.                                                             *)
HistFwd ==
  \/ /\ histIdx >= 0 /\ histIdx < Len(history) - 1
     /\ histIdx' = histIdx + 1
     /\ ShowEntry(histIdx')
     /\ UNCHANGED <<savedLine, history>>
  \/ /\ histIdx = Len(history) - 1
     /\ histIdx' = -1
     /\ line' = savedLine /\ cursor' = Len(line') /\ savedLine' = <<>>
     /\ UNCHANGED history

(* addHistory() *)
AddedTo(h, l) ==
  IF l = <<>> \/ (h # <<>> /\ h[Len(h)] = l) THEN h
  ELSE IF Len(h) = MaxHistory THEN Append(Tail(h), l)
  ELSE Append(h, l)

TrimRight(l) == SubSeq(l, 1, Max({0} \cup {i \in 1 .. Len(l) : l[i] # Blank}))

(* Return: the line, without the blanks at its end, is remembered.         *)
EnterKey == history' = AddedTo(history, TrimRight(line)) /\ FreshLine

Key ==
  \/ \E c \in Char : Insert(c)
  \/ Backspace \/ DeleteKey \/ CurLeft \/ CurRight \/ HomeKey \/ EndKey
  \/ KillLine \/ KillWord \/ HistBack \/ HistFwd

-----------------------------------------------------------------------------
(* Seen as a caret in a text and a place among the lines of before, the    *)
(* line editor keeps its promises but for one key: a key edits the text at *)
(* the caret and nothing else, and the line that was being written comes   *)
(* back after a look at the history.  The exception is the down key before *)
(* anything was entered, which loses the line.                             *)
Editor == INSTANCE LineEditor WITH
  left  <- Before,
  right <- From(cursor),
  past  <- Reverse(history),
  place <- IF histIdx = -1 THEN 0 ELSE Len(history) - histIdx,
  draft <- savedLine

DownOnNothing == history = <<>> /\ HistFwd
EditorStep    == Editor!Next \/ DownOnNothing

ImplementsEditor == Editor!Init /\ [][EditorStep]_(Editor!vars)
=============================================================================
