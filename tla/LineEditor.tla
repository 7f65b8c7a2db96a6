----------------------------- MODULE LineEditor -----------------------------
(***************************************************************************)
(* What editing a command line promises its user: a text with a caret, and *)
(* the lines of before to go back to and forth from without losing the     *)
(* line that was being written.                                            *)
(***************************************************************************)
EXTENDS Naturals, Sequences

CONSTANTS
  Char,       (* what can be typed                                         *)
  Blank,      (* the blank among them                                      *)
  MaxHistory  (* how many lines are remembered                             *)

VARIABLES
  left, right, (* the text before the caret and after it                   *)
  past,        (* the lines of before, the latest first                    *)
  place,       (* 0: at the user's own line; k: at the k-th of past        *)
  draft        (* the user's own line while at another                     *)

vars == <<left, right, past, place, draft>>
text == left \o right

Init == left = <<>> /\ right = <<>> /\ past = <<>> /\ place = 0 /\ draft = <<>>

Caret(l, r) == left' = l /\ right' = r /\ UNCHANGED <<past, place, draft>>

Insert(c)  == Caret(Append(left, c), right)
Backspace  == left # <<>> /\ Caret(SubSeq(left, 1, Len(left) - 1), right)
Delete     == right # <<>> /\ Caret(left, Tail(right))
MoveLeft   == left # <<>> /\ Caret(SubSeq(left, 1, Len(left) - 1),
                                   <<left[Len(left)]>> \o right)
MoveRight  == right # <<>> /\ Caret(Append(left, right[1]), Tail(right))
Home       == Caret(<<>>, text)
End        == Caret(text, <<>>)
KillToEnd  == Caret(left, <<>>)

(* The word before the caret, with the blanks that follow it.              *)
WordEnds(k, m) == /\ \A i \in k + 1 .. m : left[i] # Blank
                  /\ \A i \in m + 1 .. Len(left) : left[i] = Blank
                  /\ k = 0 \/ (left[k] = Blank /\ k < m)
KillWord == \E k \in 0 .. Len(left) :
              /\ \E m \in k .. Len(left) : WordEnds(k, m)
              /\ Caret(SubSeq(left, 1, k), right)

Show(l) == left' = l /\ right' = <<>> /\ UNCHANGED past

Back ==
  /\ past # <<>>
  /\ place' = IF place < Len(past) THEN place + 1 ELSE place
  /\ draft' = IF place = 0 THEN text ELSE draft
  /\ Show(past[place'])

(* There is nothing to go forth to from the user's own line.               *)
Forth ==
  \/ place > 1 /\ place' = place - 1 /\ Show(past[place']) /\ UNCHANGED draft
  \/ place = 1 /\ place' = 0 /\ Show(draft) /\ draft' = <<>>

(* A line is remembered unless it is empty or that of just before.         *)
Remembered(l) ==
  IF l = <<>> \/ (past # <<>> /\ past[1] = l) THEN past
  ELSE <<l>> \o (IF Len(past) < MaxHistory THEN past
                                        ELSE SubSeq(past, 1, MaxHistory - 1))

(* Another line is remembered: a command that several lines make up.       *)
Remember == /\ past' # <<>> /\ past' = Remembered(past'[1])
            /\ UNCHANGED <<left, right, place, draft>>

(* l without the blanks at its end.                                        *)
IsTrimmed(s, l) == \E k \in 0 .. Len(l) :
                     /\ s = SubSeq(l, 1, k)
                     /\ k = 0 \/ l[k] # Blank
                     /\ \A i \in k + 1 .. Len(l) : l[i] = Blank

Enter ==
  /\ \E k \in 0 .. Len(text) :
       /\ IsTrimmed(SubSeq(text, 1, k), text)
       /\ past' = Remembered(SubSeq(text, 1, k))
  /\ left' = <<>> /\ right' = <<>> /\ place' = 0 /\ draft' = <<>>

Next ==
  \/ \E c \in Char : Insert(c)
  \/ Backspace \/ Delete \/ MoveLeft \/ MoveRight \/ Home \/ End
  \/ KillToEnd \/ KillWord \/ Back \/ Forth \/ Enter \/ Remember

Spec == Init /\ [][Next]_vars
=============================================================================
