------------------------- MODULE ShellInput_proofs -------------------------
(***************************************************************************)
(* The input of the shell, for any characters, files and lines: no failure *)
(* of a statement is lost on the way out of the scripts it is in, the line *)
(* editor keeps the promises of LineEditor while the prompt uses it, and   *)
(* what is executed is what was written, at the prompt and in a script.    *)
(***************************************************************************)
EXTENDS ShellInput, Sums_proofs, SequenceTheorems

(* The literals that the module itself writes are strings, too, but the    *)
(* provers have to be told.                                                *)
Token == STRING \cup {"", "source", "'", "\"", "/*", "*/"}
Text  == Seq(Token)
Call  == [todo : Seq(Text), raw : Text, at : Nat, quote : Token,
          blk : BOOLEAN, buf : Text, stmt : Text, exec : Seq(Text),
          errs : Nat]

(* The line being edited, and the history it may show a line of.           *)
ReaderTyped ==
  /\ line \in Text /\ cursor \in 0 .. Len(line) /\ savedLine \in Text
  /\ history \in Seq(Text) /\ Len(history) <= MaxHistory
  /\ histIdx \in -1 .. Len(history) - 1
  /\ histIdx = -1 => savedLine = <<>>

InputTyped ==
  /\ mode \in {"tty", "file"} /\ pc \in {"edit", "cont", "run", "done"}
  /\ fullCmd \in Text /\ pend \in Text
  /\ frames \in Seq(Call)
  /\ bad \in BOOLEAN /\ result \in Nat

(* Outside readLine() no entry of the history is shown.                    *)
AwayFromLine == pc # "edit" => line = <<>> /\ cursor = 0 /\ histIdx = -1

(* A failure is on the account of a call that has not returned, or in what *)
(* the outermost one returned.                                             *)
Counted ==
  mode = "file" =>
    \/ /\ pc = "run" /\ depth > 0
       /\ bad <=> \E k \in 1 .. depth : frames[k].errs > 0
    \/ pc = "done" /\ frames = <<>> /\ (bad <=> result > 0)

InputInv == ReaderTyped /\ InputTyped /\ AwayFromLine /\ Counted

-----------------------------------------------------------------------------
(* Texts *)

(* What stands between two places of a sequence.                           *)
LEMMA Piece ==
  ASSUME NEW S, NEW s \in Seq(S),
         NEW a \in 1 .. Len(s) + 1, NEW b \in 0 .. Len(s)
  PROVE  /\ SubSeq(s, a, b) \in Seq(S)
         /\ Len(SubSeq(s, a, b)) = IF a <= b THEN b - a + 1 ELSE 0
         /\ \A i \in 1 .. b - a + 1 : SubSeq(s, a, b)[i] = s[a + i - 1]
  OBVIOUS

(* A stretch of a text is a text.                                            *)
LEMMA Between ==
  ASSUME NEW s \in Text, NEW a \in 1 .. Len(s) + 1, NEW b \in 0 .. Len(s)
  PROVE  SubSeq(s, a, b) \in Text
  BY Piece DEF Text

(* trim() of a text is a text.                                               *)
LEMMA TrimText ==
  ASSUME NEW l \in Text
  PROVE  Trim(l) \in Text
<1> DEFINE s == {i \in 1 .. Len(l) : l[i] # Blank}
<1>1. s \in SUBSET Nat /\ \A x \in s : x <= Len(l) /\ Len(l) \in Nat
  BY DEF Text
<1>2. s # {} => Min(s) \in 1 .. Len(l) /\ Max(s) \in 1 .. Len(l)
  <2> SUFFICES ASSUME s # {} PROVE Min(s) \in s /\ Max(s) \in s
    OBVIOUS
  <2> HIDE DEF s
  <2> QED
    BY <1>1, Least, Greatest
<1>3. Trim(l) = IF s = {} THEN <<>> ELSE SubSeq(l, Min(s), Max(s))
  BY DEF Trim
<1> HIDE DEF s
<1>4. s # {} => SubSeq(l, Min(s), Max(s)) \in Text
  BY <1>2, Between DEF Text
<1>5. <<>> \in Text
  BY DEF Text
<1> QED
  BY <1>3, <1>4, <1>5

(* What follows the command word of a text is a text.                        *)
LEMMA ArgText ==
  ASSUME NEW l \in Text, l # <<>>
  PROVE  ArgOf(l) \in Text
<1> DEFINE a    == Tail(l)
           E    == {i \in 1 .. Len(a) : a[i] = ";"}
           S    == {Len(a) + 1} \cup E
           b    == SubSeq(a, 1, Min(S) - 1)
           Starts(m) == {i \in 2 .. Len(b) : b[i] = m /\ b[i - 1] = Blank}
           cut  == IF Starts("--") # {} THEN Min(Starts("--")) - 1
                   ELSE IF Starts("#") # {} THEN Min(Starts("#")) - 1
                   ELSE Len(b)
<1>1. a \in Text
  BY DEF Text
<1>2. S \in SUBSET Nat /\ S # {} /\ S \subseteq 1 .. Len(a) + 1
  <2>1. Len(a) \in Nat
    BY <1>1 DEF Text
  <2>2. E \subseteq 1 .. Len(a)
    OBVIOUS
  <2> DEFINE n == Len(a)
  <2>3. S = {n + 1} \cup E /\ n \in Nat /\ E \subseteq 1 .. n
    BY <2>1, <2>2
  <2> HIDE DEF a, E, S, n
  <2>4. S \subseteq 1 .. n + 1 /\ n + 1 \in S
    BY <2>3
  <2>5. S \in SUBSET Nat
    BY <2>3, <2>4
  <2> QED
    BY <2>4, <2>5 DEF n
<1>3. Min(S) \in 1 .. Len(a) + 1
  BY <1>2, Least
<1>4. b \in Text
  <2> HIDE DEF a, S
  <2>1. Min(S) - 1 \in 0 .. Len(a) /\ 1 \in 1 .. Len(a) + 1
    BY <1>1, <1>3 DEF Text
  <2> QED
    BY <1>1, <2>1, Between
<1>5. ASSUME NEW m, Starts(m) # {} PROVE Min(Starts(m)) - 1 \in 0 .. Len(b)
  <2> HIDE DEF b
  <2>1. Starts(m) \in SUBSET Nat /\ Starts(m) \subseteq 2 .. Len(b)
    BY <1>4 DEF Text
  <2>2. Min(Starts(m)) \in 2 .. Len(b)
    BY <1>5, <2>1, Least
  <2> QED
    BY <1>4, <2>2 DEF Text
<1>6. cut \in 0 .. Len(b)
  <2> HIDE DEF b, Starts
  <2>1. Len(b) \in 0 .. Len(b)
    BY <1>4 DEF Text
  <2> QED
    BY <1>5, <2>1
<1>7. SubSeq(b, 1, cut) \in Text
  <2> HIDE DEF b, cut
  <2>1. 1 \in 1 .. Len(b) + 1
    BY <1>4 DEF Text
  <2> QED
    BY <1>4, <1>6, <2>1, Between
<1> QED
  BY <1>7, TrimText DEF ArgOf

(* Putting sequences together gives sequences.                             *)
LEMMA Together ==
  ASSUME NEW S, NEW s \in Seq(S), NEW t \in Seq(S), NEW c \in S
  PROVE  /\ s \o t \in Seq(S) /\ Append(s, c) \in Seq(S)
         /\ <<c>> \in Seq(S) /\ <<>> \in Seq(S)
  OBVIOUS

(* What a call appends to a text is a text.                                *)
LEMMA Joins ==
  ASSUME NEW s \in Text, NEW t \in Text, NEW c \in Token
  PROVE  /\ s \o t \in Text /\ Append(s, c) \in Text /\ <<c>> \in Text
         /\ <<>> \in Text /\ s \o <<c>> \o t \in Text
         /\ Pending(s) \in Seq(Text)
         /\ \A q \in Seq(Text) : q \o <<s>> \in Seq(Text)
<1>1. /\ s \o t \in Text /\ Append(s, c) \in Text /\ <<c>> \in Text
      /\ <<>> \in Text
  BY Together DEF Text
<1>2. s \o <<c>> \o t \in Text
  <2>1. s \o <<c>> \in Text
    BY <1>1, Together DEF Text
  <2> QED
    BY <2>1, Together DEF Text
<1>3. <<s>> \in Seq(Text) /\ <<>> \in Seq(Text)
  OBVIOUS
<1>4. \A q \in Seq(Text) : q \o <<s>> \in Seq(Text)
  BY <1>3
<1> QED
  BY <1>1, <1>2, <1>3, <1>4 DEF Pending

(* A blank and the characters that are typed are tokens of a script.         *)
LEMMA BlankIsToken == Blank \in Token /\ Char \subseteq Token
  BY ReaderAssumption, InputAssumption
    DEF ReaderAssumption, InputAssumption, Token

(* Sequences of some things are sequences of more.                         *)
LEMMA Wider ==
  ASSUME NEW A, NEW B, A \subseteq B
  PROVE  Seq(A) \subseteq Seq(B)
  OBVIOUS

(* What the constants hold are texts.                                      *)
LEMMA ConstantTexts ==
  /\ ContLines \subseteq Text /\ Tails \subseteq Text
  /\ \A f \in DOMAIN Files : f \in Token /\ Files[f] \in Seq(Text)
<1>1. STRING \subseteq Token
  BY DEF Token
<1>2. Seq(STRING) \subseteq Text
  BY <1>1, Wider DEF Text
<1>3. Seq(Seq(STRING)) \subseteq Seq(Text)
  BY <1>2, Wider
<1> QED
  BY <1>1, <1>2, <1>3, InputAssumption DEF InputAssumption

(* A statement with what the line at hand adds to it is a text.              *)
LEMMA WithTextText ==
  ASSUME NEW f \in Call
  PROVE  WithText(f) \in Text
<1>1. f.buf \in Text /\ f.stmt \in Text
  BY DEF Call
<1>2. Trim(f.buf) \in Text
  BY <1>1, TrimText
<1> QED
  BY <1>1, <1>2, Joins, BlankIsToken DEF WithText

-----------------------------------------------------------------------------
(* The calls of runScript() *)

(* A call is known by its fields.                                          *)
LEMMA Calls ==
  ASSUME NEW f \in Call
  PROVE  /\ f.todo \in Seq(Text) /\ f.raw \in Text /\ f.at \in Nat
         /\ f.quote \in Token /\ f.blk \in BOOLEAN /\ f.buf \in Text
         /\ f.stmt \in Text /\ f.exec \in Seq(Text) /\ f.errs \in Nat
  BY DEF Call

(* The innermost call in progress is a call.                                 *)
LEMMA TopCall ==
  ASSUME frames \in Seq(Call), depth > 0
  PROVE  depth \in Nat /\ Top \in Call
  BY DEF depth, Top

(* A new call has read nothing and failed at nothing.                      *)
LEMMA NewCall ==
  ASSUME NEW lines \in Seq(Text)
  PROVE  Frame(lines) \in Call /\ Frame(lines).errs = 0
<1>1. <<>> \in Text /\ <<>> \in Seq(Text)
  BY DEF Text
<1>2. "" \in Token
  BY DEF Token
<1> QED
  BY <1>1, <1>2 DEF Frame, Call

(* Each step of a scan leaves a call, with the failures it had.            *)
Same(f) == f \in Call /\ f.errs = Top.errs /\ Becomes(f)

(* Taking the next line of a file keeps the call in shape and its account as *)
(* it is.                                                                    *)
LEMMA NextLineStep ==
  ASSUME InputTyped, NextLine
  PROVE  \E f : Same(f)
<1> DEFINE t == Top
           raw == Head(t.todo)
           f == [t EXCEPT !.todo = Tail(@)]
           e == Pending(f.stmt) \o
                <<<<"source", Blank>> \o ArgOf(Trim(raw))>>
           g == [f EXCEPT !.exec = e, !.stmt = <<>>]
           h == [f EXCEPT !.raw = raw, !.at = 1, !.quote = "", !.buf = <<>>]
<1>1. t \in Call /\ t.todo # <<>>
  BY TopCall DEF NextLine, Idle, InputTyped
<1>2. \/ ~f.blk /\ IsSource(Trim(raw)) /\ Becomes(g)
      \/ Becomes(h)
  BY DEF NextLine
<1> HIDE DEF t
<1>3. t.todo \in Seq(Text)
  BY <1>1, Calls
<1>4. raw \in Text /\ Tail(t.todo) \in Seq(Text)
  BY <1>1, <1>3
<1>5. f \in Call /\ f.errs = t.errs
  BY <1>1, <1>4 DEF Call
<1>6. <<>> \in Text /\ "" \in Token
  BY Together DEF Text, Token
<1> HIDE DEF raw, f
<1>7. ASSUME IsSource(Trim(raw)) PROVE g \in Call /\ g.errs = f.errs
  <2>1. Trim(raw) \in Text /\ Trim(raw) # <<>>
    BY <1>4, <1>7, TrimText DEF IsSource
  <2>2. ArgOf(Trim(raw)) \in Text
    BY <2>1, ArgText
  <2>3. <<"source", Blank>> \in Text
    <3>1. "source" \in Token /\ Blank \in Token
      BY BlankIsToken DEF Token
    <3>2. \A x, y \in Token : <<x, y>> \in Seq(Token)
      OBVIOUS
    <3> QED
      BY <3>1, <3>2 DEF Text
  <2>4. <<"source", Blank>> \o ArgOf(Trim(raw)) \in Text
    BY <2>2, <2>3, Together DEF Text
  <2>5. f.stmt \in Text
    BY <1>5, Calls
  <2>6. Pending(f.stmt) \in Seq(Text)
    BY <2>5, Joins, BlankIsToken
  <2>7. e \in Seq(Text)
    BY <2>4, <2>6, Joins, BlankIsToken
  <2> HIDE DEF e
  <2> QED
    BY <1>5, <1>6, <2>7 DEF Call
<1>8. h \in Call /\ h.errs = f.errs
  BY <1>4, <1>5, <1>6 DEF Call
<1> HIDE DEF g, h
<1>9. CASE IsSource(Trim(raw)) /\ Becomes(g)
  BY <1>5, <1>7, <1>9 DEF Same, t
<1>10. CASE Becomes(h)
  BY <1>5, <1>8, <1>10 DEF Same, t
<1> QED
  BY <1>2, <1>9, <1>10

(* A scanner that has moved past a token is still a call.                    *)
LEMMA ForwardCall ==
  ASSUME NEW f \in Call, NEW c \in Token
  PROVE  /\ Forward(f) \in Call /\ Forward(f).errs = f.errs
         /\ Copies(f, c) \in Call /\ Copies(f, c).errs = f.errs
<1>1. f.at + 1 \in Nat
  BY Calls
<1>2. Forward(f) \in Call /\ Forward(f).errs = f.errs
  BY <1>1 DEF Forward, Call
<1>3. Forward(f).buf \in Text
  BY <1>2, Calls
<1>4. Append(Forward(f).buf, c) \in Text
  BY <1>3, Joins
<1> QED
  BY <1>2, <1>4 DEF Copies, Call

(* A token the scanner copies or drops keeps the call in shape.              *)
LEMMA ScanStep ==
  ASSUME InputTyped, Scanning
  PROVE  \E f : Same(f)
<1> DEFINE t == Top
           c == t.raw[t.at]
<1>1. t \in Call /\ c \in Token
  <2>1. Scans
    BY DEF Scanning, InQuote, InBlock, OpenQuote, OpenBlock, LineComment,
           Terminator, Plain, InCode
  <2>2. t \in Call /\ t.at \in 1 .. Len(t.raw)
    BY <2>1, TopCall DEF Scans, InputTyped
  <2>3. t.raw \in Text
    BY <2>2, Calls
  <2> HIDE DEF t
  <2> QED
    BY <2>2, <2>3 DEF Text
<1> DEFINE fw == Forward(t)
           cp == Copies(t, c)
<1>2. fw \in Call /\ fw.errs = t.errs /\ cp \in Call /\ cp.errs = t.errs
  BY <1>1, ForwardCall
<1>3. CASE InQuote
  <2> DEFINE g == [cp EXCEPT !.quote = IF c = @ THEN "" ELSE @]
  <2>1. Becomes(g)
    BY <1>3 DEF InQuote
  <2>2. "" \in Token
    BY DEF Token
  <2> HIDE DEF t, cp, c
  <2>3. g \in Call /\ g.errs = cp.errs
    BY <1>2, <2>2 DEF Call
  <2> HIDE DEF g
  <2> QED
    BY <1>2, <2>1, <2>3 DEF Same, t
<1>4. CASE InBlock
  <2> DEFINE g == [fw EXCEPT !.blk = c # "*/"]
  <2>1. Becomes(g)
    BY <1>4 DEF InBlock
  <2> HIDE DEF t, fw, c
  <2>2. g \in Call /\ g.errs = fw.errs
    BY <1>2 DEF Call
  <2> HIDE DEF g
  <2> QED
    BY <1>2, <2>1, <2>2 DEF Same, t
<1>5. CASE OpenQuote
  <2> DEFINE g == [cp EXCEPT !.quote = c]
  <2>1. Becomes(g)
    BY <1>5 DEF OpenQuote
  <2> HIDE DEF t, cp, c
  <2>2. g \in Call /\ g.errs = cp.errs
    BY <1>1, <1>2 DEF Call
  <2> HIDE DEF g
  <2> QED
    BY <1>2, <2>1, <2>2 DEF Same, t
<1>6. CASE OpenBlock
  <2> DEFINE g == [fw EXCEPT !.blk = TRUE]
  <2>1. Becomes(g)
    BY <1>6 DEF OpenBlock
  <2> HIDE DEF t, fw
  <2>2. g \in Call /\ g.errs = fw.errs
    BY <1>2 DEF Call
  <2> HIDE DEF g
  <2> QED
    BY <1>2, <2>1, <2>2 DEF Same, t
<1>7. CASE LineComment
  <2> DEFINE g == [t EXCEPT !.at = Len(t.raw) + 1]
  <2>1. Becomes(g)
    BY <1>7 DEF LineComment
  <2>2. t.raw \in Text
    BY <1>1, Calls
  <2> HIDE DEF t
  <2>3. Len(t.raw) + 1 \in Nat
    BY <2>2 DEF Text
  <2>4. g \in Call /\ g.errs = t.errs
    BY <1>1, <2>3 DEF Call
  <2> HIDE DEF g
  <2> QED
    BY <2>1, <2>4 DEF Same, t
<1>8. CASE Terminator
  <2> DEFINE w == Pending(WithText(t))
             g == [fw EXCEPT !.exec = w, !.stmt = <<>>, !.buf = <<>>]
  <2>1. Becomes(g)
    BY <1>8 DEF Terminator
  <2>2. WithText(t) \in Text
    BY <1>1, WithTextText
  <2>3. w \in Seq(Text) /\ <<>> \in Text
    BY <2>2, Joins, BlankIsToken
  <2> HIDE DEF t, fw, w
  <2>4. g \in Call /\ g.errs = fw.errs
    BY <1>2, <2>3 DEF Call
  <2> HIDE DEF g
  <2> QED
    BY <1>2, <2>1, <2>4 DEF Same, t
<1>9. CASE Plain
  BY <1>2, <1>9 DEF Plain, Same
<1> QED
  BY <1>3, <1>4, <1>5, <1>6, <1>7, <1>8, <1>9 DEF Scanning

(* The end of a line and the last statement of a file keep the call in shape *)
(* and its account as it is.                                                 *)
LEMMA EndLineStep ==
  ASSUME InputTyped, EndLine \/ LastStatement
  PROVE  \E f : Same(f)
<1> DEFINE t == Top
           w == WithText(t)
           g == [t EXCEPT !.stmt = w, !.buf = <<>>, !.raw = <<>>,
                          !.at = NoLine]
           h == [t EXCEPT !.exec = <<t.stmt>>, !.stmt = <<>>]
<1>1. t \in Call
  BY TopCall DEF InputTyped, EndLine, LastStatement, Ended, Idle
<1>2. Becomes(g) \/ Becomes(h)
  BY DEF EndLine, LastStatement
<1>3. w \in Text /\ <<>> \in Text
  BY <1>1, WithTextText, Together DEF Text
<1>4. t.stmt \in Text
  BY <1>1, Calls
<1> HIDE DEF t, w
<1>5. g \in Call /\ g.errs = t.errs
  BY <1>1, <1>3 DEF Call, NoLine
<1>6. h \in Call /\ h.errs = t.errs
  BY <1>1, <1>3, <1>4, Together DEF Call
<1> HIDE DEF g, h
<1> QED
  BY <1>2, <1>5, <1>6 DEF Same, t

-----------------------------------------------------------------------------
(* The line editor, key by key *)

left  == Before
right == From(cursor)

(* Texts with the same tokens are the same.                                *)
LEMMA SameText ==
  ASSUME NEW a \in Text, NEW b \in Text, Len(a) = Len(b),
         \A i \in 1 .. Len(a) : a[i] = b[i]
  PROVE  a = b
  BY DEF Text

(* The two halves of a text.                                               *)
LEMMA Halves ==
  ASSUME NEW a \in Text, NEW b \in Text
  PROVE  /\ a \o b \in Text /\ Len(a) \in 0 .. Len(a \o b)
         /\ SubSeq(a \o b, 1, Len(a)) = a
         /\ SubSeq(a \o b, Len(a) + 1, Len(a \o b)) = b
<1> DEFINE s == a \o b
<1>1. /\ s \in Text /\ Len(s) = Len(a) + Len(b)
      /\ Len(a) \in Nat /\ Len(b) \in Nat
  BY DEF Text
<1>2. \A i \in 1 .. Len(a) : s[i] = a[i]
  BY DEF Text
<1>3. \A i \in 1 .. Len(b) : s[Len(a) + i] = b[i]
  BY DEF Text
<1> HIDE DEF s
<1>4. SubSeq(s, 1, Len(a)) = a
  <2> DEFINE u == SubSeq(s, 1, Len(a))
  <2>1. u \in Text /\ Len(u) = Len(a)
    BY <1>1 DEF Text
  <2>2. \A i \in 1 .. Len(a) : u[i] = a[i]
    BY <1>1, <1>2 DEF Text
  <2> HIDE DEF u
  <2> QED
    BY <2>1, <2>2 DEF Text, u
<1>5. SubSeq(s, Len(a) + 1, Len(s)) = b
  <2> DEFINE u == SubSeq(s, Len(a) + 1, Len(s))
  <2>1. u \in Text /\ Len(u) = Len(b)
    BY <1>1 DEF Text
  <2>2. \A i \in 1 .. Len(b) : u[i] = s[Len(a) + i]
    BY <1>1 DEF Text
  <2> HIDE DEF u
  <2> QED
    BY <1>3, <2>1, <2>2 DEF Text, u
<1> QED
  BY <1>1, <1>4, <1>5 DEF s

(* The line is what stands before the cursor and what stands after it.     *)
LEMMA Parts ==
  ASSUME ReaderTyped
  PROVE  /\ left \in Text /\ right \in Text /\ line = left \o right
         /\ Len(left) = cursor /\ Len(right) = Len(line) - cursor
         /\ \A i \in 1 .. cursor : left[i] = line[i]
         /\ \A i \in 1 .. Len(right) : right[i] = line[cursor + i]
<1>1. line \in Text /\ Len(line) \in Nat /\ cursor \in 0 .. Len(line)
  BY DEF ReaderTyped, Text
<1>2. /\ left \in Text /\ Len(left) = cursor
      /\ \A i \in 1 .. cursor : left[i] = line[i]
  BY <1>1 DEF left, Before, Text
<1>3. /\ right \in Text /\ Len(right) = Len(line) - cursor
      /\ \A i \in 1 .. Len(right) : right[i] = line[cursor + i]
  BY <1>1 DEF right, From, Text
<1>4. line = left \o right
  <2> DEFINE s == left \o right
  <2>1. s \in Text /\ Len(s) = Len(line)
    BY <1>1, <1>2, <1>3 DEF Text
  <2>2. \A i \in 1 .. Len(line) : s[i] = line[i]
    <3> SUFFICES ASSUME NEW i \in 1 .. Len(line) PROVE s[i] = line[i]
      OBVIOUS
    <3>1. CASE i <= cursor
      BY <1>1, <1>2, <1>3, <3>1 DEF Text
    <3>2. CASE i > cursor
      <4>1. i - cursor \in 1 .. Len(right)
        BY <1>1, <1>3, <3>2
      <4>2. s[cursor + (i - cursor)] = right[i - cursor]
        BY <1>2, <1>3, <4>1 DEF Text
      <4>3. cursor + (i - cursor) = i
        BY <1>1
      <4>4. right[i - cursor] = line[i]
        BY <1>3, <4>1, <4>3
      <4> HIDE DEF s
      <4> QED
        BY <4>2, <4>3, <4>4
    <3>3. i <= cursor \/ i > cursor
      BY <1>1
    <3> HIDE DEF s
    <3> QED
      BY <3>1, <3>2, <3>3
  <2> HIDE DEF s
  <2>3. s = line
    BY <1>1, <2>1, <2>2, SameText
  <2> QED
    BY <2>3 DEF s
<1> QED
  BY <1>2, <1>3, <1>4

(* A key that leaves a before the cursor and b after it does what a caret  *)
(* moved there does.                                                       *)
LEMMA EditStep ==
  ASSUME ReaderTyped, NEW a \in Text, NEW b \in Text, Edit(a \o b, Len(a))
  PROVE  ReaderTyped' /\ Editor!Caret(a, b)
<1>1. line' = a \o b /\ cursor' = Len(a)
  BY DEF Edit
<1>2. UNCHANGED <<histIdx, savedLine, history>>
  BY DEF Edit
<1>3. ReaderTyped'
  BY <1>1, <1>2, Halves DEF ReaderTyped
<1>4. Before' = a /\ From(cursor)' = b
  BY <1>1, Halves DEF Before, From
<1> QED
  BY <1>2, <1>3, <1>4 DEF Editor!Caret

(* Around the cursor there is a first and a last token.                    *)
LEMMA Ends ==
  ASSUME NEW a \in Text, a # <<>>
  PROVE  /\ Len(a) - 1 \in 0 .. Len(a)
         /\ a[1] \in Token /\ Tail(a) \in Text /\ a = <<a[1]>> \o Tail(a)
         /\ a[Len(a)] \in Token /\ SubSeq(a, 1, Len(a) - 1) \in Text
         /\ Len(SubSeq(a, 1, Len(a) - 1)) = Len(a) - 1
         /\ a = Append(SubSeq(a, 1, Len(a) - 1), a[Len(a)])
<1>1. Len(a) \in Nat \ {0}
  BY DEF Text
<1>2. Tail(a) \in Text /\ Len(Tail(a)) = Len(a) - 1
  BY DEF Text
<1>3. a[1] \in Token /\ a[Len(a)] \in Token
  BY <1>1 DEF Text
<1>4. a = <<a[1]>> \o Tail(a)
  <2> DEFINE s == <<a[1]>> \o Tail(a)
  <2>1. s \in Text
    BY <1>2, <1>3, Joins
  <2>2. Len(s) = Len(a)
    BY <1>1, <1>2, <1>3 DEF Text
  <2>3. \A i \in 1 .. Len(a) : s[i] = a[i]
    BY <1>1, <1>2, <1>3 DEF Text
  <2> HIDE DEF s
  <2>4. s = a
    BY <2>1, <2>2, <2>3, SameText
  <2> QED
    BY <2>4 DEF s
<1> DEFINE f == SubSeq(a, 1, Len(a) - 1)
<1>5. f \in Text /\ Len(f) = Len(a) - 1
  <2>1. 1 \in 1 .. Len(a) + 1 /\ Len(a) - 1 \in 0 .. Len(a)
    BY <1>1
  <2>2. f \in Text
    BY <2>1, Piece DEF Text
  <2>3. Len(f) = IF 1 <= Len(a) - 1 THEN Len(a) - 1 - 1 + 1 ELSE 0
    BY <2>1, Piece DEF Text
  <2> DEFINE n == Len(a)
  <2> HIDE DEF f
  <2>4. n \in Nat \ {0} /\ Len(f) = IF 1 <= n - 1 THEN n - 1 - 1 + 1 ELSE 0
    BY <1>1, <2>3
  <2> HIDE DEF n
  <2>5. Len(f) = n - 1
    BY <2>4
  <2> QED
    BY <2>2, <2>5 DEF n
<1>6. a = Append(f, a[Len(a)])
  <2> DEFINE s == Append(f, a[Len(a)])
  <2>1. s \in Text
    BY <1>3, <1>5, Joins
  <2>2. Len(s) = Len(a)
    BY <1>1, <1>3, <1>5 DEF Text
  <2>3. \A i \in 1 .. Len(a) : s[i] = a[i]
    BY <1>1, <1>3, <1>5 DEF Text
  <2> HIDE DEF s
  <2>4. s = a
    BY <2>1, <2>2, <2>3, SameText
  <2> QED
    BY <2>4 DEF s
<1> QED
  BY <1>1, <1>2, <1>3, <1>4, <1>5, <1>6

(* Moving a token over the cursor leaves the text.                         *)
LEMMA Over ==
  ASSUME NEW a \in Text, NEW c \in Token, NEW b \in Text
  PROVE  Append(a, c) \o b = a \o (<<c>> \o b)
<1>1. a \in Seq(Token) /\ b \in Seq(Token) /\ <<c>> \in Seq(Token)
  BY Together DEF Text
<1>2. Append(a, c) = a \o <<c>>
  BY <1>1, AppendIsConcat
<1> QED
  BY <1>1, <1>2, ConcatAssociative

(* Typing a character is the editor's Insert.                                *)
LEMMA InsertStep ==
  ASSUME ReaderTyped, NEW c \in Char, Insert(c)
  PROVE  ReaderTyped' /\ Editor!Insert(c)
<1> DEFINE a == Append(left, c)
<1>1. left \in Text /\ right \in Text /\ Len(left) = cursor /\ c \in Token
  BY Parts, BlankIsToken
<1>2. a \in Text /\ Len(a) = cursor + 1
  BY <1>1 DEF Text
<1>3. Edit(a \o right, Len(a))
  BY <1>2 DEF Insert, left, right
<1>4. ReaderTyped' /\ Editor!Caret(a, right)
  BY <1>1, <1>2, <1>3, EditStep
<1> QED
  BY <1>4 DEF Editor!Insert, left, right

(* Backspace is the editor's Backspace.                                      *)
LEMMA BackspaceStep ==
  ASSUME ReaderTyped, Backspace
  PROVE  ReaderTyped' /\ Editor!Backspace
<1> DEFINE a == SubSeq(left, 1, Len(left) - 1)
<1>1. /\ left \in Text /\ right \in Text /\ Len(left) = cursor
      /\ cursor > 0 /\ line \in Text /\ cursor \in 0 .. Len(line)
  BY Parts DEF Backspace, ReaderTyped
<1>2. left # <<>>
  BY <1>1 DEF Text
<1>3. a \in Text /\ Len(a) = cursor - 1
  BY <1>1, <1>2, Ends
<1>4. a = SubSeq(line, 1, cursor - 1)
  BY <1>1, SubSeqOfSubSeq DEF left, Before, Text
<1>5. Edit(a \o right, Len(a))
  BY <1>3, <1>4 DEF Backspace, right
<1>6. ReaderTyped' /\ Editor!Caret(a, right)
  BY <1>1, <1>3, <1>5, EditStep
<1> QED
  BY <1>2, <1>6 DEF Editor!Backspace, left, right

(* Delete is the editor's Delete.                                            *)
LEMMA DeleteStep ==
  ASSUME ReaderTyped, DeleteKey
  PROVE  ReaderTyped' /\ Editor!Delete
<1>1. /\ left \in Text /\ right \in Text /\ Len(left) = cursor
      /\ Len(right) = Len(line) - cursor
      /\ cursor < Len(line) /\ line \in Text /\ cursor \in 0 .. Len(line)
  BY Parts DEF DeleteKey, ReaderTyped
<1>2. right # <<>>
  BY <1>1 DEF Text
<1>3. Tail(right) \in Text
  BY <1>1, <1>2, Ends
<1>4. From(cursor + 1) = Tail(right)
  <2> DEFINE s == From(cursor + 1)
  <2>1. s \in Text /\ Len(s) = Len(line) - cursor - 1
    BY <1>1 DEF From, Text
  <2>2. \A i \in 1 .. Len(s) : s[i] = line[cursor + 1 + i]
    BY <1>1 DEF From, Text
  <2>3. Len(Tail(right)) = Len(right) - 1
    BY <1>1, <1>2 DEF Text
  <2>4. \A i \in 1 .. Len(right) - 1 : Tail(right)[i] = right[i + 1]
    BY <1>1, <1>2 DEF Text
  <2>5. \A i \in 1 .. Len(right) : right[i] = line[cursor + i]
    BY Parts
  <2> HIDE DEF s
  <2>6. ASSUME NEW i \in 1 .. Len(s) PROVE s[i] = Tail(right)[i]
    <3>1. i \in 1 .. Len(right) - 1 /\ i + 1 \in 1 .. Len(right)
      BY <1>1, <2>1 DEF Text
    <3>2. /\ s[i] = line[cursor + 1 + i]
          /\ Tail(right)[i] = line[cursor + (i + 1)]
      BY <2>2, <2>4, <2>5, <3>1
    <3>3. cursor + 1 + i = cursor + (i + 1)
      BY <1>1, <3>1
    <3> QED
      BY <3>2, <3>3
  <2>7. s = Tail(right)
    BY <1>1, <1>3, <2>1, <2>3, <2>6, SameText
  <2> QED
    BY <2>7 DEF s
<1>5. Edit(left \o Tail(right), Len(left))
  BY <1>1, <1>4 DEF DeleteKey, left
<1>6. ReaderTyped' /\ Editor!Caret(left, Tail(right))
  BY <1>1, <1>3, <1>5, EditStep
<1> QED
  BY <1>2, <1>6 DEF Editor!Delete, left, right

(* The left arrow is the editor's MoveLeft.                                  *)
LEMMA LeftStep ==
  ASSUME ReaderTyped, CurLeft
  PROVE  ReaderTyped' /\ Editor!MoveLeft
<1> DEFINE a == SubSeq(left, 1, Len(left) - 1)
           c == left[Len(left)]
           b == <<c>> \o right
<1>1. /\ left \in Text /\ right \in Text /\ Len(left) = cursor
      /\ cursor > 0 /\ line = left \o right
  BY Parts DEF CurLeft
<1>2. left # <<>>
  BY <1>1 DEF Text
<1>3. a \in Text /\ Len(a) = cursor - 1 /\ c \in Token /\ left = Append(a, c)
  BY <1>1, <1>2, Ends
<1>4. b \in Text
  BY <1>1, <1>3, Joins
<1> HIDE DEF a, c
<1>5. line = a \o b
  BY <1>1, <1>3, Over
<1>6. Edit(a \o b, Len(a))
  BY <1>3, <1>5 DEF CurLeft
<1> HIDE DEF b
<1>7. ReaderTyped' /\ Editor!Caret(a, b)
  BY <1>3, <1>4, <1>6, EditStep
<1> QED
  BY <1>2, <1>7 DEF Editor!MoveLeft, left, right, a, b, c

(* The right arrow is the editor's MoveRight.                                *)
LEMMA RightStep ==
  ASSUME ReaderTyped, CurRight
  PROVE  ReaderTyped' /\ Editor!MoveRight
<1> DEFINE c == right[1]
           a == Append(left, c)
           b == Tail(right)
<1>1. /\ left \in Text /\ right \in Text /\ Len(left) = cursor
      /\ Len(right) = Len(line) - cursor /\ Len(line) \in Nat
      /\ cursor \in Nat /\ cursor < Len(line) /\ line = left \o right
  BY Parts DEF CurRight, ReaderTyped, Text
<1>2. right # <<>>
  BY <1>1 DEF Text
<1>3. b \in Text /\ c \in Token /\ right = <<c>> \o b
  BY <1>1, <1>2, Ends
<1> HIDE DEF c, b
<1>4. a \in Text /\ Len(a) = cursor + 1
  BY <1>1, <1>3 DEF Text
<1>5. line = a \o b
  BY <1>1, <1>3, Over
<1> HIDE DEF a
<1>6. Edit(a \o b, Len(a))
  BY <1>4, <1>5 DEF CurRight
<1>7. ReaderTyped' /\ Editor!Caret(a, b)
  BY <1>3, <1>4, <1>6, EditStep
<1> QED
  BY <1>2, <1>7 DEF Editor!MoveRight, left, right, a, b, c

(* An empty text adds nothing.                                             *)
LEMMA Nothing ==
  ASSUME NEW a \in Text
  PROVE  /\ <<>> \in Text /\ <<>> \o a = a /\ a \o <<>> = a
         /\ Len(<<>>) = 0 /\ Len(a) \in Nat
  BY DEF Text

(* Home and End move the editor's cursor to the ends of the line.            *)
LEMMA HomeEndStep ==
  ASSUME ReaderTyped
  PROVE  /\ HomeKey => ReaderTyped' /\ Editor!Home
         /\ EndKey => ReaderTyped' /\ Editor!End
         /\ KillLine => ReaderTyped' /\ Editor!KillToEnd
<1>1. /\ left \in Text /\ right \in Text /\ Len(left) = cursor
      /\ line = left \o right /\ line \in Text
  BY Parts DEF ReaderTyped
<1>2. Editor!text = line
  BY <1>1 DEF Editor!text, left, right
<1>3. ASSUME HomeKey PROVE ReaderTyped' /\ Editor!Home
  <2>1. Edit(<<>> \o line, Len(<<>>))
    BY <1>1, <1>3, Nothing DEF HomeKey
  <2>2. ReaderTyped' /\ Editor!Caret(<<>>, line)
    BY <1>1, <2>1, Nothing, EditStep
  <2> QED
    BY <1>2, <2>2 DEF Editor!Home
<1>4. ASSUME EndKey PROVE ReaderTyped' /\ Editor!End
  <2>1. Edit(line \o <<>>, Len(line))
    BY <1>1, <1>4, Nothing DEF EndKey
  <2>2. ReaderTyped' /\ Editor!Caret(line, <<>>)
    BY <1>1, <2>1, Nothing, EditStep
  <2> QED
    BY <1>2, <2>2 DEF Editor!End
<1>5. ASSUME KillLine PROVE ReaderTyped' /\ Editor!KillToEnd
  <2>1. Edit(left \o <<>>, Len(left))
    BY <1>1, <1>5, Nothing DEF KillLine, left
  <2>2. ReaderTyped' /\ Editor!Caret(left, <<>>)
    BY <1>1, <2>1, Nothing, EditStep
  <2> QED
    BY <2>2 DEF Editor!KillToEnd, left
<1> QED
  BY <1>3, <1>4, <1>5

(* The last place up to n at which something holds, or else 0.             *)
LEMMA LastPlace ==
  ASSUME NEW n \in Nat, NEW E, E \subseteq 1 .. n
  PROVE  LET k == Max({0} \cup E)
         IN  k \in 0 .. n /\ (k = 0 \/ k \in E) /\ \A i \in E : i <= k
<1> DEFINE S == {0} \cup E
<1>1. S \in SUBSET Nat /\ S # {} /\ \A x \in S : x <= n
  OBVIOUS
<1> HIDE DEF S
<1>2. Max(S) \in S /\ \A y \in S : y <= Max(S)
  BY <1>1, Greatest
<1>3. Max(S) \in {0} \cup E /\ \A i \in E : i <= Max(S)
  BY <1>2 DEF S
<1>4. Max(S) \in 0 .. n
  <2>1. \A k \in E : k \in 0 .. n
    OBVIOUS
  <2>2. 0 \in 0 .. n
    OBVIOUS
  <2> QED
    BY <1>3, <2>1, <2>2
<1>5. Max(S) = Max({0} \cup E)
  BY DEF S
<1> QED
  BY <1>3, <1>4, <1>5

(* Ctrl-W is the editor's KillWord.                                          *)
LEMMA KillWordStep ==
  ASSUME ReaderTyped, KillWord
  PROVE  ReaderTyped' /\ Editor!KillWord
<1> DEFINE V == {i \in 1 .. cursor : line[i] # Blank}
           word == Max({0} \cup V)
           W == {i \in 1 .. word : line[i] = Blank}
           at == Max({0} \cup W)
           a == SubSeq(left, 1, at)
<1>1. /\ left \in Text /\ right \in Text /\ Len(left) = cursor
      /\ line \in Text /\ cursor \in 0 .. Len(line) /\ cursor \in Nat
      /\ \A i \in 1 .. cursor : left[i] = line[i]
  BY Parts DEF ReaderTyped, Text
<1>2. Edit(SubSeq(line, 1, at) \o right, at)
  BY DEF KillWord, LastWhere, right
<1>3. /\ word \in 0 .. cursor /\ (word = 0 \/ word \in V)
      /\ \A i \in V : i <= word
  <2> V \subseteq 1 .. cursor
    OBVIOUS
  <2> HIDE DEF V
  <2> QED
    BY <1>1, LastPlace
<1>4. /\ at \in 0 .. word /\ (at = 0 \/ at \in W)
      /\ \A i \in W : i <= at
  <2>1. word \in Nat
    BY <1>1, <1>3
  <2> HIDE DEF word
  <2> W \subseteq 1 .. word
    OBVIOUS
  <2> HIDE DEF W
  <2> QED
    BY <2>1, LastPlace
<1> HIDE DEF word, at
<1>5. /\ \A i \in at + 1 .. word : left[i] # Blank
      /\ \A i \in word + 1 .. Len(left) : left[i] = Blank
      /\ at = 0 \/ (left[at] = Blank /\ at < word)
  <2>1. ASSUME NEW i \in at + 1 .. word PROVE left[i] # Blank
    <3>1. i \in 1 .. word /\ i \in 1 .. cursor /\ ~(i <= at)
      BY <1>1, <1>3, <1>4
    <3>2. i \notin W
      BY <1>4, <3>1
    <3> QED
      BY <1>1, <3>1, <3>2
  <2>2. ASSUME NEW i \in word + 1 .. Len(left) PROVE left[i] = Blank
    <3>1. i \in 1 .. cursor /\ ~(i <= word)
      BY <1>1, <1>3
    <3>2. i \notin V
      BY <1>3, <3>1
    <3> QED
      BY <1>1, <3>1, <3>2
  <2>3. ASSUME at # 0 PROVE left[at] = Blank /\ at < word
    <3>1. at \in W /\ at \in 1 .. word /\ at \in 1 .. cursor /\ word # 0
      BY <1>1, <1>3, <1>4, <2>3
    <3>2. line[at] = Blank /\ line[word] # Blank
      BY <1>3, <3>1
    <3> QED
      BY <1>1, <1>3, <3>1, <3>2
  <2> QED
    BY <2>1, <2>2, <2>3
<1>6. at \in 0 .. Len(left) /\ word \in at .. Len(left)
  BY <1>1, <1>3, <1>4
<1>7. a \in Text /\ Len(a) = at
  <2>1. 1 \in 1 .. Len(left) + 1
    BY <1>1
  <2> QED
    BY <1>1, <1>6, <2>1, Piece DEF Text
<1>8. a = SubSeq(line, 1, at)
  <2> DEFINE s == SubSeq(line, 1, at)
  <2>1. at \in 0 .. Len(line) /\ 1 \in 1 .. Len(line) + 1 /\ Len(line) \in Nat
    BY <1>1, <1>6 DEF Text
  <2>2. s \in Text /\ Len(s) = at /\ \A i \in 1 .. at : s[i] = line[i]
    BY <1>1, <2>1, Piece DEF Text
  <2>3. \A i \in 1 .. at : a[i] = left[i]
    BY <1>1, <1>6, Piece DEF Text
  <2> HIDE DEF s, a
  <2>4. \A i \in 1 .. at : a[i] = s[i]
    BY <1>1, <1>6, <2>2, <2>3
  <2>5. a = s
    BY <1>7, <2>2, <2>4, SameText
  <2> QED
    BY <2>5 DEF s
<1>9. Edit(a \o right, Len(a))
  BY <1>2, <1>7, <1>8
<1> HIDE DEF a
<1>10. ReaderTyped' /\ Editor!Caret(a, right)
  BY <1>1, <1>7, <1>9, EditStep
<1>11. Editor!WordEnds(at, word)
  BY <1>5 DEF Editor!WordEnds, left
<1> QED
  BY <1>6, <1>10, <1>11 DEF Editor!KillWord, left, right, a

-----------------------------------------------------------------------------
(* The history *)

past == Reverse(history)

(* The entries read from the latest are the history's entries.               *)
LEMMA ReverseText ==
  ASSUME NEW h \in Seq(Text)
  PROVE  /\ Reverse(h) \in Seq(Text) /\ Len(Reverse(h)) = Len(h)
         /\ \A i \in 1 .. Len(h) : Reverse(h)[i] = h[Len(h) - i + 1]
<1>1. Len(h) \in Nat
  OBVIOUS
<1>2. \A i \in 1 .. Len(h) : Len(h) - i + 1 \in 1 .. Len(h)
  BY <1>1
<1>3. \A i \in 1 .. Len(h) : h[Len(h) - i + 1] \in Text
  BY <1>2
<1> QED
  BY <1>1, <1>2, <1>3 DEF Reverse

(* Histories with the same lines are the same.                             *)
LEMMA SameLines ==
  ASSUME NEW a \in Seq(Text), NEW b \in Seq(Text), Len(a) = Len(b),
         \A i \in 1 .. Len(a) : a[i] = b[i]
  PROVE  a = b
  OBVIOUS

(* A line joins a history the latest first as it does the oldest first.    *)
LatestFirst(p, l) ==
  IF l = <<>> \/ (p # <<>> /\ p[1] = l) THEN p
  ELSE <<l>> \o (IF Len(p) < MaxHistory THEN p
                                     ELSE SubSeq(p, 1, MaxHistory - 1))

(* addHistory() seen from the latest entry: the line is put in front and the *)
(* oldest entry falls out when there are too many.                           *)
LEMMA AddedLine ==
  ASSUME NEW h \in Seq(Text), Len(h) <= MaxHistory, NEW l \in Text
  PROVE  /\ AddedTo(h, l) \in Seq(Text) /\ Len(AddedTo(h, l)) <= MaxHistory
         /\ Reverse(AddedTo(h, l)) = LatestFirst(Reverse(h), l)
         /\ AddedTo(h, l) # h =>
              AddedTo(h, l) # <<>> /\ Reverse(AddedTo(h, l))[1] = l
<1> DEFINE p == Reverse(h)
           g == AddedTo(h, l)
           n == Len(h)
<1>1. /\ p \in Seq(Text) /\ Len(p) = n
      /\ \A i \in 1 .. n : p[i] = h[n - i + 1]
  BY ReverseText
<1>2. n \in Nat /\ MaxHistory \in Nat \ {0}
  BY ReaderAssumption DEF ReaderAssumption
<1>3. h # <<>> <=> n > 0
  OBVIOUS
<1>4. p # <<>> <=> n > 0
  BY <1>1, <1>2
<1>5. n > 0 => p[1] = h[n]
  BY <1>1, <1>2
<1>6. CASE l = <<>> \/ (h # <<>> /\ h[n] = l)
  <2>1. g = h
    BY <1>6 DEF AddedTo
  <2>2. LatestFirst(p, l) = p
    BY <1>3, <1>4, <1>5, <1>6 DEF LatestFirst
  <2> HIDE DEF g, p
  <2> QED
    BY <2>1, <2>2 DEF g, p
<1>7. CASE ~(l = <<>> \/ (h # <<>> /\ h[n] = l)) /\ n < MaxHistory
  <2>1. g = Append(h, l)
    BY <1>2, <1>7 DEF AddedTo
  <2>2. LatestFirst(p, l) = <<l>> \o p
    BY <1>1, <1>3, <1>4, <1>5, <1>7 DEF LatestFirst
  <2> DEFINE q == <<l>> \o p
  <2> HIDE DEF p, g
  <2>3. /\ q \in Seq(Text) /\ Len(q) = n + 1 /\ q[1] = l
        /\ \A i \in 1 .. n : q[i + 1] = p[i]
    BY <1>1, <1>2
  <2>4. /\ g \in Seq(Text) /\ Len(g) = n + 1 /\ g[n + 1] = l
        /\ \A i \in 1 .. n : g[i] = h[i]
    BY <1>2, <2>1
  <2>5. /\ Reverse(g) \in Seq(Text) /\ Len(Reverse(g)) = n + 1
        /\ \A i \in 1 .. n + 1 : Reverse(g)[i] = g[n + 1 - i + 1]
    BY <2>4, ReverseText
  <2> HIDE DEF q
  <2>6. Reverse(g)[1] = l
    BY <1>2, <2>4, <2>5
  <2>7. ASSUME NEW i \in 1 .. n + 1 PROVE Reverse(g)[i] = q[i]
    <3>1. CASE i = 1
      BY <2>3, <2>6, <3>1
    <3>2. CASE i # 1
      <4>1. i - 1 \in 1 .. n /\ n - (i - 1) + 1 \in 1 .. n
        BY <1>2, <3>2
      <4>2. q[(i - 1) + 1] = h[n - (i - 1) + 1]
        <5>1. q[(i - 1) + 1] = p[i - 1]
          BY <2>3, <4>1
        <5>2. p[i - 1] = h[n - (i - 1) + 1]
          BY <1>1, <4>1
        <5> QED
          BY <5>1, <5>2
      <4>3. (i - 1) + 1 = i /\ n + 1 - i + 1 = n - (i - 1) + 1
        BY <1>2
      <4>4. Reverse(g)[i] = h[n - (i - 1) + 1]
        BY <2>4, <2>5, <4>1, <4>3
      <4> QED
        BY <4>2, <4>3, <4>4
    <3> QED
      BY <3>1, <3>2
  <2>8. Reverse(g) = q
    BY <2>3, <2>5, <2>7, SameLines
  <2>9. Len(g) <= MaxHistory /\ g # <<>>
    BY <1>2, <1>7, <2>4
  <2> QED
    BY <2>2, <2>4, <2>6, <2>8, <2>9 DEF g, q, p
<1>8. CASE ~(l = <<>> \/ (h # <<>> /\ h[n] = l)) /\ n = MaxHistory
  <2>1. g = Append(Tail(h), l)
    BY <1>2, <1>8 DEF AddedTo
  <2> DEFINE r == SubSeq(p, 1, MaxHistory - 1)
             q == <<l>> \o r
             t == Tail(h)
  <2>2. LatestFirst(p, l) = q
    BY <1>1, <1>2, <1>3, <1>4, <1>5, <1>8 DEF LatestFirst
  <2>3. /\ t \in Seq(Text) /\ Len(t) = n - 1
        /\ \A i \in 1 .. n - 1 : t[i] = h[i + 1]
    BY <1>2, <1>3, <1>8
  <2> HIDE DEF p, g, t
  <2>4. /\ r \in Seq(Text) /\ Len(r) = n - 1
        /\ \A i \in 1 .. n - 1 : r[i] = p[i]
    <3>1. 1 \in 1 .. Len(p) + 1 /\ n - 1 \in 0 .. Len(p)
      BY <1>1, <1>2, <1>8
    <3> QED
      BY <1>1, <1>2, <1>8, <3>1, Piece
  <2> HIDE DEF r
  <2>5. /\ q \in Seq(Text) /\ Len(q) = n /\ q[1] = l
        /\ \A i \in 1 .. n - 1 : q[i + 1] = r[i]
    BY <1>2, <2>4
  <2>6. /\ g \in Seq(Text) /\ Len(g) = n /\ g[n] = l
        /\ \A i \in 1 .. n - 1 : g[i] = t[i]
    <3>1. g = Append(t, l)
      BY <2>1 DEF t
    <3> QED
      BY <1>2, <2>3, <3>1
  <2>7. /\ Reverse(g) \in Seq(Text) /\ Len(Reverse(g)) = n
        /\ \A i \in 1 .. n : Reverse(g)[i] = g[n - i + 1]
    BY <2>6, ReverseText
  <2> HIDE DEF q
  <2>8. Reverse(g)[1] = l
    <3>1. 1 \in 1 .. n /\ n - 1 + 1 = n
      BY <1>2, <1>8
    <3> QED
      BY <2>6, <2>7, <3>1
  <2>9. ASSUME NEW i \in 1 .. n PROVE Reverse(g)[i] = q[i]
    <3>1. CASE i = 1
      BY <2>5, <2>8, <3>1
    <3>2. CASE i # 1
      <4>1. /\ i - 1 \in 1 .. n - 1 /\ n - i + 1 \in 1 .. n - 1
            /\ i - 1 \in 1 .. n
        BY <1>2, <3>2
      <4>2. (i - 1) + 1 = i /\ (n - i + 1) + 1 = n - (i - 1) + 1
        BY <1>2
      <4>3. q[i] = p[i - 1]
        BY <2>4, <2>5, <4>1, <4>2
      <4>4. p[i - 1] = h[n - (i - 1) + 1]
        BY <1>1, <4>1
      <4>5. Reverse(g)[i] = h[(n - i + 1) + 1]
        BY <2>3, <2>6, <2>7, <4>1
      <4> QED
        BY <4>2, <4>3, <4>4, <4>5
    <3> QED
      BY <3>1, <3>2
  <2>10. Reverse(g) = q
    BY <2>5, <2>7, <2>9, SameLines
  <2>11. Len(g) <= MaxHistory /\ g # <<>>
    BY <1>2, <1>8, <2>6
  <2> QED
    BY <2>2, <2>6, <2>8, <2>10, <2>11 DEF g, p
<1> QED
  BY <1>2, <1>6, <1>7, <1>8

(* Going back to a line shows the one that LineEditor means.               *)
LEMMA BackStep ==
  ASSUME ReaderTyped, HistBack
  PROVE  ReaderTyped' /\ Editor!Back
<1> DEFINE n == Len(history)
           place == IF histIdx = -1 THEN 0 ELSE n - histIdx
<1>1. /\ history \in Seq(Text) /\ n \in Nat /\ n > 0
      /\ history' = history /\ history # <<>> /\ n <= MaxHistory
      /\ histIdx \in -1 .. n - 1
      /\ line \in Text /\ savedLine \in Text
  BY DEF HistBack, ReaderTyped
<1>2. /\ past \in Seq(Text) /\ Len(past) = n
      /\ \A i \in 1 .. n : past[i] = history[n - i + 1]
  BY <1>1, ReverseText DEF past
<1>3. past # <<>>
  BY <1>1, <1>2
<1>4. \/ histIdx = -1 /\ savedLine' = line /\ histIdx' = n - 1
      \/ histIdx > 0 /\ histIdx' = histIdx - 1 /\ savedLine' = savedLine
      \/ histIdx = 0 /\ histIdx' = 0 /\ savedLine' = savedLine
  BY <1>1 DEF HistBack, SaveLine
<1>5. histIdx' \in 0 .. n - 1 /\ savedLine' \in Text
  BY <1>1, <1>4
<1>6. line' = history[histIdx' + 1] /\ cursor' = Len(line')
  BY DEF HistBack, ShowEntry
<1>7. line' \in Text /\ Len(line') \in Nat
  <2>1. histIdx' + 1 \in 1 .. n
    <3> HIDE DEF n
    <3>1. \A i \in 0 .. n - 1 : i + 1 \in 1 .. n
      BY <1>1
    <3> QED
      BY <1>5, <3>1
  <2>2. line' \in Text
    BY <1>1, <1>6, <2>1
  <2> QED
    BY <2>2 DEF Text
<1>8. ReaderTyped'
  BY <1>1, <1>5, <1>6, <1>7 DEF ReaderTyped
<1>9. Before' = line' /\ From(cursor)' = <<>>
  <2>1. line' \o <<>> = line'
    BY <1>7, Nothing
  <2>2. /\ SubSeq(line', 1, Len(line')) = line'
        /\ SubSeq(line', Len(line') + 1, Len(line')) = <<>>
    BY <1>7, <2>1, Halves, Nothing
  <2> QED
    BY <1>6, <2>2 DEF Before, From
<1>10. place' = n - histIdx'
  BY <1>1, <1>5
<1>11. place' = IF place < n THEN place + 1 ELSE place
  BY <1>1, <1>4, <1>10
<1>12. line' = past[place']
  <2>1. n - histIdx' \in 1 .. n /\ n - (n - histIdx') + 1 = histIdx' + 1
    BY <1>1, <1>5
  <2> HIDE DEF place
  <2> QED
    BY <1>2, <1>6, <1>10, <2>1
<1>13. savedLine' = IF place = 0 THEN line ELSE savedLine
  BY <1>1, <1>4
<1>14. line = left \o right
  BY Parts
<1>15. past' = past
  BY <1>1 DEF past
<1> QED
  <2>1. Editor!text = line
    BY <1>14 DEF Editor!text, left, right
  <2>2. Editor!Show(past[place'])
    BY <1>9, <1>12, <1>15 DEF Editor!Show, past
  <2> QED
    BY <1>2, <1>3, <1>8, <1>11, <1>13, <2>1, <2>2 DEF Editor!Back, past

(* The down arrow is the editor's Forth, unless there is no history.         *)
LEMMA ForthStep ==
  ASSUME ReaderTyped, HistFwd
  PROVE  ReaderTyped' /\ (Editor!Forth \/ DownOnNothing)
<1> DEFINE n == Len(history)
           place == IF histIdx = -1 THEN 0 ELSE n - histIdx
<1>1. /\ history \in Seq(Text) /\ n \in Nat
      /\ history' = history /\ n <= MaxHistory
      /\ histIdx \in -1 .. n - 1
      /\ savedLine \in Text
      /\ histIdx = -1 => savedLine = <<>>
  BY DEF HistFwd, ReaderTyped
<1>2. /\ past \in Seq(Text) /\ Len(past) = n
      /\ \A i \in 1 .. n : past[i] = history[n - i + 1]
  BY <1>1, ReverseText DEF past
<1>3. /\ line' \in Text /\ cursor' = Len(line') /\ savedLine' \in Text
      /\ histIdx' \in -1 .. n - 1
      /\ histIdx' = -1 => savedLine' = <<>>
  <2>1. CASE /\ histIdx >= 0 /\ histIdx < n - 1 /\ histIdx' = histIdx + 1
             /\ ShowEntry(histIdx') /\ savedLine' = savedLine
    <3>1. histIdx' + 1 \in 1 .. n
      BY <1>1, <2>1
    <3> QED
      BY <1>1, <2>1, <3>1 DEF ShowEntry
  <2>2. CASE /\ histIdx = n - 1 /\ histIdx' = -1 /\ line' = savedLine
             /\ cursor' = Len(line') /\ savedLine' = <<>>
    BY <1>1, <2>2, Nothing
  <2> QED
    BY <2>1, <2>2 DEF HistFwd
<1>4. ReaderTyped'
  <2>1. Len(line') \in Nat
    BY <1>3 DEF Text
  <2> QED
    BY <1>1, <1>3, <2>1 DEF ReaderTyped
<1>5. Before' = line' /\ From(cursor)' = <<>>
  <2>1. line' \o <<>> = line'
    BY <1>3, Nothing
  <2>2. /\ SubSeq(line', 1, Len(line')) = line'
        /\ SubSeq(line', Len(line') + 1, Len(line')) = <<>>
    BY <1>3, <2>1, Halves, Nothing
  <2> QED
    BY <1>3, <2>2 DEF Before, From
<1>6. past' = past
  BY <1>1 DEF past
<1>7. Editor!Show(line')
  BY <1>5, <1>6 DEF Editor!Show, past
<1>8. CASE /\ histIdx >= 0 /\ histIdx < n - 1 /\ histIdx' = histIdx + 1
           /\ ShowEntry(histIdx') /\ savedLine' = savedLine
  <2>1. place > 1 /\ place' = place - 1 /\ place' = n - histIdx'
    BY <1>1, <1>8
  <2>2. line' = past[place']
    <3>1. n - histIdx' \in 1 .. n /\ n - (n - histIdx') + 1 = histIdx' + 1
      BY <1>1, <1>8
    <3>2. line' = history[histIdx' + 1]
      BY <1>8 DEF ShowEntry
    <3> HIDE DEF place
    <3> QED
      BY <1>2, <2>1, <3>1, <3>2
  <2> QED
    BY <1>4, <1>7, <1>8, <2>1, <2>2 DEF Editor!Forth, past
<1>9. CASE /\ histIdx = n - 1 /\ histIdx' = -1 /\ line' = savedLine
           /\ cursor' = Len(line') /\ savedLine' = <<>>
  <2>1. CASE histIdx = -1
    <3>1. history = <<>>
      BY <1>1, <1>9, <2>1
    <3> QED
      BY <1>4, <3>1 DEF DownOnNothing
  <2>2. CASE histIdx # -1
    <3>1. place = 1 /\ place' = 0
      BY <1>1, <1>9, <2>2
    <3> QED
      BY <1>4, <1>7, <1>9, <3>1 DEF Editor!Forth
  <2> QED
    BY <2>1, <2>2
<1> QED
  BY <1>8, <1>9 DEF HistFwd

(* Return leaves an empty line, and remembers the one there was without    *)
(* the blanks at its end.                                                  *)
LEMMA TrimmedLine ==
  ASSUME NEW l \in Text
  PROVE  \E k \in 0 .. Len(l) :
           /\ TrimRight(l) = SubSeq(l, 1, k) /\ TrimRight(l) \in Text
           /\ Len(TrimRight(l)) = k
           /\ k = 0 \/ l[k] # Blank
           /\ \A i \in k + 1 .. Len(l) : l[i] = Blank
<1> DEFINE E == {i \in 1 .. Len(l) : l[i] # Blank}
           k == Max({0} \cup E)
<1>1. Len(l) \in Nat
  BY DEF Text
<1>2. k \in 0 .. Len(l) /\ (k = 0 \/ k \in E) /\ \A i \in E : i <= k
  <2> E \subseteq 1 .. Len(l)
    OBVIOUS
  <2> HIDE DEF E
  <2> QED
    BY <1>1, LastPlace
<1>3. TrimRight(l) = SubSeq(l, 1, k)
  BY DEF TrimRight
<1> HIDE DEF k
<1>4. SubSeq(l, 1, k) \in Text /\ Len(SubSeq(l, 1, k)) = k
  <2>1. 1 \in 1 .. Len(l) + 1
    BY <1>1
  <2> QED
    BY <1>1, <1>2, <2>1, Piece DEF Text
<1>5. ASSUME NEW i \in k + 1 .. Len(l) PROVE l[i] = Blank
  <2>1. i \in 1 .. Len(l) /\ ~(i <= k)
    BY <1>1, <1>2
  <2> QED
    BY <1>2, <2>1
<1> QED
  BY <1>2, <1>3, <1>4, <1>5

(* Enter is the editor's Enter.                                              *)
LEMMA EnterStep ==
  ASSUME ReaderTyped, EnterKey
  PROVE  ReaderTyped' /\ Editor!Enter
<1> DEFINE l == TrimRight(line)
<1>1. line \in Text /\ history \in Seq(Text) /\ Len(history) <= MaxHistory
  BY DEF ReaderTyped
<1>2. PICK k \in 0 .. Len(line) :
           /\ l = SubSeq(line, 1, k) /\ l \in Text
           /\ k = 0 \/ line[k] # Blank
           /\ \A i \in k + 1 .. Len(line) : line[i] = Blank
  BY <1>1, TrimmedLine
<1> HIDE DEF l
<1>3. history' = AddedTo(history, l) /\ FreshLine
  BY DEF EnterKey, l
<1>4. /\ AddedTo(history, l) \in Seq(Text)
      /\ Len(AddedTo(history, l)) <= MaxHistory
      /\ Reverse(AddedTo(history, l)) = LatestFirst(past, l)
  BY <1>1, <1>2, AddedLine DEF past
<1>5. ReaderTyped'
  BY <1>3, <1>4, Nothing DEF ReaderTyped, FreshLine
<1>6. Editor!text = line
  BY Parts DEF Editor!text, left, right
<1>7. Editor!IsTrimmed(l, line)
  BY <1>2 DEF Editor!IsTrimmed
<1>8. Reverse(history)' = Editor!Remembered(l)
  BY <1>3, <1>4 DEF LatestFirst, Editor!Remembered, past
<1>9. /\ Before' = <<>> /\ From(cursor)' = <<>>
      /\ histIdx' = -1 /\ savedLine' = <<>>
  <2>1. <<>> \in Text /\ <<>> \o <<>> = <<>> /\ Len(<<>>) = 0
    <3>1. <<>> \in Text
      BY DEF Text
    <3> QED
      BY <3>1, Nothing
  <2>2. SubSeq(<<>>, 1, 0) = <<>> /\ SubSeq(<<>>, 0 + 1, Len(<<>>)) = <<>>
    BY <2>1, Halves
  <2> QED
    BY <1>3, <2>2 DEF FreshLine, Before, From
<1> QED
  BY <1>2, <1>5, <1>6, <1>7, <1>8, <1>9 DEF Editor!Enter

(* A command of several lines is remembered, too.                          *)
LEMMA AddHistoryStep ==
  ASSUME ReaderTyped, NEW l \in Text, AddHistory(l)
  PROVE  /\ ReaderTyped' /\ UNCHANGED <<line, cursor, histIdx, savedLine>>
         /\ histIdx = -1 => Editor!Remember \/ UNCHANGED reader
<1>1. history \in Seq(Text) /\ Len(history) <= MaxHistory
  BY DEF ReaderTyped
<1>2. /\ history' = AddedTo(history, l)
      /\ UNCHANGED <<line, cursor, histIdx, savedLine>>
  BY DEF AddHistory
<1>3. /\ AddedTo(history, l) \in Seq(Text)
      /\ Len(AddedTo(history, l)) <= MaxHistory
      /\ Reverse(AddedTo(history, l)) = LatestFirst(past, l)
      /\ AddedTo(history, l) # history =>
           AddedTo(history, l) # <<>> /\ Reverse(AddedTo(history, l))[1] = l
  BY <1>1, AddedLine DEF past
<1>4. ASSUME histIdx = -1, history' # history PROVE Editor!Remember
  <2>1. history' # <<>> /\ past'[1] = l /\ past' = LatestFirst(past, l)
    BY <1>2, <1>3, <1>4 DEF past
  <2>2. past' # <<>>
    BY <1>2, <1>3, <2>1, ReverseText DEF past
  <2>3. past' = Editor!Remembered(l)
    BY <2>1 DEF LatestFirst, Editor!Remembered, past
  <2>4. Before' = Before /\ From(cursor)' = From(cursor)
    BY <1>2 DEF Before, From
  <2> QED
    BY <1>2, <1>4, <2>1, <2>2, <2>3, <2>4 DEF Editor!Remember, past
<1>5. histIdx = -1 => histIdx' = -1
  BY <1>2
<1>6. ReaderTyped'
  <2>1. Len(history) <= Len(AddedTo(history, l))
    BY <1>1, ReaderAssumption DEF AddedTo, ReaderAssumption
  <2> QED
    BY <1>1, <1>2, <1>3, <2>1 DEF ReaderTyped
<1> QED
  BY <1>2, <1>4, <1>6 DEF reader

(* Every key does what LineEditor promises of it, or finds no history.     *)
LEMMA KeyStep ==
  ASSUME ReaderTyped, Key
  PROVE  ReaderTyped' /\ EditorStep
  BY InsertStep, BackspaceStep, DeleteStep, LeftStep, RightStep, HomeEndStep,
     KillWordStep, BackStep, ForthStep
    DEF Key, EditorStep, Editor!Next

-----------------------------------------------------------------------------
(* The invariant *)

(* At the start nothing is typed, called or failed.                        *)
LEMMA InputInit == Init => InputInv
<1> SUFFICES ASSUME Init PROVE InputInv
  OBVIOUS
<1>1. <<>> \in Text /\ <<>> \in Seq(Text) /\ Len(<<>>) = 0
  BY DEF Text
<1>2. ReaderTyped
  <2>1. /\ line = <<>> /\ cursor = 0 /\ histIdx = -1 /\ savedLine = <<>>
        /\ history = <<>>
    BY DEF Init, ReaderInit
  <2> QED
    BY <1>1, <2>1, ReaderAssumption DEF ReaderTyped, ReaderAssumption
<1>3. Frame(<<>>) \in Call /\ Frame(<<>>).errs = 0
  BY <1>1, NewCall
<1>4. mode \in {"tty", "file"} /\ pc = IF mode = "tty" THEN "edit" ELSE "run"
  BY InputAssumption DEF Init, InputAssumption
<1> DEFINE f == Frame(<<>>)
<1>5. frames = IF mode = "tty" THEN <<>> ELSE <<f>>
  BY DEF Init
<1> HIDE DEF f
<1>6. /\ f \in Call /\ f.errs = 0 /\ <<f>> \in Seq(Call) /\ Len(<<f>>) = 1
      /\ <<f>>[1] = f /\ <<>> \in Seq(Call)
  BY <1>3 DEF f
<1>7. InputTyped
  BY <1>1, <1>4, <1>5, <1>6 DEF Init, InputTyped
<1>8. AwayFromLine
  BY DEF Init, ReaderInit, AwayFromLine
<1>9. Counted
  <2> SUFFICES ASSUME mode = "file"
               PROVE  /\ pc = "run" /\ depth > 0
                      /\ bad <=> \E k \in 1 .. depth : frames[k].errs > 0
    BY DEF Counted
  <2>1. pc = "run" /\ frames = <<f>> /\ bad = FALSE
    BY <1>4, <1>5 DEF Init
  <2>2. depth = 1 /\ frames[1].errs = 0
    BY <1>6, <2>1 DEF depth
  <2> QED
    BY <2>1, <2>2
<1> QED
  BY <1>2, <1>7, <1>8, <1>9 DEF InputInv

(* While a script runs, the failures are on the accounts of its calls.     *)
LEMMA ScriptRuns ==
  ASSUME Counted, mode = "file", depth > 0
  PROVE  pc = "run" /\ (bad <=> \E k \in 1 .. depth : frames[k].errs > 0)
<1>1. frames # <<>>
  <2>1. Len(<<>>) = 0
    OBVIOUS
  <2> QED
    BY <2>1 DEF depth
<1> QED
  BY <1>1 DEF Counted

(* A step of a script changes its innermost call only, and no failure.     *)
LEMMA ScriptStep ==
  ASSUME InputInv, depth > 0, NEW f, Same(f)
  PROVE  InputInv' /\ UNCHANGED reader
<1>1. /\ frames \in Seq(Call) /\ f \in Call /\ f.errs = frames[depth].errs
      /\ frames' = [frames EXCEPT ![depth] = f] /\ depth \in Nat
      /\ depth = Len(frames)
  BY DEF InputInv, InputTyped, Same, Becomes, Top, depth
<1>2. /\ frames' \in Seq(Call) /\ Len(frames') = depth
      /\ \A k \in 1 .. depth : frames'[k].errs = frames[k].errs
  BY <1>1
<1>3. UNCHANGED <<reader, fullCmd, mode, pc, result, pend, bad>>
  BY DEF Same, Becomes, InScript, prompt, author
<1>4. depth' = depth
  BY <1>2 DEF depth
<1>5. ReaderTyped' /\ AwayFromLine'
  BY <1>3 DEF InputInv, ReaderTyped, AwayFromLine, reader
<1>6. InputTyped'
  BY <1>2, <1>3 DEF InputInv, InputTyped
<1>7. Counted'
  <2>1. (\E k \in 1 .. depth : frames[k].errs > 0)
          <=> (\E k \in 1 .. depth' : frames'[k].errs > 0)
    BY <1>2, <1>4
  <2>2. mode = "file" => pc = "run"
    BY ScriptRuns DEF InputInv
  <2>3. mode = "file" => (bad <=> \E k \in 1 .. depth : frames[k].errs > 0)
    BY ScriptRuns DEF InputInv
  <2> QED
    BY <1>3, <1>4, <2>1, <2>2, <2>3 DEF Counted
<1> QED
  BY <1>3, <1>5, <1>6, <1>7 DEF InputInv

(* Coming back from a script hands its failures to the call it was in.     *)
LEMMA EndFileStep ==
  ASSUME InputInv, EndFile
  PROVE  InputInv' /\ UNCHANGED reader
<1> DEFINE e == frames[depth].errs
<1>1. /\ frames \in Seq(Call) /\ depth \in Nat /\ depth > 0
      /\ depth = Len(frames)
  BY DEF InputInv, InputTyped, EndFile, Ended, Idle, depth
<1>2. UNCHANGED <<reader, fullCmd, mode, pend, bad>>
  BY DEF EndFile, prompt, author
<1>3. ReaderTyped'
  BY <1>2 DEF InputInv, ReaderTyped, reader
<1>4. AwayFromLine'
  <2>1. mode = "file" => pc = "run"
    BY <1>1, ScriptRuns DEF InputInv
  <2>2. UNCHANGED pc \/ (mode = "file" /\ pc' = "done")
    BY DEF EndFile
  <2> QED
    BY <1>2, <2>1, <2>2 DEF InputInv, AwayFromLine, reader
<1>5. e \in Nat
  <2>1. frames[depth] \in Call
    BY <1>1
  <2> QED
    BY <2>1, Calls
<1>6. CASE depth = 1
  <2>1. frames' = <<>>
    BY <1>6 DEF EndFile
  <2>2. IF mode = "file" THEN pc' = "done" /\ result' = e
                         ELSE UNCHANGED <<pc, result>>
    BY <1>6 DEF EndFile, Top
  <2>3. <<>> \in Seq(Call)
    OBVIOUS
  <2>4. InputTyped'
    BY <1>2, <1>5, <2>1, <2>2, <2>3 DEF InputInv, InputTyped
  <2>5. Counted'
    <3> SUFFICES ASSUME mode = "file"
                 PROVE  /\ pc' = "done" /\ frames' = <<>>
                        /\ bad' <=> result' > 0
      BY <1>2 DEF Counted
    <3>1. bad <=> \E k \in 1 .. depth : frames[k].errs > 0
      BY <1>1, ScriptRuns DEF InputInv
    <3>2. bad <=> e > 0
      BY <1>6, <3>1
    <3>3. bad \in BOOLEAN
      BY DEF InputInv, InputTyped
    <3> QED
      BY <1>2, <2>1, <2>2, <3>2, <3>3
  <2> QED
    BY <1>2, <1>3, <1>4, <2>4, <2>5 DEF InputInv
<1>7. CASE depth > 1
  <2> DEFINE fs == SubSeq(frames, 1, depth - 1)
             d == frames[depth - 1]
             n == d.errs + Failure(e)
             g == [d EXCEPT !.errs = n]
  <2>1. /\ fs \in Seq(Call) /\ Len(fs) = depth - 1
        /\ \A k \in 1 .. depth - 1 : fs[k] = frames[k]
    BY <1>1, <1>7
  <2>2. d \in Call /\ d.errs \in Nat
    <3>1. d \in Call
      BY <1>1, <1>7
    <3> QED
      BY <3>1, Calls
  <2>3. n \in Nat /\ (n > 0 <=> d.errs > 0 \/ e > 0)
    BY <1>5, <2>2 DEF Failure
  <2>4. frames' = [fs EXCEPT ![depth - 1].errs = @ + Failure(e)]
    <3>1. depth # 1
      BY <1>1, <1>7
    <3>2. frames' = [SubSeq(frames, 1, depth - 1) EXCEPT
                       ![depth - 1].errs = @ + Failure(Top.errs)]
      BY <3>1, Zenon DEF EndFile
    <3>3. Top.errs = e
      BY DEF Top
    <3> QED
      BY <3>2, <3>3
  <2>5. fs[depth - 1] = d
    BY <1>1, <1>7, <2>1
  <2>6. frames' = [fs EXCEPT ![depth - 1] = g]
    BY <2>4, <2>5
  <2> HIDE DEF fs, n, d
  <2>7. g \in Call /\ g.errs = n
    BY <2>2, <2>3 DEF Call
  <2> HIDE DEF g
  <2>8. /\ frames' \in Seq(Call) /\ Len(frames') = depth - 1
        /\ frames'[depth - 1] = g
        /\ \A k \in 1 .. depth - 2 : frames'[k] = frames[k]
    BY <1>1, <1>7, <2>1, <2>6, <2>7
  <2>9. UNCHANGED <<pc, result>>
    BY <1>1, <1>7 DEF EndFile
  <2>10. InputTyped'
    BY <1>2, <2>8, <2>9 DEF InputInv, InputTyped
  <2>11. Counted'
    <3> SUFFICES ASSUME mode = "file"
                 PROVE  /\ pc' = "run" /\ depth' > 0
                        /\ bad' <=> \E k \in 1 .. depth' : frames'[k].errs > 0
      BY <1>2 DEF Counted
    <3>1. pc = "run" /\ (bad <=> \E k \in 1 .. depth : frames[k].errs > 0)
      BY <1>1, ScriptRuns DEF InputInv
    <3>2. depth' = depth - 1
      BY <2>8 DEF depth
    <3>3. ASSUME bad PROVE \E k \in 1 .. depth - 1 : frames'[k].errs > 0
      <4>1. PICK k \in 1 .. depth : frames[k].errs > 0
        BY <3>1, <3>3
      <4>2. CASE k \in 1 .. depth - 2
        BY <1>1, <1>7, <2>8, <4>1, <4>2
      <4>3. CASE k \in {depth - 1, depth}
        <5>1. n > 0
          BY <2>3, <4>1, <4>3 DEF d
        <5> QED
          BY <1>1, <1>7, <2>7, <2>8, <5>1
      <4> QED
        BY <1>1, <4>2, <4>3
    <3>4. ASSUME NEW k \in 1 .. depth - 1, frames'[k].errs > 0 PROVE bad
      <4>1. CASE k \in 1 .. depth - 2
        BY <1>1, <2>8, <3>1, <3>4, <4>1
      <4>2. CASE k = depth - 1
        <5>1. d.errs > 0 \/ e > 0
          BY <2>3, <2>7, <2>8, <3>4, <4>2
        <5> QED
          BY <1>1, <1>7, <3>1, <5>1 DEF d
      <4> QED
        BY <1>1, <4>1, <4>2
    <3>5. bad \in BOOLEAN
      BY DEF InputInv, InputTyped
    <3> QED
      BY <1>1, <1>2, <1>7, <2>9, <3>1, <3>2, <3>3, <3>4, <3>5
  <2> QED
    BY <1>2, <1>3, <1>4, <2>10, <2>11 DEF InputInv
<1> QED
  BY <1>1, <1>6, <1>7

(* Executing a statement counts its failure, if it fails, where it is run. *)
LEMMA TakesStep ==
  ASSUME InputInv, pc = "run", Due # <<>>, NEW failed \in BOOLEAN,
         Takes(failed), UNCHANGED <<reader, fullCmd, mode, pc, result, author>>
  PROVE  InputInv' /\ UNCHANGED reader
<1>1. /\ frames \in Seq(Call) /\ depth \in Nat /\ depth = Len(frames)
  BY DEF InputInv, InputTyped, depth
<1>2. UNCHANGED <<reader, fullCmd, mode, pc, result, pend>>
  BY DEF author
<1>3. ReaderTyped' /\ AwayFromLine'
  BY <1>2 DEF InputInv, ReaderTyped, AwayFromLine, reader
<1>4. (bad' <=> bad \/ failed) /\ bad' \in BOOLEAN
  <2>1. bad' = (bad \/ failed)
    BY DEF Takes
  <2>2. bad \in BOOLEAN /\ failed \in BOOLEAN
    BY DEF InputInv, InputTyped
  <2> QED
    BY <2>1, <2>2
<1>5. CASE depth = 0
  <2>1. frames' = frames
    BY <1>5 DEF Takes
  <2>2. InputTyped'
    BY <1>2, <1>4, <2>1 DEF InputInv, InputTyped
  <2>3. mode # "file"
    BY <1>5 DEF InputInv, Counted
  <2> QED
    BY <1>2, <1>3, <2>2, <2>3 DEF InputInv, Counted
<1>6. CASE depth > 0
  <2> DEFINE t == frames[depth]
             x == Tail(t.exec)
             n == t.errs + IF failed THEN 1 ELSE 0
             g == [t EXCEPT !.exec = x, !.errs = n]
  <2>1. t \in Call
    BY <1>1, <1>6
  <2>2. t.exec # <<>>
    BY <1>6 DEF Due, Top
  <2>3. t.exec \in Seq(Text) /\ t.errs \in Nat
    BY <2>1, Calls
  <2>4. frames' = [frames EXCEPT ![depth].exec = Tail(@),
                                 ![depth].errs = @ + IF failed THEN 1 ELSE 0]
    <3>1. depth # 0
      BY <1>6
    <3> QED
      BY <3>1, Zenon DEF Takes
  <2>5. frames' = [frames EXCEPT ![depth] = g]
    BY <1>1, <1>6, <2>4
  <2> HIDE DEF t
  <2>6. x \in Seq(Text)
    BY <2>2, <2>3
  <2>7. n \in Nat /\ (n > 0 <=> t.errs > 0 \/ failed)
    BY <2>3
  <2> HIDE DEF x, n
  <2>8. g \in Call /\ g.errs = n
    BY <2>1, <2>6, <2>7 DEF Call
  <2> HIDE DEF g
  <2>9. /\ frames' \in Seq(Call) /\ Len(frames') = depth
        /\ frames'[depth] = g
        /\ \A k \in 1 .. depth - 1 : frames'[k] = frames[k]
    BY <1>1, <1>6, <2>5, <2>8
  <2>10. InputTyped'
    BY <1>2, <1>4, <2>9 DEF InputInv, InputTyped
  <2>11. Counted'
    <3> SUFFICES ASSUME mode = "file"
                 PROVE  /\ pc' = "run" /\ depth' > 0
                        /\ bad' <=> \E k \in 1 .. depth' : frames'[k].errs > 0
      BY <1>2 DEF Counted
    <3>1. pc = "run" /\ (bad <=> \E k \in 1 .. depth : frames[k].errs > 0)
      BY <1>6, ScriptRuns DEF InputInv
    <3>2. depth' = depth
      BY <2>9 DEF depth
    <3>3. ASSUME bad' PROVE \E k \in 1 .. depth : frames'[k].errs > 0
      <4>1. CASE failed
        BY <1>1, <1>6, <2>7, <2>8, <2>9, <4>1
      <4>2. CASE bad
        <5>1. PICK k \in 1 .. depth : frames[k].errs > 0
          BY <3>1, <4>2
        <5>2. CASE k = depth
          BY <2>7, <2>8, <2>9, <5>1, <5>2 DEF t
        <5>3. CASE k # depth
          BY <1>1, <2>9, <5>1, <5>3
        <5> QED
          BY <5>2, <5>3
      <4> QED
        BY <1>4, <3>3, <4>1, <4>2
    <3>4. ASSUME NEW k \in 1 .. depth, frames'[k].errs > 0 PROVE bad'
      <4>1. CASE k = depth
        <5>1. t.errs > 0 \/ failed
          BY <2>7, <2>8, <2>9, <3>4, <4>1
        <5> QED
          BY <1>1, <1>4, <1>6, <3>1, <5>1 DEF t
      <4>2. CASE k # depth
        BY <1>1, <1>4, <2>9, <3>1, <3>4, <4>2
      <4> QED
        BY <4>1, <4>2
    <3> QED
      BY <1>2, <1>6, <3>1, <3>2, <3>3, <3>4
  <2> QED
    BY <1>2, <1>3, <2>10, <2>11 DEF InputInv
<1> QED
  BY <1>1, <1>5, <1>6

(* Opening a file begins a call without failures.                          *)
LEMMA SourceStep ==
  ASSUME InputInv, Source
  PROVE  InputInv' /\ UNCHANGED reader
<1> DEFINE f == Frame(Files[FileOf(Head(Due))[1]])
<1>1. /\ frames \in Seq(Call) /\ depth \in Nat /\ depth = Len(frames)
  BY DEF InputInv, InputTyped, depth
<1>2. UNCHANGED <<reader, fullCmd, mode, pc, result, pend, bad>>
  BY DEF Source, Executes, author
<1>3. ReaderTyped' /\ AwayFromLine'
  BY <1>2 DEF InputInv, ReaderTyped, AwayFromLine, reader
<1>4. f \in Call /\ f.errs = 0
  <2>1. FileOf(Head(Due))[1] \in DOMAIN Files
    BY DEF Source, CanOpen
  <2> QED
    BY <2>1, ConstantTexts, NewCall
<1>5. CASE depth = 0
  <2>1. frames' = <<f>>
    BY <1>5 DEF Source
  <2> HIDE DEF f
  <2>2. frames' \in Seq(Call)
    BY <1>4, <2>1
  <2>3. InputTyped'
    BY <1>2, <2>2 DEF InputInv, InputTyped
  <2>4. mode # "file"
    BY <1>5 DEF InputInv, Counted, Source, Executes
  <2> QED
    BY <1>2, <1>3, <2>3, <2>4 DEF InputInv, Counted
<1>6. CASE depth > 0
  <2> DEFINE t == frames[depth]
             x == Tail(t.exec)
             g == [t EXCEPT !.exec = x]
             fs == [frames EXCEPT ![depth] = g]
  <2>1. t \in Call
    BY <1>1, <1>6
  <2>2. t.exec # <<>>
    BY <1>6 DEF Source, Executes, Due, Top
  <2>3. t.exec \in Seq(Text)
    BY <2>1, Calls
  <2>4. frames' = Append([frames EXCEPT ![depth].exec = Tail(@)], f)
    <3>1. depth # 0
      BY <1>6
    <3> QED
      BY <3>1, Zenon DEF Source
  <2>5. [frames EXCEPT ![depth].exec = Tail(@)] = fs
    BY <1>1, <1>6
  <2>6. frames' = Append(fs, f)
    BY <2>4, <2>5
  <2> HIDE DEF t, f
  <2>7. x \in Seq(Text)
    BY <2>2, <2>3
  <2> HIDE DEF x
  <2>8. g \in Call /\ g.errs = t.errs
    BY <2>1, <2>7 DEF Call
  <2> HIDE DEF g
  <2>9. /\ fs \in Seq(Call) /\ Len(fs) = depth
        /\ \A k \in 1 .. depth : fs[k].errs = frames[k].errs
    BY <1>1, <1>6, <2>8 DEF t
  <2> HIDE DEF fs
  <2>10. /\ frames' \in Seq(Call) /\ Len(frames') = depth + 1
         /\ frames'[depth + 1].errs = 0
         /\ \A k \in 1 .. depth : frames'[k].errs = frames[k].errs
    BY <1>1, <1>4, <2>6, <2>9
  <2>11. InputTyped'
    BY <1>2, <2>10 DEF InputInv, InputTyped
  <2>12. Counted'
    <3> SUFFICES ASSUME mode = "file"
                 PROVE  /\ pc' = "run" /\ depth' > 0
                        /\ bad' <=> \E k \in 1 .. depth' : frames'[k].errs > 0
      BY <1>2 DEF Counted
    <3>1. pc = "run" /\ (bad <=> \E k \in 1 .. depth : frames[k].errs > 0)
      BY <1>6, ScriptRuns DEF InputInv
    <3>2. depth' = depth + 1
      BY <2>10 DEF depth
    <3>3. \A k \in 1 .. depth + 1 : k # depth + 1 => k \in 1 .. depth
      BY <1>1
    <3>4. \A k \in 1 .. depth : k \in 1 .. depth + 1
      BY <1>1
    <3>5. (\E k \in 1 .. depth + 1 : frames'[k].errs > 0)
            <=> (\E k \in 1 .. depth : frames[k].errs > 0)
      BY <2>10, <3>3, <3>4
    <3> QED
      BY <1>1, <1>2, <3>1, <3>2, <3>5
  <2> QED
    BY <1>2, <1>3, <2>11, <2>12 DEF InputInv
<1> QED
  BY <1>1, <1>5, <1>6

(* The only call of a sequence, replaced.                                  *)
LEMMA OnlyCall ==
  ASSUME NEW S, NEW s \in Seq(S), Len(s) = 1, NEW g \in S
  PROVE  /\ [s EXCEPT ![1] = g] \in Seq(S)
         /\ Len([s EXCEPT ![1] = g]) = 1 /\ [s EXCEPT ![1] = g][1] = g
<1>1. 1 \in 1 .. Len(s)
  OBVIOUS
<1> QED
  BY <1>1, ExceptSeq

(* Writing a script adds lines to the outermost call.                      *)
LEMMA WriteStep ==
  ASSUME InputInv, Write
  PROVE  InputInv' /\ UNCHANGED reader
<1>1. PICK p \in Text : pend' = p
  <2>1. pend \in Text
    BY DEF InputInv, InputTyped
  <2>2. Words \cup Literals \cup Marks \cup Junk \cup DOMAIN Files
          \subseteq Token
    BY InputAssumption DEF InputAssumption, Token
  <2>3. {"'", "\"", "/*", "*/", "source"} \subseteq Token /\ Blank \in Token
    BY BlankIsToken DEF Token
  <2>4. \A c \in Token : pend \o <<c>> \in Text
    BY <2>1, Together DEF Text
  <2>5. \A c, d, e \in Token : <<c, d, e>> \in Text
    BY DEF Text
  <2>6. \A c, d, e \in Token : pend \o <<c, d, e>> \in Text
    BY <2>1, <2>5, Together DEF Text
  <2>7. \A c, d, e \in Token, t \in Text : pend \o (<<c, d, e>> \o t) \in Text
    BY <2>1, <2>5, Together DEF Text
  <2>8. <<>> \in Text
    BY DEF Text
  <2>9. ASSUME NEW w \in Words, WriteWord(w) PROVE pend' \in Text
    BY <2>2, <2>4, <2>9 DEF WriteWord, Adds
  <2>10. ASSUME NEW q \in {"'", "\""}, NEW x \in Literals, WriteLiteral(q, x)
         PROVE  pend' \in Text
    BY <2>2, <2>3, <2>6, <2>10 DEF WriteLiteral, Adds
  <2>11. ASSUME NEW m \in Marks \cup {"/*"}, WriteComment(m)
         PROVE  pend' \in Text
    BY <2>2, <2>3, <2>4, <2>11 DEF WriteComment, Adds
  <2>12. ASSUME NEW x \in Junk, WriteJunk(x) PROVE pend' \in Text
    BY <2>2, <2>4, <2>12 DEF WriteJunk, Adds
  <2>13. ASSUME NEW f \in DOMAIN Files, NEW t \in Tails, WriteSource(f, t)
         PROVE  pend' \in Text
    BY <2>2, <2>3, <2>7, <2>13, ConstantTexts DEF WriteSource, Adds
  <2>14. ASSUME CloseComment PROVE pend' \in Text
    BY <2>3, <2>4, <2>14 DEF CloseComment, Adds
  <2>15. ASSUME NewLine \/ EndOfInput PROVE pend' \in Text
    BY <2>8, <2>15 DEF NewLine, EndOfInput
  <2> QED
    BY <2>9, <2>10, <2>11, <2>12, <2>13, <2>14, <2>15 DEF Write
<1>2. /\ depth = 1 /\ mode = "file"
      /\ UNCHANGED <<reader, fullCmd, mode, pc, result, bad>>
  BY DEF Write, WriteWord, WriteLiteral, WriteComment, WriteJunk, WriteSource,
         CloseComment, NewLine, EndOfInput, Writing, prompt
<1>3. frames \in Seq(Call) /\ Len(frames) = 1 /\ frames[1] \in Call
  <2>1. frames \in Seq(Call) /\ Len(frames) = 1
    BY <1>2 DEF InputInv, InputTyped, depth
  <2>2. 1 \in 1 .. Len(frames)
    BY <2>1
  <2> QED
    BY <2>1, <2>2
<1>4. \/ frames' = frames
      \/ \E ls \in Seq(Text) : frames' = [frames EXCEPT ![1].todo = ls]
  <2>1. pend \in Text
    BY DEF InputInv, InputTyped
  <2>2. <<pend>> \in Seq(Text)
    BY <2>1
  <2>3. Pending(pend) \in Seq(Text)
    BY <2>1, Joins, BlankIsToken
  <2> QED
    BY <2>2, <2>3 DEF Write, WriteWord, WriteLiteral, WriteComment, WriteJunk,
                WriteSource, CloseComment, NewLine, EndOfInput, Adds
<1>5. /\ frames' \in Seq(Call) /\ Len(frames') = 1
      /\ frames'[1].errs = frames[1].errs
  <2>1. ASSUME NEW ls \in Seq(Text), frames' = [frames EXCEPT ![1].todo = ls]
        PROVE  /\ frames' \in Seq(Call) /\ Len(frames') = 1
               /\ frames'[1].errs = frames[1].errs
    <3> DEFINE t == frames[1]
               g == [t EXCEPT !.todo = ls]
    <3>1. t \in Call
      BY <1>3
    <3>2. frames' = [frames EXCEPT ![1] = g]
      BY <1>3, <2>1
    <3> HIDE DEF t
    <3>3. g \in Call /\ g.errs = t.errs
      BY <3>1 DEF Call
    <3> HIDE DEF g
    <3>4. frames' \in Seq(Call) /\ Len(frames') = 1 /\ frames'[1] = g
      BY <1>3, <3>2, <3>3, OnlyCall
    <3> QED
      BY <3>3, <3>4 DEF t
  <2> QED
    BY <1>3, <1>4, <2>1
<1>6. ReaderTyped' /\ AwayFromLine'
  BY <1>2 DEF InputInv, ReaderTyped, AwayFromLine, reader
<1>7. InputTyped'
  BY <1>1, <1>2, <1>5 DEF InputInv, InputTyped
<1>8. Counted'
  <2>1. pc = "run" /\ (bad <=> \E k \in 1 .. depth : frames[k].errs > 0)
    BY <1>2, ScriptRuns DEF InputInv
  <2>2. depth' = 1
    BY <1>5 DEF depth
  <2>3. (\E k \in 1 .. depth : frames[k].errs > 0)
          <=> (\E k \in 1 .. depth' : frames'[k].errs > 0)
    BY <1>2, <1>5, <2>2
  <2> QED
    BY <1>2, <2>1, <2>2, <2>3 DEF Counted
<1> QED
  BY <1>2, <1>6, <1>7, <1>8 DEF InputInv

(* A line typed at the prompt is remembered; what the prompt then does     *)
(* with it concerns neither the editor nor a script.                       *)
LEMMA PromptStep ==
  ASSUME InputInv, Prompt
  PROVE  /\ InputInv'
         /\ EditorStep \/ UNCHANGED reader
<1>1. ReaderTyped /\ InputTyped /\ AwayFromLine /\ Counted
  BY DEF InputInv
<1>2. /\ UNCHANGED <<mode, frames, result, bad, pend>>
      /\ pc \in {"edit", "cont", "run"}
      /\ pc' \in {"edit", "cont", "run", "done"}
  BY DEF Prompt, PressKey, EnterLine, Continue, NextPrompt, Command, author
<1>3. mode # "file" \/ (pc = "run" /\ mode = "tty")
  BY <1>1 DEF Prompt, PressKey, EnterLine, Continue, NextPrompt, Counted
<1>4. mode # "file" /\ mode' # "file"
  BY <1>2, <1>3
<1>5. Counted'
  BY <1>4 DEF Counted
<1>6. CASE PressKey
  <2>1. pc = "edit" /\ Key /\ UNCHANGED <<prompt, pc>>
    BY <1>6 DEF PressKey
  <2>2. ReaderTyped' /\ EditorStep
    BY <1>1, <2>1, KeyStep
  <2>3. InputTyped' /\ AwayFromLine'
    BY <1>1, <1>2, <2>1 DEF InputTyped, AwayFromLine, prompt
  <2> QED
    BY <1>5, <2>2, <2>3 DEF InputInv
<1>7. CASE EnterLine
  <2>1. EnterKey
    BY <1>7 DEF EnterLine
  <2>2. ReaderTyped' /\ EditorStep
    BY <1>1, <2>1, EnterStep DEF EditorStep, Editor!Next
  <2>3. AwayFromLine'
    BY <2>1 DEF EnterKey, FreshLine, AwayFromLine
  <2>4. fullCmd' \in Text
    <3>1. fullCmd \in Text /\ line \in Text /\ <<>> \in Text
      BY <1>1, Nothing DEF InputTyped, ReaderTyped
    <3>2. TrimRight(line) \in Text
      BY <3>1, TrimmedLine
    <3>3. fullCmd' \in {fullCmd, <<>>, TrimRight(line)}
      BY <1>7 DEF EnterLine, Command
    <3> QED
      BY <3>1, <3>2, <3>3
  <2>5. InputTyped'
    BY <1>1, <1>2, <2>4 DEF InputTyped
  <2> QED
    BY <1>5, <2>2, <2>3, <2>5 DEF InputInv
<1>8. ASSUME NEW l \in ContLines, Continue(l)
      PROVE  InputInv' /\ (EditorStep \/ UNCHANGED reader)
  <2>1. pc = "cont" /\ line = <<>> /\ cursor = 0 /\ histIdx = -1
    BY <1>1, <1>8 DEF Continue, AwayFromLine
  <2>2. l \in Text /\ fullCmd \in Text
    BY <1>1, ConstantTexts DEF InputTyped
  <2>3. Joined(l) \in Text
    BY <2>2, Joins, BlankIsToken DEF Joined
  <2>4. /\ \/ \E h \in Text : AddHistory(h)
           \/ UNCHANGED reader
        /\ fullCmd' \in {<<>>, Joined(l)}
    BY <1>8, <2>2, <2>3 DEF Continue, Command
  <2>5. CASE \E h \in Text : AddHistory(h)
    <3>1. PICK h \in Text : AddHistory(h)
      BY <2>5
    <3>2. /\ ReaderTyped' /\ UNCHANGED <<line, cursor, histIdx, savedLine>>
          /\ Editor!Remember \/ UNCHANGED reader
      BY <1>1, <2>1, <3>1, AddHistoryStep
    <3>3. AwayFromLine'
      BY <2>1, <3>2 DEF AwayFromLine
    <3>4. InputTyped'
      BY <1>1, <1>2, <2>3, <2>4, <2>2, Nothing DEF InputTyped
    <3> QED
      BY <1>5, <3>2, <3>3, <3>4 DEF InputInv, EditorStep, Editor!Next
  <2>6. CASE UNCHANGED reader
    <3>1. ReaderTyped' /\ AwayFromLine'
      BY <1>1, <2>1, <2>6 DEF ReaderTyped, AwayFromLine, reader
    <3>2. InputTyped'
      BY <1>1, <1>2, <2>3, <2>4, <2>2, Nothing DEF InputTyped
    <3> QED
      BY <1>5, <2>6, <3>1, <3>2 DEF InputInv
  <2> QED
    BY <2>4, <2>5, <2>6
<1>9. CASE NextPrompt
  <2>1. pc = "run" /\ UNCHANGED <<reader, fullCmd>>
    BY <1>9 DEF NextPrompt, prompt
  <2>2. ReaderTyped' /\ AwayFromLine'
    BY <1>1, <2>1 DEF ReaderTyped, AwayFromLine, reader
  <2>3. InputTyped'
    BY <1>1, <1>2, <2>1 DEF InputTyped
  <2> QED
    BY <1>5, <2>1, <2>2, <2>3 DEF InputInv
<1> QED
  BY <1>6, <1>7, <1>8, <1>9 DEF Prompt

(* Every step keeps the reader typed, the calls in shape and the failures    *)
(* counted.                                                                  *)
LEMMA InputStep ==
  ASSUME InputInv, [Next]_vars
  PROVE  /\ InputInv'
         /\ EditorStep \/ UNCHANGED reader
<1>1. CASE Prompt
  BY <1>1, PromptStep
<1>2. CASE Reading
  <2>1. CASE NextLine
    <3>1. \E f : Same(f)
      BY <2>1, NextLineStep DEF InputInv
    <3>2. depth > 0
      BY <2>1 DEF NextLine, Idle
    <3> QED
      BY <3>1, <3>2, ScriptStep
  <2>2. CASE EndLine \/ LastStatement
    <3>1. \E f : Same(f)
      BY <2>2, EndLineStep DEF InputInv
    <3>2. depth > 0
      BY <2>2 DEF EndLine, LastStatement, Ended, Idle
    <3> QED
      BY <3>1, <3>2, ScriptStep
  <2>3. CASE EndFile
    BY <2>3, EndFileStep
  <2> QED
    BY <1>2, <2>1, <2>2, <2>3 DEF Reading
<1>3. CASE Scanning
  <2>1. \E f : Same(f)
    BY <1>3, ScanStep DEF InputInv
  <2>2. depth > 0
    BY <1>3 DEF Scanning, InQuote, InBlock, OpenQuote, OpenBlock, LineComment,
                Terminator, Plain, InCode, Scans
  <2> QED
    BY <2>1, <2>2, ScriptStep
<1>4. CASE Run
  <2>1. CASE Source
    BY <2>1, SourceStep
  <2>2. CASE RunSql \/ Quit \/ SourceFails
    <3>1. /\ \E failed \in BOOLEAN : Takes(failed)
          /\ pc = "run" /\ Due # <<>>
          /\ UNCHANGED <<reader, fullCmd, mode, pc, result, author>>
      BY <2>2 DEF RunSql, Quit, SourceFails, Executes
    <3> QED
      BY <3>1, TakesStep
  <2> QED
    BY <1>4, <2>1, <2>2 DEF Run
<1>5. CASE Write
  BY <1>5, WriteStep
<1>6. CASE UNCHANGED vars
  <2>1. UNCHANGED <<reader, mode, pc, fullCmd, pend, frames, bad, result>>
    BY <1>6 DEF vars, prompt, author
  <2>2. depth' = depth
    BY <2>1 DEF depth
  <2>3. ReaderTyped' /\ AwayFromLine' /\ InputTyped'
    BY <2>1 DEF InputInv, ReaderTyped, AwayFromLine, InputTyped, reader
  <2>4. Counted'
    BY <2>1, <2>2 DEF InputInv, Counted
  <2> QED
    BY <2>1, <2>3, <2>4 DEF InputInv
<1> QED
  BY <1>1, <1>2, <1>3, <1>4, <1>5, <1>6 DEF Next

(* The inductive invariant of the shell's input, for any files that may    *)
(* run each other and themselves.                                          *)
THEOREM InputInvariant == Spec => []InputInv
<1>1. InputInv /\ [Next]_vars => InputInv'
  BY InputStep
<1> QED
  BY InputInit, <1>1, PTL DEF Spec

(* What a script returns is positive exactly when something in it, or in   *)
(* the files it runs, has failed: sourceFile() loses no failure.           *)
THEOREM InputFailureReported == Spec => []FailureReported
<1>1. InputInv => FailureReported
  <2> SUFFICES ASSUME InputInv, pc = "done", mode = "file"
               PROVE  (result > 0) = bad
    BY DEF FailureReported
  <2>1. (bad <=> result > 0) /\ bad \in BOOLEAN
    BY DEF InputInv, Counted, InputTyped
  <2> QED
    BY <2>1
<1> QED
  BY <1>1, InputInvariant, PTL

(* Keys, commands of several lines and all the shell does in between keep  *)
(* the promises of LineEditor, for lines and histories of any length, but  *)
(* for the down key before anything was entered.                           *)
THEOREM InputImplementsEditor == Spec => ImplementsEditor
<1>1. Init => Editor!Init
  <2> SUFFICES ASSUME Init PROVE Editor!Init
    OBVIOUS
  <2>1. /\ line = <<>> /\ cursor = 0 /\ histIdx = -1 /\ savedLine = <<>>
        /\ history = <<>>
    BY DEF Init, ReaderInit
  <2>2. <<>> \in Text /\ <<>> \in Seq(Text) /\ Len(<<>>) = 0
    BY DEF Text
  <2>3. Before = <<>> /\ From(cursor) = <<>>
    <3>1. <<>> \o <<>> = <<>>
      BY <2>2, Nothing
    <3>2. SubSeq(<<>>, 1, 0) = <<>> /\ SubSeq(<<>>, 0 + 1, Len(<<>>)) = <<>>
      BY <2>2, <3>1, Halves
    <3> QED
      BY <2>1, <3>2 DEF Before, From
  <2>4. Reverse(history) = <<>>
    <3>1. Reverse(history) \in Seq(Text) /\ Len(Reverse(history)) = 0
      BY <2>1, <2>2, ReverseText
    <3> QED
      BY <3>1
  <2> QED
    BY <2>1, <2>3, <2>4 DEF Editor!Init
<1>2. InputInv /\ [Next]_vars => [EditorStep]_(Editor!vars)
  <2>1. UNCHANGED reader => UNCHANGED Editor!vars
    BY DEF reader, Before, From, Editor!vars
  <2> QED
    BY <2>1, InputStep
<1> QED
  BY <1>1, <1>2, InputInvariant, PTL DEF Spec, ImplementsEditor

-----------------------------------------------------------------------------
(* Folds.  What a text means is read off token by token; the provers have  *)
(* to be told that there is such a function.                               *)

(* A set of sequences that holds the empty one and is closed under adding  *)
(* one more holds all.                                                     *)
LEMMA Grown ==
  ASSUME NEW Y, NEW S, <<>> \in S,
         \A s \in Seq(Y), c \in Y : s \in S => Append(s, c) \in S
  PROVE  Seq(Y) \subseteq S
<1> SUFFICES ASSUME NEW l \in Seq(Y) PROVE l \in S
  OBVIOUS
<1> DEFINE T == {i \in 0 .. Len(l) : SubSeq(l, 1, i) \in S}
<1>1. 0 \in T
  <2>1. SubSeq(l, 1, 0) = <<>>
    BY SubSeqEmpty
  <2>2. Len(l) \in Nat
    OBVIOUS
  <2>3. 0 \in 0 .. Len(l)
    BY <2>2
  <2>4. SubSeq(l, 1, 0) \in S
    BY <2>1, Zenon
  <2> QED
    BY <2>3, <2>4, Zenon
<1>2. ASSUME NEW i \in 1 .. Len(l), i - 1 \in T PROVE i \in T
  <2>1. SubSeq(l, 1, i - 1) \in Seq(Y) /\ l[i] \in Y
    BY Piece
  <2>2. SubSeq(l, 1, i) = Append(SubSeq(l, 1, i - 1), l[i])
    <3>1. SubSeq(l, 1, i) = SubSeq(l, 1, i - 1) \o <<l[i]>>
      BY SubSeqRecursiveSecond
    <3> QED
      BY <2>1, <3>1, AppendIsConcat
  <2>3. SubSeq(l, 1, i - 1) \in S
    BY <1>2
  <2>4. SubSeq(l, 1, i) \in S
    BY <2>1, <2>2, <2>3
  <2> QED
    BY <2>4
<1> HIDE DEF T
<1>3. Len(l) \in Nat /\ SubSeq(l, 1, Len(l)) = l
  BY SubSeqFull
<1>4. \A i \in 0 .. Len(l) : i \in T
  BY <1>1, <1>2, <1>3, Along
<1>5. Len(l) \in T
  BY <1>3, <1>4
<1> QED
  BY <1>3, <1>5 DEF T

(* A machine takes a token a step.                                         *)
Machine(F, X) == F \in [X \X Token -> X]

(* The state a machine F, which takes a token a step, reaches from s at    *)
(* the end of the text l.                                                  *)
Follows(h, F, X, s, l) ==
  /\ h \in [0 .. Len(l) -> X] /\ h[0] = s
  /\ \A i \in 1 .. Len(l) : h[i] = F[<<h[i - 1], l[i]>>]
Fold(F, X, s, l) == (CHOOSE h : Follows(h, F, X, s, l))[Len(l)]

(* It is reached by a passage, and by any.                                 *)
LEMMA FoldPath ==
  ASSUME NEW X, NEW F, Machine(F, X), NEW s \in X, NEW l \in Text
  PROVE  /\ \E h : Follows(h, F, X, s, l)
         /\ \A h : Follows(h, F, X, s, l) => h[Len(l)] = Fold(F, X, s, l)
<1> DEFINE n == Len(l)
           G == [p \in (1 .. n) \X X |-> F[<<p[2], l[p[1]]>>]]
<1>1. n \in Nat /\ \A i \in 1 .. n : l[i] \in Token
  BY DEF Text
<1>2. \A i \in 1 .. n, x \in X :
        G[<<i, x>>] = F[<<x, l[i]>>] /\ F[<<x, l[i]>>] \in X
  <2> HIDE DEF n
  <2> QED
    BY <1>1 DEF Machine
<1> HIDE DEF G
<1>3. \A i \in 1 .. n, x \in X : G[<<i, x>>] \in X
  BY <1>2
<1> HIDE DEF n
<1>4. PICK g : Passes(g, G, X, s, n)
  BY <1>1, <1>3, Recursion
<1>5. Follows(g, F, X, s, l)
  <2>1. /\ g \in [0 .. n -> X] /\ g[0] = s
        /\ \A i \in 1 .. n : g[i] = G[<<i, g[i - 1]>>]
    BY <1>4 DEF Passes
  <2>2. \A i \in 1 .. n : g[i - 1] \in X
    BY <1>1, <2>1
  <2>3. \A i \in 1 .. n : g[i] = F[<<g[i - 1], l[i]>>]
    BY <1>2, <2>1, <2>2
  <2> QED
    BY <2>1, <2>3 DEF Follows, n
<1> DEFINE k == CHOOSE h : Follows(h, F, X, s, l)
<1>6. Follows(k, F, X, s, l)
  BY <1>5
<1> HIDE DEF k
<1>7. ASSUME NEW h, Follows(h, F, X, s, l) PROVE h[n] = k[n]
  <2>1. h[0] = s /\ \A i \in 1 .. n : h[i] = F[<<h[i - 1], l[i]>>]
    BY <1>7 DEF Follows, n
  <2>2. k[0] = s /\ \A i \in 1 .. n : k[i] = F[<<k[i - 1], l[i]>>]
    BY <1>6 DEF Follows, n
  <2>3. \A i \in 1 .. n : h[i - 1] = k[i - 1] => h[i] = k[i]
    BY <2>1, <2>2
  <2>4. \A i \in 0 .. n : h[i] = k[i]
    BY <1>1, <2>1, <2>2, <2>3, OnePassage
  <2> QED
    BY <1>1, <2>4
<1> QED
  BY <1>5, <1>7 DEF Fold, k, n

(* Token by token it is what one expects.                                  *)
LEMMA FoldSteps ==
  ASSUME NEW X, NEW F, Machine(F, X), NEW s \in X
  PROVE  /\ Fold(F, X, s, <<>>) = s
         /\ \A l \in Text : Fold(F, X, s, l) \in X
         /\ \A l \in Text, c \in Token :
              Fold(F, X, s, Append(l, c)) = F[<<Fold(F, X, s, l), c>>]
<1>1. Fold(F, X, s, <<>>) = s
  <2>1. <<>> \in Text /\ Len(<<>>) = 0
    BY DEF Text
  <2>2. PICK h : Follows(h, F, X, s, <<>>)
    BY <2>1, FoldPath
  <2>3. h[0] = Fold(F, X, s, <<>>)
    BY <2>1, <2>2, FoldPath
  <2>4. h[0] = s
    BY <2>2 DEF Follows
  <2> QED
    BY <2>3, <2>4
<1>2. ASSUME NEW l \in Text PROVE Fold(F, X, s, l) \in X
  <2>1. PICK h : Follows(h, F, X, s, l)
    BY FoldPath
  <2>2. h[Len(l)] = Fold(F, X, s, l)
    BY <2>1, FoldPath
  <2>3. Len(l) \in 0 .. Len(l)
    BY DEF Text
  <2> QED
    BY <2>1, <2>2, <2>3 DEF Follows
<1>3. ASSUME NEW l \in Text, NEW c \in Token
      PROVE  Fold(F, X, s, Append(l, c)) = F[<<Fold(F, X, s, l), c>>]
  <2> DEFINE n == Len(l)
             m == Append(l, c)
  <2>1. /\ n \in Nat /\ m \in Text /\ Len(m) = n + 1
        /\ \A i \in 1 .. n : m[i] = l[i]
        /\ m[n + 1] = c
    BY AppendProperties DEF Text
  <2> HIDE DEF n, m
  <2>2. PICK h : Follows(h, F, X, s, m)
    BY <2>1, FoldPath
  <2>3. /\ h \in [0 .. n + 1 -> X] /\ h[0] = s
        /\ \A i \in 1 .. n + 1 : h[i] = F[<<h[i - 1], m[i]>>]
    BY <2>1, <2>2 DEF Follows
  <2> DEFINE g == [i \in 0 .. n |-> h[i]]
  <2>4. Follows(g, F, X, s, l)
    <3>1. g \in [0 .. n -> X] /\ g[0] = s
      BY <2>1, <2>3
    <3>2. ASSUME NEW i \in 1 .. n PROVE g[i] = F[<<g[i - 1], l[i]>>]
      <4>1. i \in 1 .. n + 1 /\ i \in 0 .. n /\ i - 1 \in 0 .. n
        BY <2>1
      <4>2. h[i] = F[<<h[i - 1], m[i]>>] /\ m[i] = l[i]
        BY <2>1, <2>3, <4>1
      <4> QED
        BY <4>1, <4>2
    <3> HIDE DEF g
    <3> QED
      BY <3>1, <3>2 DEF Follows, n
  <2>5. g[n] = h[n]
    BY <2>1
  <2> HIDE DEF g
  <2>6. g[n] = Fold(F, X, s, l)
    BY <2>4, FoldPath DEF n
  <2>7. h[n + 1] = Fold(F, X, s, m)
    <3>1. h[Len(m)] = Fold(F, X, s, m)
      BY <2>1, <2>2, FoldPath
    <3> QED
      BY <2>1, <3>1
  <2>8. h[n + 1] = F[<<h[n + 1 - 1], m[n + 1]>>]
    BY <2>1, <2>3
  <2>9. n + 1 - 1 = n
    BY <2>1
  <2> QED
    BY <2>1, <2>5, <2>6, <2>7, <2>8, <2>9 DEF m
<1> QED
  BY <1>1, <1>2, <1>3

(* The same, one text at a time.                                           *)
LEMMA FoldNext ==
  ASSUME NEW X, NEW F, Machine(F, X), NEW s \in X,
         NEW l \in Text, NEW c \in Token
  PROVE  /\ Fold(F, X, s, l) \in X
         /\ Fold(F, X, s, Append(l, c)) = F[<<Fold(F, X, s, l), c>>]
         /\ Fold(F, X, s, <<>>) = s
BY FoldSteps

(* A text of two parts.                                                    *)
LEMMA FoldParts ==
  ASSUME NEW X, NEW F, Machine(F, X), NEW s \in X,
         NEW a \in Text, NEW b \in Text
  PROVE  Fold(F, X, s, a \o b) = Fold(F, X, Fold(F, X, s, a), b)
<1> DEFINE t == Fold(F, X, s, a)
           S == {l \in Text : Fold(F, X, s, a \o l) = Fold(F, X, t, l)}
<1>1. t \in X
  BY FoldSteps
<1> HIDE DEF t
<1>2. <<>> \in S
  <2>1. <<>> \in Text /\ a \o <<>> = a
    BY ConcatEmptySeq DEF Text
  <2>2. Fold(F, X, t, <<>>) = t
    BY <1>1, FoldSteps
  <2> QED
    BY <2>1, <2>2, Zenon DEF t
<1>3. ASSUME NEW l \in Text, NEW c \in Token, l \in S
      PROVE  Append(l, c) \in S
  <2>1. Append(l, c) \in Text /\ a \o l \in Text
    BY Together DEF Text
  <2>2. a \o Append(l, c) = Append(a \o l, c)
    <3>1. <<c>> \in Seq(Token)
      BY Together
    <3>2. Append(l, c) = l \o <<c>> /\ Append(a \o l, c) = (a \o l) \o <<c>>
      BY <2>1, AppendIsConcat DEF Text
    <3> QED
      BY <3>1, <3>2, ConcatAssociative DEF Text
  <2>3. Fold(F, X, s, a \o l) = Fold(F, X, t, l)
    BY <1>3
  <2>4. Fold(F, X, s, Append(a \o l, c)) = F[<<Fold(F, X, s, a \o l), c>>]
    BY <2>1, FoldNext
  <2>5. Fold(F, X, t, Append(l, c)) = F[<<Fold(F, X, t, l), c>>]
    BY <1>1, FoldNext
  <2> QED
    BY <2>1, <2>2, <2>3, <2>4, <2>5
<1> HIDE DEF S
<1>4. Seq(Token) \subseteq S
  BY <1>2, <1>3, Grown DEF Text
<1>5. b \in S
  BY <1>4 DEF Text
<1> QED
  BY <1>5 DEF S, t

(* A text and its first token.                                             *)
LEMMA FoldFirst ==
  ASSUME NEW X, NEW F, Machine(F, X), NEW s \in X,
         NEW l \in Text, NEW k \in 1 .. Len(l)
  PROVE  Fold(F, X, s, SubSeq(l, k, Len(l)))
           = Fold(F, X, F[<<s, l[k]>>], SubSeq(l, k + 1, Len(l)))
<1> DEFINE c == l[k]
           r == SubSeq(l, k + 1, Len(l))
<1>1. Len(l) \in Nat /\ c \in Token /\ k \in Nat
  BY DEF Text
<1>2. r \in Text
  BY <1>1, Between
<1>3. SubSeq(l, k, Len(l)) = <<c>> \o r
  <2>1. Len(l) \in k .. Len(l)
    BY <1>1
  <2> QED
    BY <2>1, SubSeqRecursiveFirst DEF Text
<1> HIDE DEF c, r
<1>4. <<c>> \in Text /\ <<>> \in Text /\ <<c>> = Append(<<>>, c)
  BY <1>1, Together DEF Text
<1> DEFINE none == <<>>
<1>5. Fold(F, X, s, Append(none, c)) = F[<<Fold(F, X, s, none), c>>]
  <2> HIDE DEF none
  <2>1. none \in Text
    BY <1>4 DEF none
  <2> QED
    BY <1>1, <2>1, FoldNext
<1>6. Fold(F, X, s, <<c>>) = F[<<s, c>>]
  <2>1. Fold(F, X, s, none) = s
    BY FoldSteps
  <2>2. <<c>> = Append(none, c)
    BY <1>4
  <2> HIDE DEF none
  <2> QED
    BY <1>5, <2>1, <2>2, Zenon
<1>7. Fold(F, X, s, <<c>> \o r) = Fold(F, X, Fold(F, X, s, <<c>>), r)
  <2> DEFINE a == <<c>>
  <2>1. a \in Text
    BY <1>4
  <2> HIDE DEF a
  <2>2. Fold(F, X, s, a \o r) = Fold(F, X, Fold(F, X, s, a), r)
    BY <1>2, <2>1, FoldParts
  <2> QED
    BY <2>2 DEF a
<1> QED
  BY <1>3, <1>6, <1>7 DEF c, r

-----------------------------------------------------------------------------
(* Texts without their blanks *)

Keeps == [p \in Text \X Token |->
            IF p[2] = Blank THEN p[1] ELSE Append(p[1], p[2])]
Strips(g, l) == g = [i \in 0 .. Len(l) |->
                       IF i = 0 THEN <<>>
                       ELSE IF l[i] = Blank THEN g[i - 1]
                       ELSE Append(g[i - 1], l[i])]

(* What the machine that keeps all but blanks does.                        *)
LEMMA Keeping ==
  /\ Machine(Keeps, Text) /\ <<>> \in Text
  /\ \A s \in Text, c \in Token :
       Keeps[<<s, c>>] = IF c = Blank THEN s ELSE Append(s, c)
<1>1. \A s \in Text, c \in Token : Append(s, c) \in Text
  BY Joins
<1>2. \A p \in Text \X Token :
        (IF p[2] = Blank THEN p[1] ELSE Append(p[1], p[2])) \in Text
  BY <1>1
<1>3. Machine(Keeps, Text)
  BY <1>2 DEF Keeps, Machine
<1>4. <<>> \in Text
  BY DEF Text
<1> QED
  BY <1>3, <1>4 DEF Keeps

(* NoBlanks is what it makes of a text.                                    *)
LEMMA Kept ==
  ASSUME NEW l \in Text
  PROVE  NoBlanks(l) = Fold(Keeps, Text, <<>>, l)
<1> DEFINE n == Len(l)
           k == CHOOSE g : Strips(g, l)
<1>1. NoBlanks(l) = k[n]
  BY DEF NoBlanks, Strips
<1>2. n \in Nat /\ \A i \in 1 .. n : l[i] \in Token
  BY DEF Text
<1>3. PICK h : Follows(h, Keeps, Text, <<>>, l)
  BY Keeping, FoldPath
<1>4. /\ h \in [0 .. n -> Text] /\ h[0] = <<>>
      /\ \A i \in 1 .. n : h[i] = Keeps[<<h[i - 1], l[i]>>]
  BY <1>3 DEF Follows
<1>5. \A i \in 1 .. n :
        h[i] = IF l[i] = Blank THEN h[i - 1] ELSE Append(h[i - 1], l[i])
  <2> HIDE DEF n
  <2>1. \A i \in 1 .. n : h[i - 1] \in Text
    BY <1>2, <1>4
  <2> QED
    BY <1>2, <1>4, <2>1, Keeping
<1>6. Strips(h, l)
  <2> DEFINE b(i) == IF i = 0 THEN <<>>
                     ELSE IF l[i] = Blank THEN h[i - 1]
                     ELSE Append(h[i - 1], l[i])
  <2> HIDE DEF n
  <2>1. ASSUME NEW i \in 0 .. n PROVE h[i] = b(i)
    <3>1. CASE i = 0
      BY <1>4, <3>1
    <3>2. CASE i # 0
      <4>1. i \in 1 .. n
        BY <1>2, <3>2
      <4> QED
        BY <1>5, <3>2, <4>1
    <3> QED
      BY <3>1, <3>2
  <2> HIDE DEF b
  <2>2. h = [i \in 0 .. n |-> b(i)]
    BY <1>4, <2>1
  <2> QED
    BY <2>2, Zenon DEF Strips, b, n
<1>7. Strips(k, l)
  BY <1>6, Zenon
<1> HIDE DEF k
<1>8. k[0] = <<>>
  <2>1. 0 \in 0 .. n
    BY <1>2
  <2> QED
    BY <1>7, <2>1, Zenon DEF Strips
<1>9. ASSUME NEW i \in 1 .. n, k[i - 1] = h[i - 1] PROVE k[i] = h[i]
  <2>1. i \in 0 .. n /\ i # 0
    OBVIOUS
  <2>2. k[i] = IF l[i] = Blank THEN k[i - 1] ELSE Append(k[i - 1], l[i])
    BY <1>7, <2>1, Zenon DEF Strips
  <2> QED
    BY <1>5, <1>9, <2>2
<1> HIDE DEF n
<1>10. \A i \in 0 .. n : k[i] = h[i]
  <2>1. k[0] = h[0]
    BY <1>4, <1>8
  <2> QED
    BY <1>2, <1>9, <2>1, OnePassage
<1>11. k[n] = h[n]
  BY <1>2, <1>10
<1>12. h[n] = Fold(Keeps, Text, <<>>, l)
  BY <1>3, Keeping, FoldPath DEF n
<1> QED
  BY <1>1, <1>11, <1>12

(* Token by token.                                                         *)
LEMMA NoBlanksSteps ==
  /\ NoBlanks(<<>>) = <<>>
  /\ \A l \in Text : NoBlanks(l) \in Text
  /\ \A l \in Text, c \in Token :
       NoBlanks(Append(l, c)) = IF c = Blank THEN NoBlanks(l)
                                ELSE Append(NoBlanks(l), c)
<1>1. NoBlanks(<<>>) = <<>>
  <2> DEFINE none == <<>>
  <2>1. none \in Text
    BY Keeping
  <2>2. Fold(Keeps, Text, none, none) = none
    BY <2>1, Keeping, FoldSteps
  <2> HIDE DEF none
  <2>3. NoBlanks(none) = Fold(Keeps, Text, <<>>, none)
    BY <2>1, Kept
  <2> QED
    BY <2>2, <2>3 DEF none
<1>2. ASSUME NEW l \in Text PROVE NoBlanks(l) \in Text
  <2> DEFINE none == <<>>
  <2>1. none \in Text
    BY Keeping
  <2> HIDE DEF none
  <2>2. Fold(Keeps, Text, none, l) \in Text
    BY <2>1, Keeping, FoldSteps
  <2> QED
    BY <2>2, Kept DEF none
<1>3. ASSUME NEW l \in Text, NEW c \in Token
      PROVE  NoBlanks(Append(l, c)) = IF c = Blank THEN NoBlanks(l)
                                      ELSE Append(NoBlanks(l), c)
  <2>1. Append(l, c) \in Text
    BY Joins
  <2> DEFINE x == Fold(Keeps, Text, <<>>, l)
  <2>2. Fold(Keeps, Text, <<>>, Append(l, c)) = Keeps[<<x, c>>] /\ x \in Text
    BY Keeping, FoldNext
  <2>3. NoBlanks(l) = x
    BY Kept
  <2>4. NoBlanks(Append(l, c)) = Fold(Keeps, Text, <<>>, Append(l, c))
    BY <2>1, Kept
  <2> HIDE DEF x
  <2> QED
    BY <2>2, <2>3, <2>4, Keeping
<1> QED
  BY <1>1, <1>2, <1>3

(* Part by part.                                                           *)
LEMMA NoBlanksParts ==
  ASSUME NEW a \in Text, NEW b \in Text
  PROVE  NoBlanks(a \o b) = NoBlanks(a) \o NoBlanks(b)
<1> DEFINE P(l) == NoBlanks(a \o l) = NoBlanks(a) \o NoBlanks(l)
           S == {l \in Text : P(l)}
<1>1. NoBlanks(a) \in Text
  BY NoBlanksSteps
<1>2. <<>> \in S
  <2>1. a \o <<>> = a /\ NoBlanks(a) \o <<>> = NoBlanks(a)
    BY <1>1, ConcatEmptySeq DEF Text
  <2>2. <<>> \in Text
    BY Keeping
  <2> QED
    BY <2>1, <2>2, NoBlanksSteps
<1>3. ASSUME NEW l \in Text, NEW c \in Token, l \in S
      PROVE  Append(l, c) \in S
  <2>1. Append(l, c) \in Text /\ a \o l \in Text /\ <<c>> \in Text
    BY Joins
  <2>2. a \o Append(l, c) = Append(a \o l, c)
    <3>2. Append(l, c) = l \o <<c>> /\ Append(a \o l, c) = (a \o l) \o <<c>>
      BY <2>1, AppendIsConcat DEF Text
    <3> QED
      BY <2>1, <3>2, ConcatAssociative DEF Text
  <2> DEFINE x == NoBlanks(a)
             y == NoBlanks(l)
  <2>3. x \in Text /\ y \in Text
    BY NoBlanksSteps
  <2>4. NoBlanks(a \o l) = x \o y
    BY <1>3
  <2>5. NoBlanks(Append(a \o l, c))
          = IF c = Blank THEN NoBlanks(a \o l)
            ELSE Append(NoBlanks(a \o l), c)
    BY <2>1, NoBlanksSteps
  <2>6. NoBlanks(Append(l, c)) = IF c = Blank THEN y ELSE Append(y, c)
    BY NoBlanksSteps
  <2> HIDE DEF x, y
  <2>7. x \o Append(y, c) = Append(x \o y, c)
    <3>1. x \o y \in Text
      BY <2>3, Joins
    <3>2. Append(y, c) = y \o <<c>> /\ Append(x \o y, c) = (x \o y) \o <<c>>
      BY <2>3, <3>1, AppendIsConcat DEF Text
    <3> QED
      BY <2>1, <2>3, <3>2, ConcatAssociative DEF Text
  <2>8. NoBlanks(a \o Append(l, c)) = x \o NoBlanks(Append(l, c))
    BY <2>2, <2>4, <2>5, <2>6, <2>7
  <2> QED
    BY <2>1, <2>8 DEF x
<1> HIDE DEF S
<1>4. Seq(Token) \subseteq S
  <2>1. <<>> \in S /\ \A l \in Seq(Token), c \in Token :
                         l \in S => Append(l, c) \in S
    BY <1>2, <1>3 DEF Text
  <2> QED
    BY <2>1, Grown
<1>5. b \in S
  BY <1>4 DEF Text
<1> QED
  BY <1>5 DEF S

(* Of blanks nothing remains.                                              *)
LEMMA OnlyBlanks ==
  ASSUME NEW l \in Text, \A i \in 1 .. Len(l) : l[i] = Blank
  PROVE  NoBlanks(l) = <<>>
<1> DEFINE S == {t \in Text : (\A i \in 1 .. Len(t) : t[i] = Blank)
                                => NoBlanks(t) = <<>>}
<1>1. <<>> \in S
  BY Keeping, NoBlanksSteps
<1>2. ASSUME NEW t \in Text, NEW c \in Token, t \in S
      PROVE  Append(t, c) \in S
  <2>1. Append(t, c) \in Text
    BY Joins
  <2>2. SUFFICES ASSUME \A i \in 1 .. Len(Append(t, c)) :
                          Append(t, c)[i] = Blank
                 PROVE  NoBlanks(Append(t, c)) = <<>>
    BY <2>1
  <2>3. c = Blank /\ \A i \in 1 .. Len(t) : t[i] = Blank
    <3>1. /\ Len(t) \in Nat /\ Len(Append(t, c)) = Len(t) + 1
          /\ \A i \in 1 .. Len(t) : Append(t, c)[i] = t[i]
          /\ Append(t, c)[Len(t) + 1] = c
      BY AppendProperties DEF Text
    <3> QED
      BY <2>2, <3>1
  <2>4. NoBlanks(t) = <<>>
    BY <1>2, <2>3
  <2> QED
    BY <2>3, <2>4, NoBlanksSteps
<1> HIDE DEF S
<1>3. Seq(Token) \subseteq S
  <2>1. <<>> \in S /\ \A t \in Seq(Token), c \in Token :
                         t \in S => Append(t, c) \in S
    BY <1>1, <1>2 DEF Text
  <2> QED
    BY <2>1, Grown
<1>4. l \in S
  BY <1>3 DEF Text
<1> QED
  BY <1>4 DEF S

(* What is not blank remains.                                              *)
LEMMA SomeRemain ==
  ASSUME NEW l \in Text, NEW i \in 1 .. Len(l), l[i] # Blank
  PROVE  NoBlanks(l) # <<>>
<1> DEFINE a == SubSeq(l, 1, i - 1)
           b == SubSeq(l, i + 1, Len(l))
           c == l[i]
<1>1. Len(l) \in Nat /\ c \in Token
  BY DEF Text
<1>2. a \in Text /\ b \in Text
  BY <1>1, Between
<1>3. SubSeq(l, 1, i) = a \o <<c>>
  BY SubSeqRecursiveSecond DEF Text
<1>4. SubSeq(l, 1, i) \o b = SubSeq(l, 1, Len(l))
  BY <1>1, ConcatAdjacentSubSeq DEF Text
<1>5. l = SubSeq(l, 1, Len(l))
  BY SubSeqFull DEF Text
<1> HIDE DEF a, b, c
<1>6. a \o <<c>> = Append(a, c) /\ Append(a, c) \in Text
  BY <1>1, <1>2, Joins, AppendIsConcat DEF Text
<1>7. l = Append(a, c) \o b
  BY <1>3, <1>4, <1>5, <1>6
<1> DEFINE x == NoBlanks(a)
           y == NoBlanks(b)
<1>8. x \in Text /\ y \in Text
  BY <1>2, NoBlanksSteps
<1>9. NoBlanks(l) = Append(x, c) \o y
  <2>1. c # Blank
    BY DEF c
  <2>2. NoBlanks(Append(a, c)) = Append(x, c)
    BY <1>1, <1>2, <2>1, NoBlanksSteps
  <2> QED
    BY <1>2, <1>6, <1>7, <2>2, NoBlanksParts
<1> HIDE DEF x, y
<1> HIDE DEF a, b, c, x, y
<1>10. Append(x, c) \in Text /\ Append(x, c) # <<>>
  <2>1. x \in Seq(Token) /\ c \in Token
    BY <1>1, <1>8 DEF Text
  <2>2. Append(x, c) \in Seq(Token) /\ Append(x, c) # <<>>
    BY <2>1, AppendProperties
  <2> QED
    BY <2>2 DEF Text
<1> QED
  BY <1>8, <1>9, <1>10, ConcatEqualIffEmpty DEF Text

(* trim() takes the blanks from the ends of a text, if there is anything   *)
(* else in it.                                                             *)
LEMMA TrimShape ==
  ASSUME NEW l \in Text
  PROVE  \/ Trim(l) = <<>> /\ \A i \in 1 .. Len(l) : l[i] = Blank
         \/ \E a \in 1 .. Len(l), b \in 1 .. Len(l) :
              /\ a <= b /\ Trim(l) = SubSeq(l, a, b)
              /\ l[a] # Blank /\ l[b] # Blank
              /\ \A i \in 1 .. a - 1 : l[i] = Blank
              /\ \A i \in b + 1 .. Len(l) : l[i] = Blank
<1> DEFINE s == {i \in 1 .. Len(l) : l[i] # Blank}
<1>1. Trim(l) = IF s = {} THEN <<>> ELSE SubSeq(l, Min(s), Max(s))
  BY DEF Trim
<1>2. CASE s = {}
  <2>1. \A i \in 1 .. Len(l) : l[i] = Blank
    BY <1>2
  <2> QED
    BY <1>1, <1>2, <2>1
<1>3. CASE s # {}
  <2>1. Len(l) \in Nat /\ s \in SUBSET Nat /\ \A x \in s : x <= Len(l)
    BY DEF Text
  <2> DEFINE a == Min(s)
             b == Max(s)
  <2>2. a \in s /\ \A y \in s : a <= y
    <3> HIDE DEF s
    <3> QED
      BY <1>3, <2>1, Least
  <2>3. b \in s /\ \A y \in s : y <= b
    <3> HIDE DEF s
    <3> QED
      BY <1>3, <2>1, Greatest
  <2>4. Trim(l) = SubSeq(l, a, b)
    BY <1>1, <1>3, Zenon
  <2> HIDE DEF a, b
  <2>5. /\ a \in 1 .. Len(l) /\ b \in 1 .. Len(l) /\ a <= b
        /\ l[a] # Blank /\ l[b] # Blank
    BY <2>2, <2>3
  <2>6. \A i \in 1 .. a - 1 : l[i] = Blank
    <3> SUFFICES ASSUME NEW i \in 1 .. a - 1, l[i] # Blank PROVE FALSE
      OBVIOUS
    <3>1. i \in 1 .. Len(l) /\ i < a
      BY <2>1, <2>5
    <3>2. i \in s
      BY <3>1
    <3> QED
      BY <2>2, <2>5, <3>1, <3>2
  <2>7. \A i \in b + 1 .. Len(l) : l[i] = Blank
    <3> SUFFICES ASSUME NEW i \in b + 1 .. Len(l), l[i] # Blank PROVE FALSE
      OBVIOUS
    <3>1. i \in 1 .. Len(l) /\ b < i
      BY <2>1, <2>5
    <3>2. i \in s
      BY <3>1
    <3> QED
      BY <2>3, <2>5, <3>1, <3>2
  <2> HIDE DEF s
  <2> QED
    BY <2>4, <2>5, <2>6, <2>7
<1> QED
  BY <1>2, <1>3

(* No more than blanks is lost by it.                                      *)
LEMMA TrimKeeps ==
  ASSUME NEW l \in Text
  PROVE  /\ NoBlanks(Trim(l)) = NoBlanks(l)
         /\ Trim(l) = <<>> <=> NoBlanks(l) = <<>>
<1>1. CASE Trim(l) = <<>> /\ \A i \in 1 .. Len(l) : l[i] = Blank
  <2>1. NoBlanks(l) = <<>>
    BY <1>1, OnlyBlanks
  <2> QED
    BY <1>1, <2>1, NoBlanksSteps
<1>2. ASSUME NEW a \in 1 .. Len(l), NEW b \in 1 .. Len(l),
             a <= b, Trim(l) = SubSeq(l, a, b), l[a] # Blank,
             \A i \in 1 .. a - 1 : l[i] = Blank,
             \A i \in b + 1 .. Len(l) : l[i] = Blank
      PROVE  /\ NoBlanks(Trim(l)) = NoBlanks(l)
             /\ Trim(l) = <<>> <=> NoBlanks(l) = <<>>
  <2> DEFINE x == SubSeq(l, 1, a - 1)
             y == SubSeq(l, a, b)
             z == SubSeq(l, b + 1, Len(l))
  <2>1. Len(l) \in Nat /\ a \in Nat /\ b \in Nat
    BY DEF Text
  <2>2. /\ x \in Text /\ Len(x) = a - 1
        /\ \A i \in 1 .. a - 1 : x[i] = l[i]
    <3>1. a - 1 \in 0 .. Len(l) /\ 1 \in 1 .. Len(l) + 1
      BY <2>1
    <3> QED
      BY <2>1, <3>1, Piece DEF Text
  <2>3. y \in Text /\ Len(y) = b - a + 1
    <3>1. a \in 1 .. Len(l) + 1 /\ b \in 0 .. Len(l)
      BY <2>1
    <3> QED
      BY <1>2, <2>1, <3>1, Piece DEF Text
  <2>4. /\ z \in Text /\ Len(z) = Len(l) - b
        /\ \A i \in 1 .. Len(l) - b : z[i] = l[b + i]
    <3>1. b + 1 \in 1 .. Len(l) + 1 /\ Len(l) \in 0 .. Len(l)
      BY <2>1
    <3> DEFINE n == Len(l)
    <3>2. /\ z \in Text /\ Len(z) = IF b + 1 <= n THEN n - (b + 1) + 1 ELSE 0
          /\ \A i \in 1 .. n - (b + 1) + 1 : z[i] = l[b + 1 + i - 1]
      BY <3>1, Piece DEF Text
    <3> HIDE DEF z
    <3>3. n \in Nat /\ b \in 1 .. n /\ Len(z) = n - b
      BY <2>1, <3>2
    <3>4. ASSUME NEW i \in 1 .. n - b PROVE z[i] = l[b + i]
      <4>1. i \in 1 .. n - (b + 1) + 1 /\ b + 1 + i - 1 = b + i
        BY <3>3
      <4> QED
        BY <3>2, <4>1
    <3> QED
      BY <3>2, <3>3, <3>4
  <2>5. x \o y = SubSeq(l, 1, b) /\ SubSeq(l, 1, b) \o z = l
    <3>1. /\ 1 \in 1 .. Len(l) + 1 /\ a - 1 \in 1 - 1 .. Len(l)
          /\ b \in a - 1 .. Len(l) /\ a - 1 + 1 = a
          /\ b \in 1 - 1 .. Len(l) /\ Len(l) \in b .. Len(l)
      BY <1>2, <2>1
    <3>2. SubSeq(l, 1, a - 1) \o SubSeq(l, a - 1 + 1, b) = SubSeq(l, 1, b)
      BY <3>1, ConcatAdjacentSubSeq DEF Text
    <3>3. SubSeq(l, 1, b) \o z = SubSeq(l, 1, Len(l))
      BY <3>1, ConcatAdjacentSubSeq DEF Text
    <3>4. SubSeq(l, 1, Len(l)) = l
      BY SubSeqFull DEF Text
    <3> QED
      BY <3>1, <3>2, <3>3, <3>4
  <2>6. y[1] = l[a]
    BY <1>2, <2>1, Piece DEF Text
  <2> HIDE DEF x, y, z
  <2>7. NoBlanks(x) = <<>> /\ NoBlanks(z) = <<>>
    <3>1. \A i \in 1 .. Len(x) : x[i] = Blank
      BY <1>2, <2>2
    <3>2. \A i \in 1 .. Len(z) : z[i] = Blank
      <4> SUFFICES ASSUME NEW i \in 1 .. Len(z) PROVE z[i] = Blank
        OBVIOUS
      <4>1. i \in 1 .. Len(l) - b /\ b + i \in b + 1 .. Len(l)
        BY <2>1, <2>4
      <4> QED
        BY <1>2, <2>4, <4>1
    <3> QED
      BY <2>2, <2>4, <3>1, <3>2, OnlyBlanks
  <2>8. NoBlanks(l) = NoBlanks(y)
    <3>1. x \o y \in Text /\ NoBlanks(y) \in Text
      BY <2>2, <2>3, Joins, BlankIsToken, NoBlanksSteps
    <3>2. NoBlanks(l) = NoBlanks(x \o y) \o NoBlanks(z)
      BY <2>4, <2>5, <3>1, NoBlanksParts
    <3>3. NoBlanks(x \o y) = NoBlanks(x) \o NoBlanks(y)
      BY <2>2, <2>3, NoBlanksParts
    <3> QED
      BY <2>7, <3>1, <3>2, <3>3, ConcatEmptySeq DEF Text
  <2>9. NoBlanks(y) # <<>> /\ y # <<>>
    <3>1. 1 \in 1 .. Len(y) /\ y[1] # Blank
      BY <1>2, <2>1, <2>3, <2>6
    <3>2. y # <<>>
      BY <3>1
    <3> QED
      BY <2>3, <3>1, <3>2, SomeRemain
  <2> QED
    BY <1>2, <2>8, <2>9 DEF y
<1> QED
  BY <1>1, <1>2, TrimShape

(* A statement is a statement also when its blanks are left out.           *)
Solid(s) == s = <<>> \/ NoBlanks(s) # <<>>

(* flushStmt() takes what is in the buffer into the statement.             *)
LEMMA Flushed ==
  ASSUME NEW f \in Call, Solid(f.stmt)
  PROVE  /\ NoBlanks(WithText(f)) = NoBlanks(f.stmt) \o NoBlanks(f.buf)
         /\ Solid(WithText(f))
<1> DEFINE s == f.stmt
           b == Trim(f.buf)
<1>1. s \in Text /\ f.buf \in Text /\ b \in Text
  BY Calls, TrimText
<1>2. NoBlanks(b) = NoBlanks(f.buf) /\ Solid(b)
  BY <1>1, TrimKeeps DEF Solid
<1>3. WithText(f) = IF b = <<>> THEN s
                    ELSE IF s = <<>> THEN b ELSE s \o <<Blank>> \o b
  BY DEF WithText
<1>4. Solid(s)
  OBVIOUS
<1>5. NoBlanks(s) \in Text /\ NoBlanks(b) \in Text
  BY <1>1, NoBlanksSteps
<1> HIDE DEF s, b
<1>6. CASE b = <<>>
  <2>1. NoBlanks(b) = <<>>
    BY <1>6, NoBlanksSteps
  <2>2. NoBlanks(s) = NoBlanks(s) \o NoBlanks(b)
    BY <1>5, <2>1, ConcatEmptySeq DEF Text
  <2> QED
    BY <1>2, <1>3, <1>4, <1>6, <2>2 DEF s
<1>7. CASE b # <<>> /\ s = <<>>
  <2>1. NoBlanks(s) = <<>>
    BY <1>7, NoBlanksSteps
  <2>2. NoBlanks(b) = NoBlanks(s) \o NoBlanks(b)
    BY <1>5, <2>1, ConcatEmptySeq DEF Text
  <2> QED
    BY <1>2, <1>3, <1>7, <2>2 DEF s
<1>8. CASE b # <<>> /\ s # <<>>
  <2>1. <<Blank>> \in Text /\ s \o <<Blank>> \in Text /\ Blank \in Token
    BY <1>1, Joins, BlankIsToken
  <2>2. s \o <<Blank>> = Append(s, Blank)
    BY <1>1, <2>1, AppendIsConcat DEF Text
  <2>3. NoBlanks(s \o <<Blank>>) = NoBlanks(s)
    BY <1>1, <2>1, <2>2, NoBlanksSteps
  <2>4. NoBlanks(s \o <<Blank>> \o b) = NoBlanks(s) \o NoBlanks(b)
    BY <1>1, <2>1, <2>3, NoBlanksParts
  <2>5. NoBlanks(s) \o NoBlanks(b) # <<>>
    <3>1. NoBlanks(b) # <<>>
      BY <1>2, <1>8 DEF Solid
    <3> QED
      BY <1>5, <3>1, ConcatEqualIffEmpty DEF Text
  <2> QED
    BY <1>2, <1>3, <1>8, <2>4, <2>5 DEF Solid, s
<1> QED
  BY <1>6, <1>7, <1>8

-----------------------------------------------------------------------------
(* What the scanner makes of a token: the statements that are complete,    *)
(* the one it is in, and whether it is in code, a comment or a quote.      *)
Place == {"code", "line", "block", "'", "\""}
State == [done : Seq(Text), stmt : Text, ctx : Place]

With(s, c) == IF c = Blank THEN s ELSE Append(s, c)
See(s, c) ==
  CASE s.ctx \in Quotes ->
         [s EXCEPT !.stmt = With(@, c), !.ctx = IF c = @ THEN "code" ELSE @]
    [] s.ctx = "block" -> [s EXCEPT !.ctx = IF c = "*/" THEN "code" ELSE @]
    [] s.ctx = "line"  -> s
    [] s.ctx = "code" /\ c \in Quotes ->
         [s EXCEPT !.stmt = Append(@, c), !.ctx = c]
    [] s.ctx = "code" /\ c = "/*" -> [s EXCEPT !.ctx = "block"]
    [] s.ctx = "code" /\ c \in {"--", "#"} -> [s EXCEPT !.ctx = "line"]
    [] s.ctx = "code" /\ c = ";" ->
         [s EXCEPT !.done = Closed(@, s.stmt), !.stmt = <<>>]
    [] OTHER -> [s EXCEPT !.stmt = With(@, c)]
Sees == [p \in State \X Token |-> See(p[1], p[2])]

(* A state is known by its fields.                                         *)
LEMMA StateIs ==
  /\ \A s \in State :
       s.done \in Seq(Text) /\ s.stmt \in Text /\ s.ctx \in Place
  /\ \A s \in State, t \in State :
       s.done = t.done /\ s.stmt = t.stmt /\ s.ctx = t.ctx => s = t
<1>1. \A s \in State :
        s.done \in Seq(Text) /\ s.stmt \in Text /\ s.ctx \in Place
  BY DEF State
<1>2. ASSUME NEW s \in State, NEW t \in State,
             s.done = t.done, s.stmt = t.stmt, s.ctx = t.ctx
      PROVE  s = t
  BY <1>2 DEF State
<1> QED
  BY <1>1, <1>2

(* Closing a statement that may be empty.                                  *)
LEMMA ClosedText ==
  ASSUME NEW d \in Seq(Text), NEW o \in Text
  PROVE  /\ Closed(d, o) \in Seq(Text) /\ IsPrefix(d, Closed(d, o))
         /\ Closed(d, o) = d \o Pending(o)
<1>1. IsPrefix(d, d) /\ IsPrefix(d, Append(d, o)) /\ Append(d, o) \in Seq(Text)
  <2>1. /\ Append(d, o) \in Seq(Text) /\ Len(Append(d, o)) = Len(d) + 1
        /\ \A i \in 1 .. Len(d) : Append(d, o)[i] = d[i]
    BY AppendProperties
  <2>2. Len(d) \in Nat
    OBVIOUS
  <2> QED
    BY <2>1, <2>2 DEF IsPrefix
<1>2. d \o <<>> = d /\ Append(d, o) = d \o <<o>>
  BY ConcatEmptySeq, AppendIsConcat
<1> QED
  BY <1>1, <1>2 DEF Closed, Pending

(* What a prefix is.                                                       *)
LEMMA PrefixIs ==
  ASSUME NEW a \in Seq(Text), NEW b \in Seq(Text)
  PROVE  IsPrefix(a, b) <=> /\ Len(a) <= Len(b)
                            /\ \A i \in 1 .. Len(a) : a[i] = b[i]
<1> DEFINE n == Len(a)
<1>1. n \in Nat /\ Len(b) \in Nat /\ SubSeq(a, 1, n) = a
  BY SubSeqFull
<1>2. CASE n <= Len(b)
  <2> DEFINE c == SubSeq(b, 1, n)
  <2>1. /\ c \in Seq(Text) /\ Len(c) = n
        /\ \A i \in 1 .. n : c[i] = b[i]
    BY <1>1, <1>2, Piece
  <2> HIDE DEF c
  <2>2. a = c <=> \A i \in 1 .. n : a[i] = b[i]
    BY <2>1, SeqEqual
  <2> QED
    BY <1>1, <1>2, <2>2 DEF IsPrefix, c
<1>3. CASE ~(n <= Len(b))
  BY <1>3 DEF IsPrefix
<1> QED
  BY <1>2, <1>3

(* Prefixes of prefixes.                                                   *)
LEMMA PrefixOfPrefix ==
  ASSUME NEW a \in Seq(Text), NEW b \in Seq(Text), NEW c \in Seq(Text),
         IsPrefix(a, b), IsPrefix(b, c)
  PROVE  IsPrefix(a, c)
<1>1. /\ Len(a) <= Len(b) /\ \A i \in 1 .. Len(a) : a[i] = b[i]
      /\ Len(b) <= Len(c) /\ \A i \in 1 .. Len(b) : b[i] = c[i]
  BY PrefixIs
<1>2. Len(a) \in Nat /\ Len(b) \in Nat /\ Len(c) \in Nat
  OBVIOUS
<1>3. Len(a) <= Len(c) /\ \A i \in 1 .. Len(a) : a[i] = c[i]
  BY <1>1, <1>2
<1> QED
  BY <1>3, PrefixIs

(* It is a machine, and never takes a statement back.                      *)
LEMMA Seeing ==
  /\ Machine(Sees, State)
  /\ \A s \in State, c \in Token :
       /\ Sees[<<s, c>>] = See(s, c) /\ See(s, c) \in State
       /\ IsPrefix(s.done, See(s, c).done)
<1>1. ASSUME NEW s \in State, NEW c \in Token
      PROVE  See(s, c) \in State /\ IsPrefix(s.done, See(s, c).done)
  <2>1. s.done \in Seq(Text) /\ s.stmt \in Text /\ s.ctx \in Place
    BY StateIs
  <2>2. With(s.stmt, c) \in Text /\ Append(s.stmt, c) \in Text /\ <<>> \in Text
    BY <2>1, Joins DEF With
  <2>3. /\ Closed(s.done, s.stmt) \in Seq(Text)
        /\ IsPrefix(s.done, Closed(s.done, s.stmt))
    BY <2>1, ClosedText
  <2>4. IsPrefix(s.done, s.done)
    BY <2>1 DEF IsPrefix
  <2> DEFINE sa == [s EXCEPT !.stmt = With(@, c),
                             !.ctx = IF c = @ THEN "code" ELSE @]
             sb == [s EXCEPT !.ctx = IF c = "*/" THEN "code" ELSE @]
             sc == [s EXCEPT !.stmt = Append(@, c), !.ctx = c]
             sd == [s EXCEPT !.ctx = "block"]
             se == [s EXCEPT !.ctx = "line"]
             sf == [s EXCEPT !.done = Closed(@, s.stmt), !.stmt = <<>>]
             sg == [s EXCEPT !.stmt = With(@, c)]
  <2>5. /\ sa \in State /\ sa.done = s.done
        /\ sb \in State /\ sb.done = s.done
        /\ c \in Quotes => sc \in State /\ sc.done = s.done
        /\ sd \in State /\ sd.done = s.done
        /\ se \in State /\ se.done = s.done
        /\ sg \in State /\ sg.done = s.done
    BY <2>1, <2>2 DEF State, Place, Quotes
  <2>6. sf \in State /\ sf.done = Closed(s.done, s.stmt)
    BY <2>1, <2>2, <2>3 DEF State
  <2>7. \/ See(s, c) \in {sa, sb, s, sd, se, sf, sg}
        \/ See(s, c) = sc /\ c \in Quotes
    <3> HIDE DEF sa, sb, sc, sd, se, sf, sg
    <3>1. See(s, c) =
            CASE s.ctx \in Quotes -> sa
              [] s.ctx = "block" -> sb
              [] s.ctx = "line"  -> s
              [] s.ctx = "code" /\ c \in Quotes -> sc
              [] s.ctx = "code" /\ c = "/*" -> sd
              [] s.ctx = "code" /\ c \in {"--", "#"} -> se
              [] s.ctx = "code" /\ c = ";" -> sf
              [] OTHER -> sg
      BY Zenon DEF See, sa, sb, sc, sd, se, sf, sg
    <3> QED
      BY <2>1, <3>1 DEF Place, Quotes
  <2> HIDE DEF sa, sb, sc, sd, se, sf, sg
  <2> QED
    BY <2>3, <2>4, <2>5, <2>6, <2>7
<1>2. \A p \in State \X Token : See(p[1], p[2]) \in State
  BY <1>1
<1>3. Machine(Sees, State)
  BY <1>2 DEF Sees, Machine
<1>4. \A s \in State, c \in Token : Sees[<<s, c>>] = See(s, c)
  <2> SUFFICES ASSUME NEW s \in State, NEW c \in Token
               PROVE  Sees[<<s, c>>] = See(s, c)
    OBVIOUS
  <2> DEFINE p == <<s, c>>
  <2>1. p \in State \X Token /\ p[1] = s /\ p[2] = c
    OBVIOUS
  <2> HIDE DEF p
  <2>2. Sees[p] = See(p[1], p[2])
    BY <2>1, Zenon DEF Sees
  <2> QED
    BY <2>1, <2>2 DEF p
<1> QED
  BY <1>1, <1>3, <1>4

(* Where a text leaves the scanner that came to it in state s.             *)
Seen(s, l) == Fold(Sees, State, s, l)

(* Token by token.                                                         *)
LEMMA SeenSteps ==
  ASSUME NEW s \in State
  PROVE  /\ Seen(s, <<>>) = s
         /\ \A l \in Text : Seen(s, l) \in State
         /\ \A l \in Text, c \in Token :
              Seen(s, Append(l, c)) = See(Seen(s, l), c)
<1>1. Seen(s, <<>>) = s /\ \A l \in Text : Seen(s, l) \in State
  BY Seeing, FoldSteps DEF Seen
<1>2. ASSUME NEW l \in Text, NEW c \in Token
      PROVE  Seen(s, Append(l, c)) = See(Seen(s, l), c)
  <2>1. Seen(s, Append(l, c)) = Sees[<<Seen(s, l), c>>]
    BY Seeing, FoldNext DEF Seen
  <2> QED
    BY <1>1, <2>1, Seeing
<1> QED
  BY <1>1, <1>2

(* It never takes back a statement, and stays in a comment of a line.      *)
LEMMA SeenKeeps ==
  ASSUME NEW s \in State, NEW l \in Text
  PROVE  /\ IsPrefix(s.done, Seen(s, l).done)
         /\ s.ctx = "line" => Seen(s, l) = s
<1> DEFINE P(t) == /\ IsPrefix(s.done, Seen(s, t).done)
                   /\ s.ctx = "line" => Seen(s, t) = s
           S == {t \in Text : P(t)}
<1>1. <<>> \in S
  <2>1. IsPrefix(s.done, s.done)
    BY StateIs DEF IsPrefix
  <2> QED
    BY <2>1, SeenSteps, Keeping
<1>2. ASSUME NEW t \in Text, NEW c \in Token, t \in S
      PROVE  Append(t, c) \in S
  <2> DEFINE x == Seen(s, t)
             y == Seen(s, Append(t, c))
  <2>1. Append(t, c) \in Text
    BY Joins
  <2>2. x \in State /\ y \in State /\ y = See(x, c)
    BY <2>1, SeenSteps
  <2>3. IsPrefix(s.done, x.done) /\ (s.ctx = "line" => x = s)
    BY <1>2
  <2> HIDE DEF x, y
  <2>4. IsPrefix(s.done, y.done)
    <3>1. IsPrefix(x.done, y.done)
      BY <2>2, Seeing
    <3>2. s.done \in Seq(Text) /\ x.done \in Seq(Text) /\ y.done \in Seq(Text)
      BY <2>2, StateIs
    <3> DEFINE a == s.done
               b == x.done
               d == y.done
    <3>3. IsPrefix(a, b) /\ IsPrefix(b, d)
      BY <2>3, <3>1
    <3> HIDE DEF a, b, d
    <3>4. IsPrefix(a, d)
      BY <3>2, <3>3, PrefixOfPrefix DEF a, b, d
    <3> QED
      BY <3>4 DEF a, d
  <2>5. ASSUME s.ctx = "line" PROVE y = s
    <3>1. x.ctx = "line" /\ x = s
      BY <2>3, <2>5
    <3> QED
      BY <2>2, <3>1 DEF See, Quotes
  <2> QED
    BY <2>1, <2>4, <2>5 DEF y
<1> HIDE DEF S
<1>3. Seq(Token) \subseteq S
  <2>1. <<>> \in S /\ \A t \in Seq(Token), c \in Token :
                         t \in S => Append(t, c) \in S
    BY <1>1, <1>2 DEF Text
  <2> QED
    BY <2>1, Grown
<1>4. l \in S
  BY <1>3 DEF Text
<1> QED
  BY <1>4 DEF S

-----------------------------------------------------------------------------
(* Statements without their blanks, which is how history records them.     *)
Stripped(q) == [i \in 1 .. Len(q) |-> NoBlanks(q[i])]

(* They are as many, and texts.                                            *)
LEMMA StrippedText ==
  ASSUME NEW q \in Seq(Text)
  PROVE  /\ Stripped(q) \in Seq(Text) /\ Len(Stripped(q)) = Len(q)
         /\ \A i \in 1 .. Len(q) : Stripped(q)[i] = NoBlanks(q[i])
<1>1. \A i \in 1 .. Len(q) : NoBlanks(q[i]) \in Text
  BY NoBlanksSteps
<1>2. Len(q) \in Nat
  OBVIOUS
<1> QED
  BY <1>1, <1>2 DEF Stripped

(* One after the other.                                                    *)
LEMMA StrippedParts ==
  ASSUME NEW p \in Seq(Text), NEW q \in Seq(Text)
  PROVE  Stripped(p \o q) = Stripped(p) \o Stripped(q)
<1> DEFINE a == Stripped(p)
           b == Stripped(q)
           c == Stripped(p \o q)
           m == Len(p)
           n == Len(q)
<1>1. /\ p \o q \in Seq(Text) /\ Len(p \o q) = m + n
      /\ \A i \in 1 .. m + n :
           (p \o q)[i] = IF i <= m THEN p[i] ELSE q[i - m]
      /\ m \in Nat /\ n \in Nat
  BY ConcatProperties
<1>2. /\ a \in Seq(Text) /\ Len(a) = m
      /\ \A i \in 1 .. m : a[i] = NoBlanks(p[i])
      /\ b \in Seq(Text) /\ Len(b) = n
      /\ \A i \in 1 .. n : b[i] = NoBlanks(q[i])
  BY StrippedText
<1>3. /\ c \in Seq(Text) /\ Len(c) = m + n
      /\ \A i \in 1 .. m + n : c[i] = NoBlanks((p \o q)[i])
  BY <1>1, StrippedText
<1> HIDE DEF a, b, c, m, n
<1>4. /\ a \o b \in Seq(Text) /\ Len(a \o b) = Len(a) + Len(b)
      /\ \A i \in 1 .. Len(a) + Len(b) :
           (a \o b)[i] = IF i <= Len(a) THEN a[i] ELSE b[i - Len(a)]
  BY <1>2, ConcatProperties
<1>5. ASSUME NEW i \in 1 .. m + n PROVE c[i] = (a \o b)[i]
  <2>1. CASE i <= m
    BY <1>1, <1>2, <1>3, <1>4, <2>1
  <2>2. CASE ~(i <= m)
    <3>1. i - m \in 1 .. n
      BY <1>1, <2>2
    <3>2. c[i] = NoBlanks((p \o q)[i]) /\ (p \o q)[i] = q[i - m]
      BY <1>1, <1>3, <2>2
    <3>3. (a \o b)[i] = b[i - m]
      BY <1>2, <1>4, <2>2
    <3> QED
      BY <1>2, <3>1, <3>2, <3>3
  <2> QED
    BY <2>1, <2>2
<1>6. c = a \o b
  BY <1>2, <1>3, <1>4, <1>5, SameLines
<1> QED
  BY <1>6 DEF a, b, c

(* None, one, the first, and one that may be empty.                        *)
LEMMA StrippedFew ==
  /\ Stripped(<<>>) = <<>>
  /\ \A s \in Text : Stripped(<<s>>) = <<NoBlanks(s)>>
  /\ \A s \in Text : Solid(s) => Stripped(Pending(s)) = Pending(NoBlanks(s))
<1>1. Stripped(<<>>) = <<>>
  BY DEF Stripped
<1>2. ASSUME NEW s \in Text PROVE Stripped(<<s>>) = <<NoBlanks(s)>>
  <2> DEFINE q == <<s>>
  <2>1. q \in Seq(Text) /\ Len(q) = 1 /\ q[1] = s
    OBVIOUS
  <2>2. NoBlanks(s) \in Text
    BY NoBlanksSteps
  <2> DEFINE n == NoBlanks(s)
  <2>3. <<n>> \in Seq(Text) /\ Len(<<n>>) = 1 /\ <<n>>[1] = n
    BY <2>2
  <2> HIDE DEF q
  <2>4. Stripped(q) \in Seq(Text) /\ Len(Stripped(q)) = 1 /\ Stripped(q)[1] = n
    BY <2>1, StrippedText
  <2> HIDE DEF n
  <2>5. Stripped(q) = <<n>>
    BY <2>3, <2>4, SameLines
  <2> QED
    BY <2>5 DEF q, n
<1>3. ASSUME NEW s \in Text, Solid(s)
      PROVE  Stripped(Pending(s)) = Pending(NoBlanks(s))
  <2>1. CASE s = <<>>
    BY <1>1, <2>1, NoBlanksSteps DEF Pending
  <2>2. CASE s # <<>>
    BY <1>2, <1>3, <2>2 DEF Pending, Solid
  <2> QED
    BY <2>1, <2>2
<1> QED
  BY <1>1, <1>2, <1>3

(* The first of those to be executed joins those that were.                *)
LEMMA StrippedHead ==
  ASSUME NEW d \in Seq(Text), NEW q \in Seq(Text), q # <<>>
  PROVE  /\ Head(q) \in Text /\ Tail(q) \in Seq(Text)
         /\ Append(d, NoBlanks(Head(q))) \in Seq(Text)
         /\ Append(d, NoBlanks(Head(q))) \o Stripped(Tail(q))
              = d \o Stripped(q)
<1> DEFINE h == Head(q)
           t == Tail(q)
           n == NoBlanks(h)
           u == Stripped(t)
<1>1. h \in Text /\ t \in Seq(Text) /\ q = <<h>> \o t
  OBVIOUS
<1>2. n \in Text /\ u \in Seq(Text)
  BY <1>1, NoBlanksSteps, StrippedText
<1>3. Stripped(q) = <<n>> \o u
  <2> HIDE DEF h, t
  <2> DEFINE o == <<h>>
  <2>1. o \in Seq(Text)
    BY <1>1
  <2>2. Stripped(o) = <<n>>
    BY <1>1, StrippedFew
  <2> HIDE DEF o
  <2>3. Stripped(o \o t) = Stripped(o) \o u
    BY <1>1, <2>1, StrippedParts
  <2> QED
    BY <1>1, <2>2, <2>3 DEF o
<1> HIDE DEF h, t, n, u
<1>4. /\ Append(d, n) = d \o <<n>> /\ <<n>> \in Seq(Text)
      /\ Append(d, n) \in Seq(Text)
  BY <1>2, AppendIsConcat
<1>5. (d \o <<n>>) \o u = d \o (<<n>> \o u)
  BY <1>2, <1>4, ConcatAssociative
<1>6. Append(d, n) \o u = d \o Stripped(q)
  BY <1>3, <1>4, <1>5
<1> QED
  BY <1>1, <1>4, <1>6 DEF h, t, n, u

-----------------------------------------------------------------------------
(* What a call of runScript() has made of its file: d and the statements   *)
(* it is about to execute, the one it is in, and where in it.              *)
Scanned(d, f) ==
  [done |-> d \o Stripped(f.exec),
   stmt |-> NoBlanks(f.stmt) \o NoBlanks(f.buf),
   ctx  |-> IF f.quote # "" THEN f.quote
            ELSE IF f.blk THEN "block" ELSE "code"]

(* A call that is in a quote, in a comment or in neither.                  *)
Good(f) == /\ f \in Call /\ Solid(f.stmt)
           /\ f.quote \in {""} \cup Quotes /\ (f.quote # "" => ~f.blk)

(* A sequence is the beginning of what begins with it.                     *)
LEMMA PrefixOfParts ==
  ASSUME NEW a \in Seq(Text), NEW b \in Seq(Text)
  PROVE  IsPrefix(a, a \o b) /\ a \o b \in Seq(Text)
<1>1. /\ a \o b \in Seq(Text) /\ Len(a \o b) = Len(a) + Len(b)
      /\ \A i \in 1 .. Len(a) + Len(b) :
           (a \o b)[i] = IF i <= Len(a) THEN a[i] ELSE b[i - Len(a)]
  BY ConcatProperties
<1>2. Len(a) \in Nat /\ Len(b) \in Nat
  OBVIOUS
<1>3. Len(a) <= Len(a \o b) /\ \A i \in 1 .. Len(a) : a[i] = (a \o b)[i]
  BY <1>1, <1>2
<1> QED
  BY <1>1, <1>3, PrefixIs

(* Its parts, and that it goes on from d.                                  *)
LEMMA ScannedState ==
  ASSUME NEW d \in Seq(Text), NEW f, Good(f)
  PROVE  /\ Scanned(d, f) \in State /\ IsPrefix(d, Scanned(d, f).done)
         /\ f.exec = <<>> => Scanned(d, f).done = d
         /\ Scanned(d, f).done = d \o Stripped(f.exec)
         /\ Scanned(d, f).stmt = NoBlanks(f.stmt) \o NoBlanks(f.buf)
         /\ Scanned(d, f).ctx = IF f.quote # "" THEN f.quote
                                ELSE IF f.blk THEN "block" ELSE "code"
<1> DEFINE x == d \o Stripped(f.exec)
           y == NoBlanks(f.stmt) \o NoBlanks(f.buf)
           z == IF f.quote # "" THEN f.quote
                ELSE IF f.blk THEN "block" ELSE "code"
           s == Scanned(d, f)
<1>1. s = [done |-> x, stmt |-> y, ctx |-> z]
  BY DEF Scanned
<1>2. f.exec \in Seq(Text) /\ f.stmt \in Text /\ f.buf \in Text
  BY Calls DEF Good
<1>3. Stripped(f.exec) \in Seq(Text)
  BY <1>2, StrippedText
<1>4. x \in Seq(Text) /\ IsPrefix(d, x)
  BY <1>3, PrefixOfParts
<1>5. y \in Text
  <2>1. NoBlanks(f.stmt) \in Text /\ NoBlanks(f.buf) \in Text
    BY <1>2, NoBlanksSteps
  <2> QED
    BY <2>1, Joins, BlankIsToken
<1>6. z \in Place
  BY DEF Good, Place, Quotes
<1>7. f.exec = <<>> => x = d
  BY StrippedFew, ConcatEmptySeq
<1> HIDE DEF x, y, z, s
<1>8. s \in State /\ s.done = x /\ s.stmt = y /\ s.ctx = z
  BY <1>1, <1>4, <1>5, <1>6 DEF State
<1> QED
  BY <1>4, <1>7, <1>8 DEF x, y, z, s

(* A token that is copied joins the statement unless it is a blank.        *)
LEMMA Copied ==
  ASSUME NEW a \in Text, NEW b \in Text, NEW c \in Token
  PROVE  a \o NoBlanks(Append(b, c)) = With(a \o NoBlanks(b), c)
<1> DEFINE x == NoBlanks(b)
<1>1. /\ x \in Text
      /\ NoBlanks(Append(b, c)) = IF c = Blank THEN x ELSE Append(x, c)
  BY NoBlanksSteps
<1> HIDE DEF x
<1>2. /\ a \o x \in Text /\ <<c>> \in Text
      /\ Append(x, c) = x \o <<c>> /\ Append(a \o x, c) = (a \o x) \o <<c>>
  BY <1>1, Joins, AppendIsConcat DEF Text
<1>3. (a \o x) \o <<c>> = a \o (x \o <<c>>)
  BY <1>1, <1>2, ConcatAssociative DEF Text
<1> QED
  BY <1>1, <1>2, <1>3 DEF With, x

(* The quote a token opens or closes is not a blank.                       *)
LEMMA MarksAreNoBlanks ==
  Blank \notin {"source", ";", "'", "\"", "/*", "*/", "--", "#"}
BY InputAssumption DEF InputAssumption

(* The fields of the state after a token, place by place.                  *)
LEMMA SeeIs ==
  ASSUME NEW s \in State, NEW c \in Token
  PROVE  /\ s.ctx \in Quotes =>
              /\ See(s, c).done = s.done /\ See(s, c).stmt = With(s.stmt, c)
              /\ See(s, c).ctx = IF c = s.ctx THEN "code" ELSE s.ctx
         /\ s.ctx = "block" =>
              /\ See(s, c).done = s.done /\ See(s, c).stmt = s.stmt
              /\ See(s, c).ctx = IF c = "*/" THEN "code" ELSE "block"
         /\ s.ctx = "code" /\ c \in Quotes =>
              /\ See(s, c).done = s.done
              /\ See(s, c).stmt = Append(s.stmt, c) /\ See(s, c).ctx = c
         /\ s.ctx = "code" /\ c = "/*" =>
              /\ See(s, c).done = s.done /\ See(s, c).stmt = s.stmt
              /\ See(s, c).ctx = "block"
         /\ s.ctx = "code" /\ c \in {"--", "#"} =>
              /\ See(s, c).done = s.done /\ See(s, c).stmt = s.stmt
              /\ See(s, c).ctx = "line"
         /\ s.ctx = "code" /\ c = ";" =>
              /\ See(s, c).done = Closed(s.done, s.stmt)
              /\ See(s, c).stmt = <<>> /\ See(s, c).ctx = "code"
         /\ s.ctx = "code" /\ c \notin Quotes \cup {"/*", "--", "#", ";"} =>
              /\ See(s, c).done = s.done /\ See(s, c).stmt = With(s.stmt, c)
              /\ See(s, c).ctx = "code"
<1>1. s.done \in Seq(Text) /\ s.stmt \in Text /\ s.ctx \in Place
  BY StateIs
<1> DEFINE sa == [s EXCEPT !.stmt = With(@, c),
                           !.ctx = IF c = @ THEN "code" ELSE @]
           sb == [s EXCEPT !.ctx = IF c = "*/" THEN "code" ELSE @]
           sc == [s EXCEPT !.stmt = Append(@, c), !.ctx = c]
           sd == [s EXCEPT !.ctx = "block"]
           se == [s EXCEPT !.ctx = "line"]
           sf == [s EXCEPT !.done = Closed(@, s.stmt), !.stmt = <<>>]
           sg == [s EXCEPT !.stmt = With(@, c)]
<1>2. /\ sa.done = s.done /\ sa.stmt = With(s.stmt, c)
      /\ sa.ctx = IF c = s.ctx THEN "code" ELSE s.ctx
      /\ sb.done = s.done /\ sb.stmt = s.stmt
      /\ sb.ctx = IF c = "*/" THEN "code" ELSE s.ctx
      /\ sc.done = s.done /\ sc.stmt = Append(s.stmt, c) /\ sc.ctx = c
      /\ sd.done = s.done /\ sd.stmt = s.stmt /\ sd.ctx = "block"
      /\ se.done = s.done /\ se.stmt = s.stmt /\ se.ctx = "line"
      /\ sg.done = s.done /\ sg.stmt = With(s.stmt, c) /\ sg.ctx = s.ctx
  BY DEF State
<1>3. sf.done = Closed(s.done, s.stmt) /\ sf.stmt = <<>> /\ sf.ctx = s.ctx
  BY DEF State
<1> HIDE DEF sa, sb, sc, sd, se, sf, sg
<1>4. See(s, c) =
        CASE s.ctx \in Quotes -> sa
          [] s.ctx = "block" -> sb
          [] s.ctx = "line"  -> s
          [] s.ctx = "code" /\ c \in Quotes -> sc
          [] s.ctx = "code" /\ c = "/*" -> sd
          [] s.ctx = "code" /\ c \in {"--", "#"} -> se
          [] s.ctx = "code" /\ c = ";" -> sf
          [] OTHER -> sg
  BY Zenon DEF See, sa, sb, sc, sd, se, sf, sg
<1>5. /\ s.ctx \in Quotes => See(s, c) = sa
      /\ s.ctx = "block" => See(s, c) = sb
      /\ s.ctx = "code" /\ c \in Quotes => See(s, c) = sc
      /\ s.ctx = "code" /\ c = "/*" => See(s, c) = sd
      /\ s.ctx = "code" /\ c \in {"--", "#"} => See(s, c) = se
      /\ s.ctx = "code" /\ c = ";" => See(s, c) = sf
      /\ s.ctx = "code" /\ c \notin Quotes \cup {"/*", "--", "#", ";"} =>
           See(s, c) = sg
  BY <1>4 DEF Quotes
<1> QED
  BY <1>2, <1>3, <1>5

(* In turn.                                                                *)
LEMMA SeeQuoted ==
  ASSUME NEW s \in State, NEW c \in Token, s.ctx \in Quotes
  PROVE  /\ See(s, c).done = s.done /\ See(s, c).stmt = With(s.stmt, c)
         /\ See(s, c).ctx = IF c = s.ctx THEN "code" ELSE s.ctx
BY SeeIs

(* A call that has taken one more token of its line.                       *)
Advances(d, f, g) ==
  /\ Good(g) /\ g.todo = f.todo /\ g.raw = f.raw /\ g.at = f.at + 1
  /\ Scanned(d, g) = See(Scanned(d, f), f.raw[f.at])

(* Two calls that have come to the same.                                   *)
LEMMA Matches ==
  ASSUME NEW d \in Seq(Text), NEW f, Good(f), NEW g, Good(g), NEW c \in Token,
         Scanned(d, g).done = See(Scanned(d, f), c).done,
         Scanned(d, g).stmt = See(Scanned(d, f), c).stmt,
         Scanned(d, g).ctx = See(Scanned(d, f), c).ctx
  PROVE  Scanned(d, g) = See(Scanned(d, f), c)
<1>1. Scanned(d, f) \in State /\ Scanned(d, g) \in State
  BY ScannedState
<1>2. See(Scanned(d, f), c) \in State
  BY <1>1, Seeing
<1> QED
  BY <1>1, <1>2, StateIs

(* A text with a token more is a text.                                     *)
LEMMA JoinOne ==
  ASSUME NEW l \in Text, NEW c \in Token
  PROVE  Append(l, c) \in Text
BY Together DEF Text

(* What stands at a place of a text is a token.                            *)
LEMMA TokenAt ==
  ASSUME NEW l \in Text, NEW k \in 1 .. Len(l)
  PROVE  l[k] \in Token
BY DEF Text

(* A call in the middle of a line, and the token it is at.                 *)
Here(f)   == Good(f) /\ f.at \in 1 .. Len(f.raw)
Quoted(f) == f.quote # ""
TokenOf(f) == f.raw[f.at]

(* What a call that is in a line holds.                                    *)
LEMMA HereIs ==
  ASSUME NEW f, Here(f)
  PROVE  /\ Good(f) /\ f \in Call /\ Solid(f.stmt) /\ TokenOf(f) \in Token
         /\ f.buf \in Text /\ f.stmt \in Text /\ f.exec \in Seq(Text)
         /\ f.at \in Nat /\ f.at + 1 \in Nat
         /\ NoBlanks(f.stmt) \in Text /\ NoBlanks(f.buf) \in Text
         /\ Quoted(f) => f.quote \in Quotes /\ ~f.blk /\ f.quote # ""
<1>1. /\ f \in Call /\ Solid(f.stmt)
      /\ Quoted(f) => f.quote \in Quotes /\ ~f.blk /\ f.quote # ""
  BY DEF Here, Good, Quoted
<1>2. /\ f.raw \in Text /\ f.buf \in Text /\ f.stmt \in Text
      /\ f.exec \in Seq(Text) /\ f.at \in Nat
  BY <1>1, Calls
<1>3. TokenOf(f) \in Token
  BY <1>2, TokenAt DEF Here, TokenOf
<1>4. NoBlanks(f.stmt) \in Text /\ NoBlanks(f.buf) \in Text
  BY <1>2, NoBlanksSteps
<1>5. f.at + 1 \in Nat
  BY <1>2
<1> QED
  BY <1>1, <1>2, <1>3, <1>4, <1>5 DEF Here

(* Within quotes every token is copied, up to the closing one.             *)
LEMMA QuoteSees ==
  ASSUME NEW d \in Seq(Text), NEW f, Here(f), Quoted(f)
  PROVE  Advances(d, f, [Copies(f, TokenOf(f)) EXCEPT
                           !.quote = IF TokenOf(f) = @ THEN "" ELSE @])
<1> DEFINE c == TokenOf(f)
           s == Scanned(d, f)
           g == [Copies(f, c) EXCEPT !.quote = IF c = @ THEN "" ELSE @]
<1> HIDE DEF c, s, g
<1>1. /\ f \in Call /\ f.quote \in Quotes /\ ~f.blk /\ Solid(f.stmt)
      /\ f.quote # "" /\ Good(f)
      /\ f.buf \in Text /\ f.stmt \in Text
      /\ f.at + 1 \in Nat /\ c \in Token
      /\ NoBlanks(f.stmt) \in Text
  BY HereIs DEF c
<1>2. Append(f.buf, c) \in Text /\ "" \in Token
  <2>1. "" \in Token
    BY DEF Token
  <2> QED
    BY <1>1, <2>1, JoinOne
<1>3. /\ g.todo = f.todo /\ g.raw = f.raw /\ g.at = f.at + 1
      /\ g.stmt = f.stmt /\ g.buf = Append(f.buf, c) /\ g.exec = f.exec
      /\ g.blk = f.blk /\ g.quote = IF c = f.quote THEN "" ELSE f.quote
      /\ g \in Call
  BY <1>1, <1>2 DEF Call, Copies, Forward, g
<1>4. Good(g)
  BY <1>1, <1>3 DEF Good
<1>5. /\ s \in State /\ s.done = d \o Stripped(f.exec)
      /\ s.stmt = NoBlanks(f.stmt) \o NoBlanks(f.buf) /\ s.ctx = f.quote
  BY <1>1, ScannedState DEF s
<1>6. /\ See(s, c).done = s.done /\ See(s, c).stmt = With(s.stmt, c)
      /\ See(s, c).ctx = IF c = f.quote THEN "code" ELSE f.quote
  <2>1. s \in State /\ c \in Token /\ s.ctx \in Quotes
    BY <1>1, <1>5
  <2>2. /\ See(s, c).done = s.done /\ See(s, c).stmt = With(s.stmt, c)
        /\ See(s, c).ctx = IF c = s.ctx THEN "code" ELSE s.ctx
    BY <2>1, SeeQuoted
  <2>3. s.ctx = f.quote
    BY <1>5
  <2> QED
    BY <2>2, <2>3
<1>7. NoBlanks(f.stmt) \o NoBlanks(Append(f.buf, c)) = With(s.stmt, c)
  BY <1>1, <1>5, Copied
<1>8. /\ Scanned(d, g).done = s.done
      /\ Scanned(d, g).stmt = With(s.stmt, c)
      /\ Scanned(d, g).ctx = IF c = f.quote THEN "code" ELSE f.quote
  <2>1. /\ Scanned(d, g).done = d \o Stripped(g.exec)
        /\ Scanned(d, g).stmt = NoBlanks(g.stmt) \o NoBlanks(g.buf)
        /\ Scanned(d, g).ctx = IF g.quote # "" THEN g.quote
                                ELSE IF g.blk THEN "block" ELSE "code"
    BY <1>4, ScannedState
  <2> QED
    BY <1>1, <1>3, <1>5, <1>7, <2>1
<1>9. Scanned(d, g) = See(s, c)
  BY <1>1, <1>4, <1>6, <1>8, Matches DEF s
<1> QED
  BY <1>3, <1>4, <1>9 DEF Advances, s, c, g, TokenOf

(* And in the other places.                                                *)
LEMMA SeeCommented ==
  ASSUME NEW s \in State, NEW c \in Token, s.ctx = "block"
  PROVE  /\ See(s, c).done = s.done /\ See(s, c).stmt = s.stmt
         /\ See(s, c).ctx = IF c = "*/" THEN "code" ELSE "block"
BY SeeIs

(* A quote opens in code.                                                  *)
LEMMA SeeQuote ==
  ASSUME NEW s \in State, NEW c \in Token, s.ctx = "code", c \in Quotes
  PROVE  /\ See(s, c).done = s.done /\ See(s, c).stmt = Append(s.stmt, c)
         /\ See(s, c).ctx = c
BY SeeIs

(* So do comments, of the line and of more.                                *)
LEMMA SeeComment ==
  ASSUME NEW s \in State, NEW c \in Token, s.ctx = "code"
  PROVE  /\ c = "/*" =>
              /\ See(s, c).done = s.done /\ See(s, c).stmt = s.stmt
              /\ See(s, c).ctx = "block"
         /\ c \in {"--", "#"} =>
              /\ See(s, c).done = s.done /\ See(s, c).stmt = s.stmt
              /\ See(s, c).ctx = "line"
BY SeeIs

(* A semicolon ends the statement.                                         *)
LEMMA SeeEnd ==
  ASSUME NEW s \in State, NEW c \in Token, s.ctx = "code", c \in {";"}
  PROVE  /\ See(s, c).done = Closed(s.done, s.stmt)
         /\ See(s, c).stmt = <<>> /\ See(s, c).ctx = "code"
BY SeeIs

(* Anything else is part of it.                                            *)
LEMMA SeePlain ==
  ASSUME NEW s \in State, NEW c \in Token, s.ctx = "code",
         c \notin Quotes \cup {"/*", "--", "#", ";"}
  PROVE  /\ See(s, c).done = s.done /\ See(s, c).stmt = With(s.stmt, c)
         /\ See(s, c).ctx = "code"
BY SeeIs

(* A call in a comment of several lines, and one in code.                  *)
Commented(f) == f.quote = "" /\ f.blk
Coding(f)    == f.quote = "" /\ ~f.blk

(* A call is in code, in a comment or in a quote.                          *)
LEMMA CodingState ==
  ASSUME NEW d \in Seq(Text), NEW f, Good(f)
  PROVE  /\ Coding(f) <=> Scanned(d, f).ctx = "code"
         /\ Commented(f) <=> Scanned(d, f).ctx = "block"
         /\ Quoted(f) <=> Scanned(d, f).ctx \in Quotes
         /\ Coding(f) \/ Commented(f) \/ Quoted(f)
<1>1. /\ f.quote \in {""} \cup Quotes /\ (f.quote # "" => ~f.blk)
      /\ f.blk \in BOOLEAN
  BY Calls DEF Good
<1>2. Scanned(d, f).ctx = IF f.quote # "" THEN f.quote
                          ELSE IF f.blk THEN "block" ELSE "code"
  BY ScannedState
<1> QED
  BY <1>1, <1>2 DEF Coding, Commented, Quoted, Quotes

(* A comment is left out, up to its end.                                   *)
LEMMA BlockSees ==
  ASSUME NEW d \in Seq(Text), NEW f, Here(f), Commented(f)
  PROVE  Advances(d, f, [Forward(f) EXCEPT !.blk = TokenOf(f) # "*/"])
<1> DEFINE c == TokenOf(f)
           s == Scanned(d, f)
           g == [Forward(f) EXCEPT !.blk = c # "*/"]
<1> HIDE DEF c, s, g
<1>1. /\ f \in Call /\ Solid(f.stmt) /\ Good(f)
      /\ f.at + 1 \in Nat /\ c \in Token
  BY HereIs DEF c
<1>2. f.quote = ""
  BY DEF Commented
<1>3. /\ g.todo = f.todo /\ g.raw = f.raw /\ g.at = f.at + 1
      /\ g.stmt = f.stmt /\ g.buf = f.buf /\ g.exec = f.exec
      /\ g.blk = (c # "*/") /\ g.quote = f.quote
      /\ g \in Call
  BY <1>1 DEF Call, Forward, g
<1>4. Good(g)
  BY <1>1, <1>2, <1>3 DEF Good
<1>5. /\ s \in State /\ s.done = d \o Stripped(f.exec)
      /\ s.stmt = NoBlanks(f.stmt) \o NoBlanks(f.buf) /\ s.ctx = "block"
  BY <1>1, ScannedState, CodingState DEF s
<1>6. /\ See(s, c).done = s.done /\ See(s, c).stmt = s.stmt
      /\ See(s, c).ctx = IF c = "*/" THEN "code" ELSE "block"
  BY <1>1, <1>5, SeeCommented
<1>7. /\ Scanned(d, g).done = s.done
      /\ Scanned(d, g).stmt = s.stmt
      /\ Scanned(d, g).ctx = IF c = "*/" THEN "code" ELSE "block"
  <2>1. /\ Scanned(d, g).done = d \o Stripped(g.exec)
        /\ Scanned(d, g).stmt = NoBlanks(g.stmt) \o NoBlanks(g.buf)
        /\ Scanned(d, g).ctx = IF g.quote # "" THEN g.quote
                                ELSE IF g.blk THEN "block" ELSE "code"
    BY <1>4, ScannedState
  <2> QED
    BY <1>2, <1>3, <1>5, <2>1
<1>8. Scanned(d, g) = See(s, c)
  BY <1>1, <1>4, <1>6, <1>7, Matches DEF s
<1> QED
  BY <1>3, <1>4, <1>8 DEF Advances, s, c, g, TokenOf

(* A comment of several lines begins.                                      *)
LEMMA OpenBlockSees ==
  ASSUME NEW d \in Seq(Text), NEW f, Here(f), Coding(f), TokenOf(f) = "/*"
  PROVE  Advances(d, f, [Forward(f) EXCEPT !.blk = TRUE])
<1> DEFINE c == TokenOf(f)
           s == Scanned(d, f)
           g == [Forward(f) EXCEPT !.blk = TRUE]
<1> HIDE DEF c, s, g
<1>1. /\ f \in Call /\ Solid(f.stmt) /\ Good(f)
      /\ f.at + 1 \in Nat /\ c \in Token /\ c = "/*"
  BY HereIs DEF c
<1>2. f.quote = ""
  BY DEF Coding
<1>3. /\ g.todo = f.todo /\ g.raw = f.raw /\ g.at = f.at + 1
      /\ g.stmt = f.stmt /\ g.buf = f.buf /\ g.exec = f.exec
      /\ g.blk = TRUE /\ g.quote = f.quote
      /\ g \in Call
  BY <1>1 DEF Call, Forward, g
<1>4. Good(g)
  BY <1>1, <1>2, <1>3 DEF Good
<1>5. /\ s \in State /\ s.done = d \o Stripped(f.exec)
      /\ s.stmt = NoBlanks(f.stmt) \o NoBlanks(f.buf) /\ s.ctx = "code"
  BY <1>1, ScannedState, CodingState DEF s
<1>6. /\ See(s, c).done = s.done /\ See(s, c).stmt = s.stmt
      /\ See(s, c).ctx = "block"
  BY <1>1, <1>5, SeeComment
<1>7. /\ Scanned(d, g).done = s.done
      /\ Scanned(d, g).stmt = s.stmt
      /\ Scanned(d, g).ctx = "block"
  <2>1. /\ Scanned(d, g).done = d \o Stripped(g.exec)
        /\ Scanned(d, g).stmt = NoBlanks(g.stmt) \o NoBlanks(g.buf)
        /\ Scanned(d, g).ctx = IF g.quote # "" THEN g.quote
                                ELSE IF g.blk THEN "block" ELSE "code"
    BY <1>4, ScannedState
  <2> QED
    BY <1>2, <1>3, <1>5, <2>1
<1>8. Scanned(d, g) = See(s, c)
  BY <1>1, <1>4, <1>6, <1>7, Matches DEF s
<1> QED
  BY <1>3, <1>4, <1>8 DEF Advances, s, c, g, TokenOf

(* A quote opens and is copied.                                            *)
LEMMA OpenQuoteSees ==
  ASSUME NEW d \in Seq(Text), NEW f, Here(f), Coding(f), TokenOf(f) \in Quotes
  PROVE  Advances(d, f, [Copies(f, TokenOf(f)) EXCEPT !.quote = TokenOf(f)])
<1> DEFINE c == TokenOf(f)
           s == Scanned(d, f)
           g == [Copies(f, c) EXCEPT !.quote = c]
<1> HIDE DEF c, s, g
<1>1. /\ f \in Call /\ Solid(f.stmt) /\ Good(f) /\ f.buf \in Text
      /\ f.at + 1 \in Nat /\ c \in Token /\ c \in Quotes
      /\ NoBlanks(f.stmt) \in Text
  BY HereIs DEF c
<1>2. f.quote = "" /\ ~f.blk
  BY DEF Coding
<1>3. Append(f.buf, c) \in Text
  BY <1>1, JoinOne
<1>4. /\ g.todo = f.todo /\ g.raw = f.raw /\ g.at = f.at + 1
      /\ g.stmt = f.stmt /\ g.buf = Append(f.buf, c) /\ g.exec = f.exec
      /\ g.blk = f.blk /\ g.quote = c
      /\ g \in Call
  BY <1>1, <1>3 DEF Call, Copies, Forward, g
<1>5. Good(g)
  BY <1>1, <1>2, <1>4 DEF Good
<1>6. /\ s \in State /\ s.done = d \o Stripped(f.exec)
      /\ s.stmt = NoBlanks(f.stmt) \o NoBlanks(f.buf) /\ s.ctx = "code"
  BY <1>1, ScannedState, CodingState DEF s
<1>7. /\ See(s, c).done = s.done /\ See(s, c).stmt = Append(s.stmt, c)
      /\ See(s, c).ctx = c
  BY <1>1, <1>6, SeeQuote
<1>8. NoBlanks(f.stmt) \o NoBlanks(Append(f.buf, c)) = Append(s.stmt, c)
  <2>1. NoBlanks(f.stmt) \o NoBlanks(Append(f.buf, c)) = With(s.stmt, c)
    BY <1>1, <1>6, Copied
  <2>2. c # Blank
    BY <1>1, MarksAreNoBlanks DEF Quotes
  <2> QED
    BY <2>1, <2>2 DEF With
<1>9. /\ Scanned(d, g).done = s.done
      /\ Scanned(d, g).stmt = Append(s.stmt, c)
      /\ Scanned(d, g).ctx = c
  <2>1. /\ Scanned(d, g).done = d \o Stripped(g.exec)
        /\ Scanned(d, g).stmt = NoBlanks(g.stmt) \o NoBlanks(g.buf)
        /\ Scanned(d, g).ctx = IF g.quote # "" THEN g.quote
                                ELSE IF g.blk THEN "block" ELSE "code"
    BY <1>5, ScannedState
  <2>2. c # ""
    BY <1>1 DEF Quotes
  <2> QED
    BY <1>4, <1>6, <1>8, <2>1, <2>2
<1>10. Scanned(d, g) = See(s, c)
  <2>1. Good(f) /\ c \in Token
    BY <1>1
  <2>2. /\ Scanned(d, g).done = See(Scanned(d, f), c).done
        /\ Scanned(d, g).stmt = See(Scanned(d, f), c).stmt
        /\ Scanned(d, g).ctx = See(Scanned(d, f), c).ctx
    BY <1>7, <1>9 DEF s
  <2>3. Scanned(d, g) = See(Scanned(d, f), c)
    BY <1>5, <2>1, <2>2, Matches
  <2> QED
    BY <2>3 DEF s
<1> QED
  BY <1>4, <1>5, <1>10 DEF Advances, s, c, g, TokenOf

(* What means nothing is copied.                                           *)
LEMMA PlainSees ==
  ASSUME NEW d \in Seq(Text), NEW f, Here(f), Coding(f),
         TokenOf(f) \notin Quotes \cup {"/*", "--", "#", ";"}
  PROVE  Advances(d, f, Copies(f, TokenOf(f)))
<1> DEFINE c == TokenOf(f)
           s == Scanned(d, f)
           g == Copies(f, c)
<1> HIDE DEF c, s, g
<1>1. /\ f \in Call /\ Solid(f.stmt) /\ Good(f) /\ f.buf \in Text
      /\ f.at + 1 \in Nat /\ c \in Token
      /\ c \notin Quotes \cup {"/*", "--", "#", ";"}
      /\ NoBlanks(f.stmt) \in Text
  BY HereIs DEF c
<1>2. f.quote = "" /\ ~f.blk
  BY DEF Coding
<1>3. Append(f.buf, c) \in Text
  BY <1>1, JoinOne
<1>4. /\ g.todo = f.todo /\ g.raw = f.raw /\ g.at = f.at + 1
      /\ g.stmt = f.stmt /\ g.buf = Append(f.buf, c) /\ g.exec = f.exec
      /\ g.blk = f.blk /\ g.quote = f.quote
      /\ g \in Call
  BY <1>1, <1>3 DEF Call, Copies, Forward, g
<1>5. Good(g)
  BY <1>1, <1>2, <1>4 DEF Good
<1>6. /\ s \in State /\ s.done = d \o Stripped(f.exec)
      /\ s.stmt = NoBlanks(f.stmt) \o NoBlanks(f.buf) /\ s.ctx = "code"
  BY <1>1, ScannedState, CodingState DEF s
<1>7. /\ See(s, c).done = s.done /\ See(s, c).stmt = With(s.stmt, c)
      /\ See(s, c).ctx = "code"
  BY <1>1, <1>6, SeePlain
<1>8. NoBlanks(f.stmt) \o NoBlanks(Append(f.buf, c)) = With(s.stmt, c)
  BY <1>1, <1>6, Copied
<1>9. /\ Scanned(d, g).done = s.done
      /\ Scanned(d, g).stmt = With(s.stmt, c)
      /\ Scanned(d, g).ctx = "code"
  <2>1. /\ Scanned(d, g).done = d \o Stripped(g.exec)
        /\ Scanned(d, g).stmt = NoBlanks(g.stmt) \o NoBlanks(g.buf)
        /\ Scanned(d, g).ctx = IF g.quote # "" THEN g.quote
                                ELSE IF g.blk THEN "block" ELSE "code"
    BY <1>5, ScannedState
  <2> QED
    BY <1>2, <1>4, <1>6, <1>8, <2>1
<1>10. Scanned(d, g) = See(s, c)
  <2>1. Scanned(d, g) \in State
    BY <1>5, ScannedState
  <2>2. See(s, c) \in State
    BY <1>1, <1>6, Seeing
  <2> QED
    BY <1>7, <1>9, <2>1, <2>2, StateIs
<1> QED
  BY <1>4, <1>5, <1>10 DEF Advances, s, c, g, TokenOf

(* A call that is to execute nothing before it goes on.                    *)
Free(f) == f.exec = <<>>

(* A semicolon ends the statement, which is executed unless it is empty.   *)
LEMMA TerminatorSees ==
  ASSUME NEW d \in Seq(Text), NEW f, Here(f), Coding(f), Free(f),
         TokenOf(f) = ";"
  PROVE  Advances(d, f, [Forward(f) EXCEPT !.exec = Pending(WithText(f)),
                           !.stmt = <<>>, !.buf = <<>>])
<1> DEFINE c == TokenOf(f)
           s == Scanned(d, f)
           w == WithText(f)
           g == [Forward(f) EXCEPT !.exec = Pending(w),
                   !.stmt = <<>>, !.buf = <<>>]
<1> HIDE DEF c, s, g, w
<1>1. /\ f \in Call /\ Solid(f.stmt) /\ Good(f)
      /\ f.at + 1 \in Nat /\ c \in Token /\ c \in {";"}
  BY HereIs DEF c
<1>2. f.quote = "" /\ ~f.blk /\ f.exec = <<>>
  BY DEF Coding, Free
<1>3. /\ w \in Text /\ Solid(w)
      /\ NoBlanks(w) = NoBlanks(f.stmt) \o NoBlanks(f.buf)
      /\ Pending(w) \in Seq(Text) /\ <<>> \in Text
  BY <1>1, WithTextText, Flushed, Joins, BlankIsToken DEF w
<1>4. /\ g.todo = f.todo /\ g.raw = f.raw /\ g.at = f.at + 1
      /\ g.stmt = <<>> /\ g.buf = <<>> /\ g.exec = Pending(w)
      /\ g.blk = f.blk /\ g.quote = f.quote
      /\ g \in Call
  BY <1>1, <1>3 DEF Call, Forward, g
<1>5. Good(g)
  BY <1>1, <1>2, <1>4 DEF Good, Solid
<1>6. /\ s \in State /\ s.done = d
      /\ s.stmt = NoBlanks(f.stmt) \o NoBlanks(f.buf) /\ s.ctx = "code"
  BY <1>1, <1>2, ScannedState, CodingState DEF s
<1>7. /\ See(s, c).done = Closed(d, s.stmt)
      /\ See(s, c).stmt = <<>> /\ See(s, c).ctx = "code"
  BY <1>1, <1>6, SeeEnd
<1>8. d \o Stripped(Pending(w)) = Closed(d, s.stmt)
  <2>1. Stripped(Pending(w)) = Pending(s.stmt)
    BY <1>3, <1>6, StrippedFew
  <2>2. s.stmt \in Text
    BY <1>6, StateIs
  <2> QED
    BY <2>1, <2>2, ClosedText
<1>9. NoBlanks(<<>>) \o NoBlanks(<<>>) = <<>>
  BY <1>3, NoBlanksSteps, ConcatEmptySeq DEF Text
<1>10. /\ Scanned(d, g).done = Closed(d, s.stmt)
       /\ Scanned(d, g).stmt = <<>>
       /\ Scanned(d, g).ctx = "code"
  <2>1. /\ Scanned(d, g).done = d \o Stripped(g.exec)
        /\ Scanned(d, g).stmt = NoBlanks(g.stmt) \o NoBlanks(g.buf)
        /\ Scanned(d, g).ctx = IF g.quote # "" THEN g.quote
                                ELSE IF g.blk THEN "block" ELSE "code"
    BY <1>5, ScannedState
  <2> QED
    BY <1>2, <1>4, <1>8, <1>9, <2>1
<1>11. Scanned(d, g) = See(s, c)
  <2>1. Scanned(d, g) \in State
    BY <1>5, ScannedState
  <2>2. See(s, c) \in State
    BY <1>1, <1>6, Seeing
  <2> QED
    BY <1>7, <1>10, <2>1, <2>2, StateIs
<1> QED
  BY <1>4, <1>5, <1>11 DEF Advances, s, c, g, w, TokenOf

(* The rest of the line is left out, and the next one is code again.       *)
Skips(d, f, g) ==
  /\ Good(g) /\ g.todo = f.todo /\ g.raw = f.raw /\ g.at = Len(f.raw) + 1
  /\ Scanned(d, g) = Scanned(d, f) /\ Scanned(d, f).ctx = "code"
  /\ See(Scanned(d, f), f.raw[f.at]) = [Scanned(d, f) EXCEPT !.ctx = "line"]

(* The scanner leaves the line where a comment of the line begins.         *)
LEMMA LineCommentSees ==
  ASSUME NEW d \in Seq(Text), NEW f, Here(f), Coding(f),
         TokenOf(f) \in {"--", "#"}
  PROVE  Skips(d, f, [f EXCEPT !.at = Len(f.raw) + 1])
<1> DEFINE c == TokenOf(f)
           s == Scanned(d, f)
           n == Len(f.raw) + 1
           g == [f EXCEPT !.at = n]
<1> HIDE DEF c, s, g, n
<1>1. /\ f \in Call /\ Solid(f.stmt) /\ Good(f)
      /\ c \in Token /\ c \in {"--", "#"}
  BY HereIs DEF c
<1>2. f.quote \in {""} \cup Quotes /\ (f.quote # "" => ~f.blk)
  BY <1>1 DEF Good
<1>3. n \in Nat
  BY <1>1, Calls DEF Text, n
<1>4. /\ g.todo = f.todo /\ g.raw = f.raw /\ g.at = n
      /\ g.stmt = f.stmt /\ g.buf = f.buf /\ g.exec = f.exec
      /\ g.blk = f.blk /\ g.quote = f.quote
      /\ g \in Call
  BY <1>1, <1>3 DEF Call, g
<1>5. Good(g)
  BY <1>1, <1>2, <1>4 DEF Good
<1>6. Scanned(d, g) = s
  BY <1>4 DEF Scanned, s
<1>7. s \in State /\ s.ctx = "code"
  BY <1>1, ScannedState, CodingState DEF s
<1>8. See(s, c) = [s EXCEPT !.ctx = "line"]
  <2>1. /\ See(s, c).done = s.done /\ See(s, c).stmt = s.stmt
        /\ See(s, c).ctx = "line"
    BY <1>1, <1>7, SeeComment
  <2>2. See(s, c) \in State
    BY <1>1, <1>7, Seeing
  <2> DEFINE t == [s EXCEPT !.ctx = "line"]
  <2>3. t \in State /\ t.done = s.done /\ t.stmt = s.stmt /\ t.ctx = "line"
    BY <1>7 DEF State, Place
  <2> HIDE DEF t
  <2>4. See(s, c) = t
    BY <2>1, <2>2, <2>3, StateIs
  <2> QED
    BY <2>4 DEF t
<1> QED
  BY <1>4, <1>5, <1>6, <1>7, <1>8 DEF Skips, s, c, g, n, TokenOf

-----------------------------------------------------------------------------
(* A step of the scan takes a token as the text's meaning does.            *)
LEMMA ScanSees ==
  ASSUME InputTyped, depth > 0, Good(Top), Scanning, NEW d \in Seq(Text)
  PROVE  \E f : /\ Becomes(f) /\ Here(Top) /\ Free(Top)
                /\ Advances(d, Top, f) \/ Skips(d, Top, f)
<1> DEFINE t == Top
           c == TokenOf(Top)
<1>1. Good(t)
  OBVIOUS
<1>2. /\ t.exec = <<>> /\ t.at \in 1 .. Len(t.raw)
      /\ \/ t.quote # "" /\ InQuote
         \/ t.quote = "" /\ t.blk /\ InBlock
         \/ t.quote = "" /\ ~t.blk /\ c \in Quotes /\ OpenQuote
         \/ t.quote = "" /\ ~t.blk /\ c = "/*" /\ OpenBlock
         \/ t.quote = "" /\ ~t.blk /\ c \in {"--", "#"} /\ LineComment
         \/ t.quote = "" /\ ~t.blk /\ c = ";" /\ Terminator
         \/ /\ t.quote = "" /\ ~t.blk /\ Plain
            /\ c \notin Quotes \cup {"/*", "--", "#", ";"}
  BY DEF Scanning, InQuote, InBlock, OpenQuote, OpenBlock, LineComment,
         Terminator, Plain, InCode, Scans, Scan, TokenOf
<1>3. Here(t) /\ Free(t)
  BY <1>1, <1>2 DEF Here, Free
<1>4. \/ Quoted(t) /\ InQuote
      \/ Commented(t) /\ InBlock
      \/ Coding(t) /\ c \in Quotes /\ OpenQuote
      \/ Coding(t) /\ c = "/*" /\ OpenBlock
      \/ Coding(t) /\ c \in {"--", "#"} /\ LineComment
      \/ Coding(t) /\ c = ";" /\ Terminator
      \/ Coding(t) /\ Plain /\ c \notin Quotes \cup {"/*", "--", "#", ";"}
  BY <1>2 DEF Quoted, Commented, Coding
<1>5. SUFFICES \E f : Becomes(f) /\ (Advances(d, t, f) \/ Skips(d, t, f))
  BY <1>3
<1>6. CASE Quoted(t) /\ InQuote
  <2>1. Becomes([Copies(t, c) EXCEPT !.quote = IF c = @ THEN "" ELSE @])
    BY <1>6 DEF InQuote, TokenOf
  <2> QED
    BY <1>3, <1>6, <2>1, QuoteSees
<1>7. CASE Commented(t) /\ InBlock
  <2>1. Becomes([Forward(t) EXCEPT !.blk = c # "*/"])
    BY <1>7 DEF InBlock, TokenOf
  <2> QED
    BY <1>3, <1>7, <2>1, BlockSees
<1>8. CASE Coding(t) /\ c \in Quotes /\ OpenQuote
  <2>1. Becomes([Copies(t, c) EXCEPT !.quote = c])
    BY <1>8 DEF OpenQuote, TokenOf
  <2> QED
    BY <1>3, <1>8, <2>1, OpenQuoteSees
<1>9. CASE Coding(t) /\ c = "/*" /\ OpenBlock
  <2>1. Becomes([Forward(t) EXCEPT !.blk = TRUE])
    BY <1>9 DEF OpenBlock
  <2> QED
    BY <1>3, <1>9, <2>1, OpenBlockSees
<1>10. CASE Coding(t) /\ c \in {"--", "#"} /\ LineComment
  <2>1. Becomes([t EXCEPT !.at = Len(t.raw) + 1])
    BY <1>10 DEF LineComment
  <2> QED
    BY <1>3, <1>10, <2>1, LineCommentSees
<1>11. CASE Coding(t) /\ c = ";" /\ Terminator
  <2>1. Becomes([Forward(t) EXCEPT !.exec = Pending(WithText(t)),
                   !.stmt = <<>>, !.buf = <<>>])
    BY <1>11 DEF Terminator
  <2> QED
    BY <1>3, <1>11, <2>1, TerminatorSees
<1>12. CASE /\ Coding(t) /\ Plain
            /\ c \notin Quotes \cup {"/*", "--", "#", ";"}
  <2>1. Becomes(Copies(t, c))
    BY <1>12 DEF Plain, TokenOf
  <2> QED
    BY <1>3, <1>12, <2>1, PlainSees
<1> QED
  BY <1>4, <1>6, <1>7, <1>8, <1>9, <1>10, <1>11, <1>12

-----------------------------------------------------------------------------
(* The script on the standard input.                                       *)

(* What a line makes of it; a source line is a statement of its own.       *)
Sourced(s, l) ==
  [done |-> Append(Closed(s.done, s.stmt),
                   NoBlanks(<<"source", Blank>> \o ArgOf(Trim(l)))),
   stmt |-> <<>>, ctx |-> "code"]
Line(s, l) == IF s.ctx = "code" /\ IsSource(Trim(l)) THEN Sourced(s, l)
              ELSE Seen(s, l)

(* What is written, w and the beginning o of a statement, is what will     *)
(* have been seen at the end of the line; c tells what its author is at.   *)
Stands(e, c, o, w) ==
  /\ e.ctx \notin Quotes
  /\ \/ c = "eof" /\ w = Closed(e.done, e.stmt) /\ o = <<>>
     \/ /\ c \in {"code", "block"} /\ w = e.done /\ o = e.stmt
        /\ c = "block" <=> e.ctx = "block"

(* The shell is in a line, has one to take, is at the end of its input; or *)
(* its author is writing a source command, or text, p so far.              *)
AtRest(f) == f.at = 0 /\ f.buf = <<>> /\ f.quote = ""
InLine(f, d, p, c, o, w) ==
  /\ f.at \in 1 .. Len(f.raw) + 1 /\ f.todo = <<>> /\ p = <<>>
  /\ Stands(Seen(Scanned(d, f), SubSeq(f.raw, f.at, Len(f.raw))), c, o, w)
LineDue(f, d, p, c, o, w) ==
  /\ AtRest(f) /\ p = <<>>
  /\ \E l \in Text : f.todo = <<l>> /\ Stands(Line(Scanned(d, f), l), c, o, w)
AtEnd(f, d, p, c, o, w) ==
  /\ AtRest(f) /\ f.todo = <<>> /\ c = "eof" /\ p = <<>>
  /\ Stands(Scanned(d, f), c, o, w)
InCommand(f, d, p, c, o, w) ==
  /\ AtRest(f) /\ f.todo = <<>> /\ c = "end" /\ Coding(f)
  /\ IsSource(Trim(p)) /\ w = Sourced(Scanned(d, f), p).done /\ o = <<>>
Ordinary(p) == p = <<>> \/ p[1] \notin {Blank, "source"}
SeenAs(e, c, o, w) ==
  c \in {"code", "line", "block"} /\ e.ctx = c /\ w = e.done /\ o = e.stmt
InText(f, d, p, c, o, w) ==
  /\ AtRest(f) /\ f.todo = <<>> /\ (Coding(f) => Ordinary(p))
  /\ SeenAs(Seen(Scanned(d, f), p), c, o, w)

Outer(f, d, p, c, o, w) ==
  \/ InLine(f, d, p, c, o, w) \/ LineDue(f, d, p, c, o, w)
  \/ AtEnd(f, d, p, c, o, w) \/ InCommand(f, d, p, c, o, w)
  \/ InText(f, d, p, c, o, w)

(* A call that goes on where it is, having executed something.             *)
SamePlaceAs(f, g) ==
  /\ g.todo = f.todo /\ g.raw = f.raw /\ g.at = f.at /\ g.buf = f.buf
  /\ g.quote = f.quote /\ g.blk = f.blk

(* What matters of a call is where it is and what it has made of its file. *)
LEMMA OuterSame ==
  ASSUME NEW f, NEW g, NEW d, NEW e, NEW p, NEW c, NEW o, NEW w,
         Outer(f, d, p, c, o, w), SamePlaceAs(f, g),
         Scanned(e, g) = Scanned(d, f)
  PROVE  Outer(g, e, p, c, o, w)
<1> USE DEF SamePlaceAs
<1>1. (AtRest(f) => AtRest(g)) /\ (Coding(g) <=> Coding(f))
  BY DEF AtRest, Coding
<1>2. CASE InLine(f, d, p, c, o, w)
  <2>1. InLine(g, e, p, c, o, w)
    BY <1>2 DEF InLine
  <2> QED
    BY <2>1 DEF Outer
<1>3. CASE LineDue(f, d, p, c, o, w)
  <2>1. LineDue(g, e, p, c, o, w)
    BY <1>1, <1>3 DEF LineDue
  <2> QED
    BY <2>1 DEF Outer
<1>4. CASE AtEnd(f, d, p, c, o, w)
  <2>1. AtEnd(g, e, p, c, o, w)
    BY <1>1, <1>4 DEF AtEnd
  <2> QED
    BY <2>1 DEF Outer
<1>5. CASE InCommand(f, d, p, c, o, w)
  <2>1. InCommand(g, e, p, c, o, w)
    BY <1>1, <1>5 DEF InCommand
  <2> QED
    BY <2>1 DEF Outer
<1>6. CASE InText(f, d, p, c, o, w)
  <2>1. InText(g, e, p, c, o, w)
    BY <1>1, <1>6 DEF InText
  <2> QED
    BY <2>1 DEF Outer
<1> QED
  BY <1>2, <1>3, <1>4, <1>5, <1>6 DEF Outer

(* The text that remains of the line is seen as it is scanned.             *)
LEMMA SeenFirst ==
  ASSUME NEW s \in State, NEW l \in Text, NEW k \in 1 .. Len(l)
  PROVE  Seen(s, SubSeq(l, k, Len(l)))
           = Seen(See(s, l[k]), SubSeq(l, k + 1, Len(l)))
<1>1. l[k] \in Token
  BY TokenAt
<1>2. Sees[<<s, l[k]>>] = See(s, l[k])
  BY <1>1, Seeing
<1>3. Seen(s, SubSeq(l, k, Len(l)))
        = Seen(Sees[<<s, l[k]>>], SubSeq(l, k + 1, Len(l)))
  BY Seeing, FoldFirst DEF Seen
<1> QED
  BY <1>2, <1>3

(* A token that is scanned was to be seen before, and is seen now.         *)
LEMMA ScanOuter ==
  ASSUME NEW d \in Seq(Text), NEW f, NEW g, NEW p, NEW c, NEW o, NEW w,
         Outer(f, d, p, c, o, w), Here(f),
         Advances(d, f, g) \/ Skips(d, f, g)
  PROVE  Outer(g, d, p, c, o, w)
<1> DEFINE s == Scanned(d, f)
           t == Scanned(d, g)
           l == f.raw
           k == f.at
           n == Len(l)
           e == Seen(s, SubSeq(l, k, n))
<1> HIDE DEF s, t, l, k, n, e
<1>1. /\ s \in State /\ l \in Text /\ k \in 1 .. n /\ n = Len(l)
      /\ n \in Nat /\ k \in Nat /\ Good(f)
  <2>1. Good(f) /\ k \in 1 .. n
    BY DEF Here, l, k, n
  <2>2. l \in Text
    BY <2>1, Calls DEF Good, l
  <2>3. s \in State
    BY <2>1, ScannedState DEF s
  <2>4. n \in Nat
    BY <2>2 DEF n, Text
  <2> QED
    BY <2>1, <2>2, <2>3, <2>4 DEF n
<1>2. f.todo = <<>> /\ p = <<>> /\ Stands(e, c, o, w)
  <2>1. f.at # 0
    BY <1>1 DEF k
  <2>2. InLine(f, d, p, c, o, w)
    BY <2>1 DEF Outer, LineDue, AtEnd, InCommand, InText, AtRest
  <2> QED
    BY <2>2 DEF InLine, e, s, l, k, n
<1>3. CASE Advances(d, f, g)
  <2>1. g.todo = <<>> /\ g.raw = l /\ g.at = k + 1 /\ t = See(s, l[k])
    BY <1>2, <1>3 DEF Advances, s, t, l, k
  <2>2. Seen(t, SubSeq(l, k + 1, n)) = e
    BY <1>1, <2>1, SeenFirst DEF e
  <2>3. k + 1 \in 1 .. n + 1
    BY <1>1
  <2>4. InLine(g, d, p, c, o, w)
    BY <1>1, <1>2, <2>1, <2>2, <2>3 DEF InLine, t
  <2> QED
    BY <2>4 DEF Outer
<1>4. CASE Skips(d, f, g)
  <2> DEFINE u == [s EXCEPT !.ctx = "line"]
             r == SubSeq(l, k + 1, n)
  <2>1. /\ g.todo = <<>> /\ g.raw = l /\ g.at = n + 1 /\ t = s
        /\ s.ctx = "code" /\ See(s, l[k]) = u
    BY <1>1, <1>2, <1>4 DEF Skips, s, t, l, k
  <2>2. u \in State /\ u.ctx = "line" /\ u.done = s.done /\ u.stmt = s.stmt
    BY <1>1 DEF State, Place
  <2>3. r \in Text
    <3>1. k + 1 \in 1 .. n + 1 /\ n \in 0 .. n
      BY <1>1
    <3> QED
      BY <1>1, <3>1, Between
  <2> HIDE DEF u, r
  <2>4. e = u
    <3>1. e = Seen(u, r)
      BY <1>1, <2>1, SeenFirst DEF e, r
    <3> QED
      BY <2>2, <2>3, <3>1, SeenKeeps
  <2>5. SubSeq(l, n + 1, n) = <<>>
    BY <1>1, SubSeqEmpty
  <2>6. Seen(t, SubSeq(l, n + 1, n)) = s
    BY <1>1, <2>1, <2>5, SeenSteps
  <2>7. Stands(s, c, o, w)
    <3>1. s.ctx \notin Quotes
      BY <2>1 DEF Quotes
    <3> QED
      BY <1>2, <2>1, <2>2, <2>4, <3>1 DEF Stands
  <2>8. n + 1 \in 1 .. n + 1
    BY <1>1
  <2>9. InLine(g, d, p, c, o, w)
    BY <1>1, <1>2, <2>1, <2>6, <2>7, <2>8 DEF InLine, t
  <2> QED
    BY <2>9 DEF Outer
<1> QED
  BY <1>3, <1>4

(* Between two lines, with nothing more written, all has been seen.        *)
LEMMA RestStands ==
  ASSUME NEW d \in Seq(Text), NEW g, Good(g), AtRest(g), g.todo = <<>>,
         NEW c, NEW o, NEW w, Stands(Scanned(d, g), c, o, w)
  PROVE  Outer(g, d, <<>>, c, o, w)
<1> DEFINE s == Scanned(d, g)
           none == <<>>
<1>1. s \in State /\ (s.ctx = "code" \/ s.ctx = "block")
  <2>1. Coding(g) \/ Commented(g)
    BY CodingState DEF AtRest, Quoted
  <2> QED
    BY <2>1, ScannedState, CodingState
<1>2. CASE c = "eof"
  <2>1. AtEnd(g, d, <<>>, c, o, w)
    BY <1>2 DEF AtEnd
  <2> QED
    BY <2>1 DEF Outer
<1>3. CASE c # "eof"
  <2>1. Seen(s, none) = s
    BY <1>1, SeenSteps
  <2> HIDE DEF s, none
  <2>2. /\ c \in {"code", "block"} /\ w = s.done /\ o = s.stmt
        /\ c = "block" <=> s.ctx = "block"
    BY <1>3 DEF Stands, s
  <2>3. SeenAs(s, c, o, w)
    BY <1>1, <2>2 DEF SeenAs
  <2>4. InText(g, d, none, c, o, w)
    BY <2>1, <2>3 DEF InText, Ordinary, s, none
  <2> QED
    BY <2>4 DEF Outer, none
<1> QED
  BY <1>2, <1>3

(* What a call between two lines has seen.                                 *)
LEMMA RestScanned ==
  ASSUME NEW d \in Seq(Text), NEW f, Good(f), AtRest(f)
  PROVE  /\ f \in Call /\ f.stmt \in Text /\ NoBlanks(f.stmt) \in Text
         /\ Scanned(d, f).stmt = NoBlanks(f.stmt) /\ Solid(f.stmt)
         /\ f.quote = "" /\ f.buf = <<>>
<1>1. /\ f \in Call /\ f.stmt \in Text /\ f.quote = "" /\ f.buf = <<>>
      /\ Solid(f.stmt)
  BY Calls DEF Good, AtRest
<1>2. NoBlanks(f.stmt) \in Text
  BY <1>1, NoBlanksSteps
<1>3. NoBlanks(f.stmt) \o NoBlanks(f.buf) = NoBlanks(f.stmt)
  <2> DEFINE n == NoBlanks(f.stmt)
  <2>1. n \in Text /\ NoBlanks(f.buf) = <<>>
    BY <1>1, <1>2, NoBlanksSteps
  <2> HIDE DEF n
  <2>2. n \o <<>> = n
    BY <2>1, ConcatEmptySeq DEF Text
  <2> QED
    BY <2>1, <2>2 DEF n
<1> QED
  BY <1>1, <1>2, <1>3, ScannedState

(* The next line is one to scan.                                           *)
LEMMA LineOuter ==
  ASSUME NEW d \in Seq(Text), NEW f, Good(f), NEW p, NEW c, NEW o, NEW w,
         NEW l \in Text, AtRest(f), f.todo = <<l>>, p = <<>>,
         Stands(Seen(Scanned(d, f), l), c, o, w),
         NEW g, g = [f EXCEPT !.todo = <<>>, !.raw = l, !.at = 1,
                              !.quote = "", !.buf = <<>>]
  PROVE  Good(g) /\ Outer(g, d, p, c, o, w)
<1>1. /\ f \in Call /\ f.quote = "" /\ f.buf = <<>>
      /\ f.quote \in {""} \cup Quotes /\ (f.quote # "" => ~f.blk)
  BY DEF Good, AtRest
<1>2. <<>> \in Text /\ <<>> \in Seq(Text)
  BY DEF Text
<1>3. "" \in Token
  BY DEF Token
<1>4. /\ g \in Call /\ g.todo = <<>> /\ g.raw = l /\ g.at = 1
      /\ g.quote = f.quote /\ g.buf = f.buf /\ g.stmt = f.stmt
      /\ g.exec = f.exec /\ g.blk = f.blk
  BY <1>1, <1>2, <1>3 DEF Call
<1>5. Good(g)
  <2>1. Solid(f.stmt)
    BY DEF Good
  <2> QED
    BY <1>1, <1>4, <2>1 DEF Good
<1>6. Scanned(d, g) = Scanned(d, f)
  BY <1>4 DEF Scanned
<1>7. SubSeq(l, 1, Len(l)) = l /\ 1 \in 1 .. Len(l) + 1
  BY SubSeqFull DEF Text
<1>8. InLine(g, d, p, c, o, w)
  BY <1>4, <1>6, <1>7 DEF InLine
<1> QED
  BY <1>5, <1>8 DEF Outer

(* The next line is a source command.                                      *)
SourceOf(l) == <<"source", Blank>> \o ArgOf(Trim(l))

(* The command that a source line makes.                                   *)
LEMMA SourceText ==
  ASSUME NEW l \in Text, IsSource(Trim(l))
  PROVE  SourceOf(l) \in Text /\ NoBlanks(SourceOf(l)) \in Text
<1>1. Trim(l) \in Text /\ Trim(l) # <<>>
  BY TrimText DEF IsSource
<1>2. ArgOf(Trim(l)) \in Text
  BY <1>1, ArgText
<1>3. <<"source", Blank>> \in Text
  <2>1. "source" \in Token /\ Blank \in Token
    BY BlankIsToken DEF Token
  <2>2. \A x, y \in Token : <<x, y>> \in Seq(Token)
    OBVIOUS
  <2> QED
    BY <2>1, <2>2 DEF Text
<1>4. SourceOf(l) \in Text
  BY <1>2, <1>3, Together DEF Text, SourceOf
<1> QED
  BY <1>4, NoBlanksSteps

(* It follows the statement in progress, which it ends.                    *)
LEMMA SourcedState ==
  ASSUME NEW s \in State, NEW l \in Text, IsSource(Trim(l))
  PROVE  /\ Sourced(s, l) \in State
         /\ Sourced(s, l).done
              = Append(Closed(s.done, s.stmt), NoBlanks(SourceOf(l)))
         /\ Sourced(s, l).stmt = <<>> /\ Sourced(s, l).ctx = "code"
         /\ IsPrefix(s.done, Sourced(s, l).done)
<1> DEFINE n == NoBlanks(SourceOf(l))
           q == Closed(s.done, s.stmt)
           r == Append(q, n)
<1>1. n \in Text
  BY SourceText
<1>2. s.done \in Seq(Text) /\ s.stmt \in Text
  BY StateIs
<1>3. q \in Seq(Text) /\ IsPrefix(s.done, q)
  BY <1>2, ClosedText
<1>4. Sourced(s, l) = [done |-> r, stmt |-> <<>>, ctx |-> "code"]
  BY DEF Sourced, SourceOf
<1> HIDE DEF n, q
<1>5. r \in Seq(Text) /\ IsPrefix(q, r)
  <2>1. r = q \o <<n>> /\ <<n>> \in Seq(Text) /\ r \in Seq(Text)
    BY <1>1, <1>3, AppendIsConcat
  <2> QED
    BY <1>3, <2>1, PrefixOfParts
<1>6. IsPrefix(s.done, r)
  <2> DEFINE a == s.done
  <2>1. a \in Seq(Text) /\ IsPrefix(a, q)
    BY <1>2, <1>3
  <2> HIDE DEF a, r
  <2>2. IsPrefix(a, r)
    BY <1>3, <1>5, <2>1, PrefixOfPrefix
  <2> QED
    BY <2>2 DEF a
<1>7. <<>> \in Text
  BY DEF Text
<1> DEFINE t == Sourced(s, l)
<1> HIDE DEF r, t
<1>8. t \in State /\ t.done = r /\ t.stmt = <<>> /\ t.ctx = "code"
  <2>1. t = [done |-> r, stmt |-> <<>>, ctx |-> "code"]
    BY <1>4 DEF t
  <2>2. "code" \in Place
    BY DEF Place
  <2> QED
    BY <1>5, <1>7, <2>1, <2>2 DEF State
<1> QED
  BY <1>6, <1>8 DEF t, r, q, n

(* A list of one text.                                                     *)
LEMMA OneText ==
  ASSUME NEW x \in Text
  PROVE  <<x>> \in Seq(Text)
OBVIOUS

(* Nothing twice is nothing.                                               *)
LEMMA NoneTwice == NoBlanks(<<>>) = <<>> /\ <<>> \o <<>> = <<>>
<1>1. <<>> \in Text
  BY DEF Text
<1> QED
  BY <1>1, NoBlanksSteps, ConcatEmptySeq DEF Text

(* The statement before a source line and the line are executed.           *)
LEMMA SourceOuter ==
  ASSUME NEW d \in Seq(Text), NEW f, Good(f), NEW c, NEW o, NEW w,
         NEW l \in Text, AtRest(f), Free(f), Coding(f), IsSource(Trim(l)),
         Stands(Sourced(Scanned(d, f), l), c, o, w),
         NEW g, g \in {[f EXCEPT !.todo = <<>>, !.stmt = <<>>,
                              !.exec = Pending(f.stmt) \o <<SourceOf(l)>>]}
  PROVE  Good(g) /\ Outer(g, d, <<>>, c, o, w)
<1> DEFINE s == Scanned(d, f)
           a == Pending(f.stmt)
           b == SourceOf(l)
           n == NoBlanks(b)
           m == NoBlanks(f.stmt)
<1>1. /\ f \in Call /\ f.quote = "" /\ f.buf = <<>> /\ f.stmt \in Text
      /\ s.stmt = m /\ m \in Text /\ Solid(f.stmt)
  BY RestScanned
<1>2. s.done = d
  BY ScannedState DEF Free
<1>3. b \in Text /\ n \in Text
  BY SourceText
<1>4. a \in Seq(Text)
  BY <1>1, Joins, BlankIsToken
<1>5. <<>> \in Text /\ <<>> \in Seq(Text) /\ ~f.blk /\ f.at = 0
  <2>1. <<>> \in Text /\ <<>> \in Seq(Text)
    BY DEF Text
  <2>2. ~f.blk /\ f.at = 0
    BY DEF Coding, AtRest
  <2> QED
    BY <2>1, <2>2
<1> HIDE DEF s, a, b, n, m
<1>6. <<b>> \in Seq(Text) /\ a \o <<b>> \in Seq(Text)
  BY <1>3, <1>4
<1>7. /\ g \in Call /\ g.todo = <<>> /\ g.stmt = <<>> /\ g.at = 0
      /\ g.quote = "" /\ g.buf = <<>> /\ g.blk = f.blk
      /\ g.exec = a \o <<b>>
  BY <1>1, <1>5, <1>6 DEF Call, a, b
<1>8. Good(g) /\ AtRest(g) /\ Coding(g)
  BY <1>5, <1>7 DEF Good, Solid, AtRest, Coding
<1>9. d \o Stripped(a \o <<b>>) = Append(Closed(d, m), n)
  <2>1. Stripped(a \o <<b>>) = Stripped(a) \o Stripped(<<b>>)
    BY <1>4, <1>6, StrippedParts
  <2>2. Stripped(a) = Pending(m) /\ Stripped(<<b>>) = <<n>>
    BY <1>1, <1>3, StrippedFew DEF a, m, n
  <2>3. Pending(m) \in Seq(Text) /\ <<n>> \in Seq(Text)
    <3>1. m \in Text /\ n \in Text
      BY <1>1, <1>3
    <3> QED
      BY <3>1, OneText, Joins, BlankIsToken
  <2> DEFINE x == Pending(m)
             y == <<n>>
  <2>4. Closed(d, m) = d \o x /\ Closed(d, m) \in Seq(Text)
    BY <1>1, ClosedText
  <2>5. Append(Closed(d, m), n) = Closed(d, m) \o y
    BY <1>3, <2>4, AppendIsConcat
  <2> HIDE DEF x, y
  <2>6. (d \o x) \o y = d \o (x \o y)
    BY <2>3, ConcatAssociative DEF x, y
  <2> QED
    BY <2>1, <2>2, <2>4, <2>5, <2>6 DEF x, y
<1>10. Scanned(d, g) = Sourced(s, l)
  <2> DEFINE t == Scanned(d, g)
             u == Sourced(s, l)
  <2>1. t \in State /\ t.done = d \o Stripped(g.exec) /\ t.ctx = "code"
    BY <1>8, ScannedState, CodingState
  <2>2. t.stmt = <<>>
    <3>1. t.stmt = NoBlanks(g.stmt)
      BY <1>8, RestScanned
    <3> QED
      BY <1>7, <3>1, NoneTwice
  <2>3. s \in State
    BY ScannedState DEF s
  <2>4. /\ u \in State /\ u.done = Append(Closed(s.done, s.stmt), n)
        /\ u.stmt = <<>> /\ u.ctx = "code"
    BY <2>3, SourcedState DEF n, b
  <2> HIDE DEF t, u
  <2>5. t.done = u.done
    BY <1>1, <1>2, <1>7, <1>9, <2>1, <2>4
  <2>6. t.stmt = u.stmt /\ t.ctx = u.ctx
    BY <2>1, <2>2, <2>4
  <2>7. t = u
    BY <2>1, <2>4, <2>5, <2>6, StateIs
  <2> QED
    BY <2>7 DEF t, u
<1>11. Stands(Scanned(d, g), c, o, w)
  BY <1>10 DEF s
<1> QED
  BY <1>7, <1>8, <1>11, RestStands

LineOver(f)   == f.at = Len(f.raw) + 1
LineLeft(f)   == [f EXCEPT !.stmt = WithText(f), !.buf = <<>>,
                           !.raw = <<>>, !.at = 0]
Unfinished(f) == f.stmt # <<>>
LastTaken(f)  == [f EXCEPT !.exec = <<f.stmt>>, !.stmt = <<>>]

(* At the end of a line what remains of it goes on with the next.          *)
LEMMA EndLineOuter ==
  ASSUME NEW d \in Seq(Text), NEW f, Good(f), NEW p, NEW c, NEW o, NEW w,
         InLine(f, d, p, c, o, w), LineOver(f),
         NEW g, g = LineLeft(f)
  PROVE  Good(g) /\ Outer(g, d, p, c, o, w)
<1> DEFINE s == Scanned(d, f)
           l == f.raw
           x == WithText(f)
<1>1. /\ f \in Call /\ f.quote \in {""} \cup Quotes
      /\ f.quote # "" => ~f.blk
  BY DEF Good
<1>2. s \in State /\ l \in Text
  BY <1>1, ScannedState, Calls
<1>3. p = <<>> /\ f.todo = <<>> /\ Stands(s, c, o, w)
  <2>1. /\ p = <<>> /\ f.todo = <<>>
        /\ Stands(Seen(s, SubSeq(l, Len(l) + 1, Len(l))), c, o, w)
    BY DEF InLine, LineOver
  <2> HIDE DEF s, l
  <2>2. SubSeq(l, Len(l) + 1, Len(l)) = <<>>
    BY <1>2, SubSeqEmpty DEF Text
  <2>3. Seen(s, <<>>) = s
    BY <1>2, SeenSteps
  <2> QED
    BY <2>1, <2>2, <2>3
<1>4. f.quote = ""
  <2>1. ~Quoted(f)
    BY <1>3, CodingState DEF Stands
  <2> QED
    BY <2>1 DEF Quoted
<1>5. /\ x \in Text /\ Solid(x)
      /\ NoBlanks(x) = NoBlanks(f.stmt) \o NoBlanks(f.buf)
  <2>1. Solid(f.stmt)
    BY DEF Good
  <2> QED
    BY <1>1, <2>1, WithTextText, Flushed
<1>6. <<>> \in Text
  BY DEF Text
<1> HIDE DEF s, l, x
<1>7. /\ g \in Call /\ g.todo = <<>> /\ g.stmt = x /\ g.at = 0
      /\ g.quote = f.quote /\ g.buf = <<>> /\ g.blk = f.blk
      /\ g.exec = f.exec
  <2>1. f.todo = <<>>
    BY <1>3
  <2>3. x \in Text
    BY <1>5
  <2>4. f \in Call /\ 0 \in Nat
    BY <1>1
  <2>5. g = [f EXCEPT !.stmt = x, !.buf = <<>>, !.raw = <<>>, !.at = 0]
    BY DEF LineLeft, x
  <2>6. g \in Call
    BY <1>6, <2>3, <2>4, <2>5 DEF Call
  <2> QED
    BY <2>1, <2>4, <2>5, <2>6 DEF Call
<1>8. Good(g) /\ AtRest(g)
  BY <1>1, <1>4, <1>5, <1>7 DEF Good, AtRest
<1>9. Scanned(d, g) = s
  <2> DEFINE t == Scanned(d, g)
  <2>1. t \in State /\ t.done = s.done /\ t.ctx = s.ctx
    <3>1. /\ t \in State /\ t.done = d \o Stripped(g.exec)
          /\ t.ctx = IF g.quote # "" THEN g.quote
                     ELSE IF g.blk THEN "block" ELSE "code"
      BY <1>8, ScannedState
    <3>2. /\ s.done = d \o Stripped(f.exec)
          /\ s.ctx = IF f.quote # "" THEN f.quote
                     ELSE IF f.blk THEN "block" ELSE "code"
      BY ScannedState DEF s
    <3> HIDE DEF t
    <3> QED
      BY <1>7, <3>1, <3>2
  <2>2. t.stmt = s.stmt
    <3>1. t.stmt = NoBlanks(g.stmt)
      BY <1>8, RestScanned
    <3>2. s.stmt = NoBlanks(f.stmt) \o NoBlanks(f.buf)
      BY ScannedState DEF s
    <3> HIDE DEF t
    <3> QED
      BY <1>5, <1>7, <3>1, <3>2
  <2> HIDE DEF t
  <2>3. t = s
    BY <1>2, <2>1, <2>2, StateIs
  <2> QED
    BY <2>3 DEF t
<1>10. Stands(Scanned(d, g), c, o, w)
  BY <1>3, <1>9
<1> QED
  BY <1>3, <1>7, <1>8, <1>10, RestStands

(* At the end of the input the statement in progress is executed.          *)
LEMMA LastOuter ==
  ASSUME NEW d \in Seq(Text), NEW f, Good(f), NEW p, NEW c, NEW o, NEW w,
         AtEnd(f, d, p, c, o, w), Free(f), Unfinished(f),
         NEW g, g = LastTaken(f)
  PROVE  Good(g) /\ Outer(g, d, p, c, o, w)
<1> DEFINE s == Scanned(d, f)
           m == NoBlanks(f.stmt)
<1>1. /\ f.todo = <<>> /\ c = "eof" /\ p = <<>> /\ Stands(s, c, o, w)
      /\ AtRest(f)
  BY DEF AtEnd
<1>2. /\ f \in Call /\ f.quote = "" /\ f.buf = <<>> /\ f.stmt \in Text
      /\ s.stmt = m /\ m \in Text /\ Solid(f.stmt)
  BY <1>1, RestScanned
<1>3. s.done = d /\ s \in State
  BY ScannedState DEF Free
<1>4. m # <<>> /\ f.at = 0
  BY <1>1, <1>2 DEF Solid, AtRest, Unfinished
<1> HIDE DEF s, m
<1>5. <<>> \in Text /\ <<f.stmt>> \in Seq(Text)
  <2>1. <<>> \in Text
    BY DEF Text
  <2> QED
    BY <1>2, <2>1, OneText
<1>6. /\ g \in Call /\ g.todo = <<>> /\ g.stmt = <<>> /\ g.at = 0
      /\ g.quote = "" /\ g.buf = <<>> /\ g.blk = f.blk
      /\ g.exec = <<f.stmt>>
  BY <1>1, <1>2, <1>4, <1>5 DEF Call, LastTaken
<1>7. Good(g) /\ AtRest(g)
  BY <1>6 DEF Good, Solid, AtRest
<1> DEFINE t == Scanned(d, g)
<1>8. t \in State /\ t.done = Append(d, m) /\ t.stmt = <<>> /\ t.ctx = s.ctx
  <2>1. t \in State /\ t.done = d \o Stripped(g.exec) /\ t.ctx = s.ctx
    <3>1. /\ t \in State /\ t.done = d \o Stripped(g.exec)
          /\ t.ctx = IF g.quote # "" THEN g.quote
                     ELSE IF g.blk THEN "block" ELSE "code"
      BY <1>7, ScannedState
    <3>2. s.ctx = IF f.quote # "" THEN f.quote
                  ELSE IF f.blk THEN "block" ELSE "code"
      BY ScannedState DEF s
    <3> HIDE DEF t
    <3> QED
      BY <1>2, <1>6, <3>1, <3>2
  <2>2. t.stmt = <<>>
    <3>1. t.stmt = NoBlanks(g.stmt)
      BY <1>7, RestScanned
    <3> QED
      BY <1>6, <3>1, NoneTwice
  <2>3. Stripped(<<f.stmt>>) = <<m>>
    BY <1>2, StrippedFew DEF m
  <2>4. Append(d, m) = d \o <<m>>
    BY <1>2, AppendIsConcat
  <2> QED
    BY <1>6, <2>1, <2>2, <2>3, <2>4
<1> HIDE DEF t
<1>9. Stands(t, c, o, w)
  <2>1. s.ctx \notin Quotes /\ w = Closed(s.done, s.stmt) /\ o = <<>>
    BY <1>1 DEF Stands
  <2>2. Closed(s.done, s.stmt) = Append(d, m)
    BY <1>2, <1>3, <1>4 DEF Closed
  <2>3. Closed(t.done, t.stmt) = Append(d, m)
    BY <1>8 DEF Closed
  <2> QED
    BY <1>1, <1>8, <2>1, <2>2, <2>3 DEF Stands
<1> QED
  BY <1>1, <1>6, <1>7, <1>9, RestStands DEF t

-----------------------------------------------------------------------------
(* A script on the standard input: what its outermost call is about to run *)
(* and what it still has to see is what is written, beyond what was run.   *)
Stage(f) == Good(f) /\ Outer(f, ran, pend, ctx, open, written)

ScriptInv ==
  mode = "file" =>
    /\ ran \in Seq(Text) /\ queue = <<>>
    /\ \/ pc = "done" /\ frames = <<>> /\ ran = written
       \/ pc = "run" /\ depth > 0 /\ Stage(frames[1])

(* A step that leaves the outermost call at a stage.                       *)
LEMMA StageKept ==
  ASSUME mode = "file", pc = "run", ScriptInv, UNCHANGED <<mode, pc, queue>>,
         depth' > 0, NEW g, frames'[1] = g, Good(g), ran' \in Seq(Text),
         Outer(g, ran', pend', ctx', open', written')
  PROVE  ScriptInv'
<1>1. queue = <<>>
  BY DEF ScriptInv
<1> QED
  BY <1>1 DEF ScriptInv, Stage

(* The outermost call of several is as it was.                             *)
LEMMA StageBelow ==
  ASSUME mode = "file", pc = "run", ScriptInv,
         UNCHANGED <<mode, pc, queue, ran, author>>,
         depth > 0, depth' > 0, frames'[1] = frames[1]
  PROVE  ScriptInv'
<1>1. ran \in Seq(Text) /\ Stage(frames[1])
  BY DEF ScriptInv
<1>2. /\ Good(frames[1]) /\ ran' \in Seq(Text)
      /\ Outer(frames[1], ran', pend', ctx', open', written')
  BY <1>1 DEF Stage, author
<1> QED
  BY <1>2, StageKept

(* The calls when the innermost becomes another.                           *)
LEMMA InnermostIs ==
  ASSUME frames \in Seq(Call), depth > 0, NEW g \in Call, Becomes(g)
  PROVE  /\ depth' = depth
         /\ depth = 1 => Top = frames[1] /\ frames'[1] = g
         /\ depth # 1 => frames'[1] = frames[1]
<1>1. /\ frames' = [frames EXCEPT ![depth] = g]
      /\ depth \in Nat /\ depth = Len(frames) /\ depth \in 1 .. Len(frames)
      /\ 1 \in 1 .. Len(frames)
  BY DEF Becomes, depth
<1>2. /\ frames' \in Seq(Call) /\ Len(frames') = Len(frames)
      /\ \A k \in 1 .. Len(frames) :
           frames'[k] = IF k = depth THEN g ELSE frames[k]
  BY <1>1, ExceptSeq
<1> QED
  BY <1>1, <1>2 DEF depth, Top

(* What a script in progress stands at.                                    *)
LEMMA StageIs ==
  ASSUME InputTyped, ScriptInv, mode = "file", depth > 0
  PROVE  /\ pc = "run" /\ queue = <<>> /\ ran \in Seq(Text) /\ pend \in Text
         /\ frames \in Seq(Call) /\ frames[1] \in Call /\ Good(frames[1])
         /\ Outer(frames[1], ran, pend, ctx, open, written)
<1>1. frames # <<>>
  <2>1. Len(<<>>) = 0
    OBVIOUS
  <2> QED
    BY <2>1 DEF depth
<1>2. frames \in Seq(Call) /\ pend \in Text
  BY DEF InputTyped
<1>3. ran \in Seq(Text) /\ queue = <<>> /\ pc = "run" /\ Stage(frames[1])
  BY <1>1 DEF ScriptInv
<1> QED
  BY <1>2, <1>3 DEF Stage, Good

(* A step within the innermost script.                                     *)
LEMMA StageStep ==
  ASSUME InputTyped, ScriptInv, mode = "file", depth > 0,
         NEW g \in Call, Becomes(g),
         depth = 1 => Good(g) /\ Outer(g, ran, pend, ctx, open, written)
  PROVE  ScriptInv'
<1>1. /\ pc = "run" /\ ran \in Seq(Text) /\ frames \in Seq(Call)
  BY StageIs
<1>2. UNCHANGED <<mode, pc, queue, ran, author>>
  BY DEF Becomes, InScript, prompt
<1>3. depth' > 0
  BY <1>1, InnermostIs
<1>4. CASE depth = 1
  <2>1. frames'[1] = g /\ ran' \in Seq(Text)
    BY <1>1, <1>2, <1>4, InnermostIs
  <2>2. Good(g) /\ Outer(g, ran', pend', ctx', open', written')
    BY <1>2, <1>4 DEF author
  <2> QED
    BY <1>1, <1>2, <1>3, <2>1, <2>2, StageKept
<1>5. CASE depth # 1
  <2>1. frames'[1] = frames[1]
    BY <1>1, <1>5, InnermostIs
  <2> QED
    BY <1>1, <1>2, <1>3, <2>1, StageBelow
<1> QED
  BY <1>4, <1>5

(* The scan of a line.                                                     *)
LEMMA ScanKeepsScript ==
  ASSUME InputTyped, ScriptInv, mode = "file", Scanning
  PROVE  ScriptInv'
<1>1. depth > 0
  BY DEF Scanning, InQuote, InBlock, OpenQuote, OpenBlock, LineComment,
         Terminator, Plain, InCode, Scans
<1>2. /\ ran \in Seq(Text) /\ Good(frames[1]) /\ frames \in Seq(Call)
      /\ Outer(frames[1], ran, pend, ctx, open, written)
  BY <1>1, StageIs
<1>3. CASE depth = 1
  <2>1. Top = frames[1]
    BY <1>3 DEF Top
  <2>2. PICK g : /\ Becomes(g) /\ Here(Top)
                 /\ Advances(ran, Top, g) \/ Skips(ran, Top, g)
    BY <1>1, <1>2, <2>1, ScanSees
  <2>3. Outer(g, ran, pend, ctx, open, written)
    <3> DEFINE f == Top
               d == ran
               p == pend
               c == ctx
               o == open
               w == written
    <3>1. d \in Seq(Text) /\ Outer(f, d, p, c, o, w) /\ Here(f)
      BY <1>2, <2>1, <2>2
    <3>2. Advances(d, f, g) \/ Skips(d, f, g)
      BY <2>2
    <3> HIDE DEF f, d, p, c, o, w
    <3>3. Outer(g, d, p, c, o, w)
      BY <3>1, <3>2, ScanOuter
    <3> QED
      BY <3>3 DEF d, p, c, o, w
  <2>4. Good(g) /\ g \in Call
    BY <2>2 DEF Advances, Skips, Good
  <2> QED
    BY <1>1, <2>2, <2>3, <2>4, StageStep
<1>4. CASE depth # 1
  <2>1. PICK g : Same(g)
    BY ScanStep
  <2> QED
    BY <1>1, <1>4, <2>1, StageStep DEF Same
<1> QED
  BY <1>3, <1>4

(* A call between two lines stands before a line or writes one.            *)
LEMMA RestCases ==
  ASSUME NEW f, NEW d, NEW p, NEW c, NEW o, NEW w,
         Outer(f, d, p, c, o, w), f.at \in {0}
  PROVE  \/ LineDue(f, d, p, c, o, w) \/ AtEnd(f, d, p, c, o, w)
         \/ InCommand(f, d, p, c, o, w) \/ InText(f, d, p, c, o, w)
  BY DEF Outer, InLine

(* The line that is due is taken.                                          *)
LEMMA TakesLine ==
  ASSUME NEW d \in Seq(Text), NEW f, Good(f), NEW p, NEW c, NEW o, NEW w,
         Outer(f, d, p, c, o, w), Free(f), f.at \in {0},
         f.todo \notin {<<>>},
         NEW r, r \in {[f EXCEPT !.todo = Tail(@)]},
         NEW g, IF ~r.blk /\ IsSource(Trim(Head(f.todo)))
                THEN g = [r EXCEPT
                       !.exec = Pending(r.stmt) \o
                         <<<<"source", Blank>> \o ArgOf(Trim(Head(f.todo)))>>,
                       !.stmt = <<>>]
                ELSE g = [r EXCEPT !.raw = Head(f.todo), !.at = 1,
                                   !.quote = "", !.buf = <<>>]
  PROVE  Good(g) /\ Outer(g, d, p, c, o, w)
<1>1. LineDue(f, d, p, c, o, w)
  BY RestCases DEF AtEnd, InCommand, InText
<1>2. AtRest(f) /\ p = <<>>
  BY <1>1 DEF LineDue
<1>3. PICK l \in Text :
        f.todo = <<l>> /\ Stands(Line(Scanned(d, f), l), c, o, w)
  BY <1>1 DEF LineDue
<1>4. Head(f.todo) = l /\ Tail(f.todo) = <<>>
  BY <1>3
<1>5. f \in Call
  BY DEF Good
<1> DEFINE s == Scanned(d, f)
<1>6. Coding(f) <=> s.ctx = "code"
  BY CodingState
<1>7. Coding(f) <=> ~f.blk
  BY <1>2 DEF Coding, AtRest
<1>8. r = [f EXCEPT !.todo = <<>>] /\ r.blk = f.blk /\ r.stmt = f.stmt
  BY <1>4, <1>5 DEF Call
<1>9. CASE Coding(f) /\ IsSource(Trim(l))
  <2>1. g = [r EXCEPT !.exec = Pending(r.stmt) \o <<SourceOf(l)>>,
                      !.stmt = <<>>]
    BY <1>4, <1>7, <1>8, <1>9 DEF SourceOf
  <2>2. g = [f EXCEPT !.todo = <<>>, !.stmt = <<>>,
                      !.exec = Pending(f.stmt) \o <<SourceOf(l)>>]
    BY <1>5, <1>8, <2>1 DEF Call
  <2>3. Stands(Sourced(s, l), c, o, w)
    BY <1>3, <1>6, <1>9 DEF Line
  <2>4. Good(g) /\ Outer(g, d, <<>>, c, o, w)
    <3> HIDE <2>1
    <3> QED
      BY <1>2, <1>9, <2>2, <2>3, SourceOuter
  <2> QED
    BY <1>2, <2>4
<1>10. CASE ~(Coding(f) /\ IsSource(Trim(l)))
  <2>1. g = [r EXCEPT !.raw = l, !.at = 1, !.quote = "", !.buf = <<>>]
    BY <1>4, <1>7, <1>8, <1>10
  <2>2. g = [f EXCEPT !.todo = <<>>, !.raw = l, !.at = 1,
                      !.quote = "", !.buf = <<>>]
    BY <1>5, <1>8, <2>1 DEF Call
  <2>3. Stands(Seen(s, l), c, o, w)
    BY <1>3, <1>6, <1>10 DEF Line
  <2> QED
    BY <1>2, <1>3, <2>2, <2>3, LineOuter
<1> QED
  BY <1>9, <1>10

(* The next line of the script is taken.                                   *)
LEMMA NextLineKeepsScript ==
  ASSUME InputTyped, ScriptInv, mode = "file", NextLine
  PROVE  ScriptInv'
<1>1. /\ depth > 0 /\ Top.exec = <<>> /\ Top.at = 0 /\ Top.todo # <<>>
  BY DEF NextLine, Idle
<1>2. /\ ran \in Seq(Text) /\ Good(frames[1]) /\ frames \in Seq(Call)
      /\ Outer(frames[1], ran, pend, ctx, open, written)
  BY <1>1, StageIs
<1>3. CASE depth = 1
  <2> DEFINE f == Top
             d == ran
             p == pend
             c == ctx
             o == open
             w == written
             r == [f EXCEPT !.todo = Tail(@)]
             x == Head(f.todo)
             u == [r EXCEPT !.exec = Pending(r.stmt) \o
                         <<<<"source", Blank>> \o ArgOf(Trim(x))>>,
                            !.stmt = <<>>]
             v == [r EXCEPT !.raw = x, !.at = 1, !.quote = "", !.buf = <<>>]
  <2>1. /\ Good(f) /\ d \in Seq(Text) /\ Outer(f, d, p, c, o, w)
        /\ Free(f) /\ f.at \in {0} /\ f.todo \notin {<<>>}
    BY <1>1, <1>2, <1>3 DEF Top, Free
  <2>2. PICK g : /\ Becomes(g)
                 /\ IF ~r.blk /\ IsSource(Trim(x)) THEN g = u ELSE g = v
    BY DEF NextLine
  <2>3. Good(g) /\ Outer(g, d, p, c, o, w)
    <3> HIDE DEF f, d, p, c, o, w, r
    <3>1. r \in {[f EXCEPT !.todo = Tail(@)]}
      BY DEF r
    <3> QED
      BY <2>1, <2>2, <3>1, TakesLine
  <2>4. g \in Call
    BY <2>3 DEF Good
  <2> QED
    BY <1>1, <2>2, <2>3, <2>4, StageStep
<1>4. CASE depth # 1
  <2>1. PICK g : Same(g)
    BY NextLineStep
  <2> QED
    BY <1>1, <1>4, <2>1, StageStep DEF Same
<1> QED
  BY <1>3, <1>4

(* What remains of a line goes on with the next, and with the end of the   *)
(* input.                                                                  *)
LEMMA EndLineKeepsScript ==
  ASSUME InputTyped, ScriptInv, mode = "file", EndLine \/ LastStatement
  PROVE  ScriptInv'
<1>1. /\ depth > 0 /\ Top.exec = <<>>
      /\ EndLine => Top.at = Len(Top.raw) + 1 /\ Top.at > 0
      /\ LastStatement => /\ Top.at = 0 /\ Top.todo = <<>> /\ Top.stmt # <<>>
                          /\ depth > 1 \/ ctx = "eof"
  BY DEF EndLine, LastStatement, Ended, Idle
<1>2. /\ ran \in Seq(Text) /\ Good(frames[1]) /\ frames \in Seq(Call)
      /\ Outer(frames[1], ran, pend, ctx, open, written)
  BY <1>1, StageIs
<1>3. CASE depth = 1 /\ EndLine
  <2> DEFINE f == Top
             d == ran
             p == pend
             c == ctx
             o == open
             w == written
             g == [f EXCEPT !.stmt = WithText(f), !.buf = <<>>,
                            !.raw = <<>>, !.at = 0]
  <2>1. /\ Good(f) /\ d \in Seq(Text) /\ Outer(f, d, p, c, o, w)
        /\ LineOver(f) /\ f.at \notin {0}
    BY <1>1, <1>2, <1>3 DEF Top, LineOver
  <2>2. Becomes(g)
    BY <1>3 DEF EndLine, NoLine
  <2>3. g = LineLeft(f)
    BY DEF LineLeft
  <2>4. Good(g) /\ Outer(g, d, p, c, o, w)
    <3> HIDE DEF f, d, p, c, o, w, g
    <3>1. InLine(f, d, p, c, o, w)
      BY <2>1 DEF Outer, LineDue, AtEnd, InCommand, InText, AtRest
    <3> QED
      BY <2>1, <2>3, <3>1, EndLineOuter
  <2>5. g \in Call
    BY <2>4 DEF Good
  <2> HIDE DEF g
  <2> QED
    BY <1>1, <2>2, <2>4, <2>5, StageStep
<1>4. CASE depth = 1 /\ LastStatement
  <2> DEFINE f == Top
             d == ran
             p == pend
             c == ctx
             o == open
             w == written
             g == [f EXCEPT !.exec = <<f.stmt>>, !.stmt = <<>>]
  <2>1. /\ Good(f) /\ d \in Seq(Text) /\ Outer(f, d, p, c, o, w)
        /\ Free(f) /\ Unfinished(f) /\ f.at \in {0} /\ f.todo \in {<<>>}
        /\ c = "eof"
    BY <1>1, <1>2, <1>4 DEF Top, Free, Unfinished
  <2>2. Becomes(g)
    BY <1>4 DEF LastStatement
  <2>3. g = LastTaken(f)
    BY DEF LastTaken
  <2>4. Good(g) /\ Outer(g, d, p, c, o, w)
    <3> HIDE DEF f, d, p, c, o, w, g
    <3>1. ~LineDue(f, d, p, c, o, w)
      <4>1. \A l \in Text : <<l>> # <<>>
        OBVIOUS
      <4> QED
        BY <2>1, <4>1 DEF LineDue
    <3>2. ~InCommand(f, d, p, c, o, w)
      BY <2>1 DEF InCommand
    <3>3. ~InText(f, d, p, c, o, w)
      BY <2>1 DEF InText, SeenAs
    <3>4. AtEnd(f, d, p, c, o, w)
      BY <2>1, <3>1, <3>2, <3>3, RestCases
    <3> QED
      BY <2>1, <2>3, <3>4, LastOuter
  <2>5. g \in Call
    BY <2>4 DEF Good
  <2> HIDE DEF g
  <2> QED
    BY <1>1, <2>2, <2>4, <2>5, StageStep
<1>5. CASE depth # 1
  <2>1. PICK g : Same(g)
    BY EndLineStep
  <2> QED
    BY <1>1, <1>5, <2>1, StageStep DEF Same
<1> QED
  BY <1>3, <1>4, <1>5

(* A call that goes on where it is, its statement the same.                *)
LEMMA StageSame ==
  ASSUME NEW f, NEW g, NEW d, NEW p, NEW c, NEW o, NEW w,
         Good(f), Outer(f, d, p, c, o, w), g \in Call,
         SamePlaceAs(f, g), g.stmt = f.stmt, g.exec = f.exec
  PROVE  Good(g) /\ Outer(g, d, p, c, o, w)
<1>1. Good(g)
  BY DEF Good, SamePlaceAs
<1>2. Scanned(d, g) = Scanned(d, f)
  BY DEF Scanned, SamePlaceAs
<1> QED
  BY <1>1, <1>2, OuterSame

(* At the end of the input all that is written has been executed.          *)
LEMMA AllDone ==
  ASSUME NEW d \in Seq(Text), NEW f, Good(f), NEW p, NEW c, NEW o, NEW w,
         Outer(f, d, p, c, o, w), Free(f), f.at \in {0}, f.todo \in {<<>>},
         c = "eof", f.stmt \in {<<>>}
  PROVE  w = d
<1>1. AtEnd(f, d, p, c, o, w)
  <2>1. ~LineDue(f, d, p, c, o, w)
    <3>1. \A l \in Text : <<l>> # <<>>
      OBVIOUS
    <3> QED
      BY <3>1 DEF LineDue
  <2>2. ~InCommand(f, d, p, c, o, w)
    BY DEF InCommand
  <2>3. ~InText(f, d, p, c, o, w)
    BY DEF InText, SeenAs
  <2> QED
    BY <2>1, <2>2, <2>3, RestCases
<1> DEFINE s == Scanned(d, f)
<1>2. AtRest(f) /\ w = Closed(s.done, s.stmt)
  BY <1>1 DEF AtEnd, Stands
<1>3. s.done = d
  BY ScannedState DEF Free
<1>4. s.stmt = NoBlanks(f.stmt)
  BY <1>2, RestScanned
<1>5. NoBlanks(f.stmt) = <<>>
  BY NoneTwice
<1> HIDE DEF s
<1> QED
  BY <1>2, <1>3, <1>4, <1>5 DEF Closed

(* A script comes to its end.                                              *)
LEMMA EndFileKeepsScript ==
  ASSUME InputTyped, ScriptInv, mode = "file", EndFile
  PROVE  ScriptInv'
<1>1. /\ depth > 0 /\ Top.exec = <<>> /\ Top.at = 0 /\ Top.todo = <<>>
      /\ Top.stmt = <<>> /\ (depth > 1 \/ ctx = "eof")
      /\ UNCHANGED <<mode, queue, ran, author>>
  BY DEF EndFile, Ended, Idle, prompt
<1>2. /\ ran \in Seq(Text) /\ Good(frames[1]) /\ frames \in Seq(Call)
      /\ Outer(frames[1], ran, pend, ctx, open, written) /\ pc = "run"
      /\ queue = <<>> /\ depth \in Nat /\ depth = Len(frames)
  BY <1>1, StageIs DEF depth
<1>3. CASE depth = 1
  <2>1. frames' = <<>> /\ pc' = "done"
    BY <1>3 DEF EndFile
  <2>2. written = ran
    <3> DEFINE f == Top
               d == ran
               p == pend
               c == ctx
               o == open
               w == written
    <3>1. /\ Good(f) /\ d \in Seq(Text) /\ Outer(f, d, p, c, o, w)
          /\ Free(f) /\ f.at \in {0} /\ f.todo \in {<<>>}
          /\ c = "eof" /\ f.stmt \in {<<>>}
      BY <1>1, <1>2, <1>3 DEF Top, Free
    <3> HIDE DEF f, d, p, c, o, w
    <3>2. w = d
      BY <3>1, AllDone
    <3> QED
      BY <3>2 DEF d, w
  <2> QED
    BY <1>1, <1>2, <2>1, <2>2 DEF ScriptInv, author
<1>4. CASE depth > 1
  <2> DEFINE n == depth - 1
             fs == SubSeq(frames, 1, n)
             x == Failure(Top.errs)
  <2>1. /\ depth \in Nat /\ depth = Len(frames) /\ n \in 1 .. Len(frames)
        /\ 1 \in 1 .. n /\ depth # 1 /\ depth \in 1 .. Len(frames)
    BY <1>2, <1>4
  <2>2. frames' = [fs EXCEPT ![n].errs = @ + x]
    BY <2>1, Zenon DEF EndFile
  <2>3. pc' = pc
    BY <2>1 DEF EndFile
  <2>4. Top.errs \in Nat
    BY <1>2, <2>1, Calls DEF Top
  <2>5. x \in Nat
    BY <2>4 DEF Failure
  <2>6. /\ fs \in Seq(Call) /\ Len(fs) = n
        /\ \A i \in 1 .. n : fs[i] = frames[i]
    BY <1>2, <2>1
  <2> DEFINE g == [fs[n] EXCEPT !.errs = @ + x]
  <2>7. fs[n] \in Call
    BY <2>1, <2>6
  <2> HIDE DEF x
  <2>8. /\ g \in Call /\ SamePlaceAs(fs[n], g) /\ g.stmt = fs[n].stmt
        /\ g.exec = fs[n].exec
    <3> DEFINE b == fs[n]
    <3>1. b \in Call
      BY <2>7
    <3> HIDE DEF b, fs, n
    <3> SUFFICES /\ [b EXCEPT !.errs = @ + x] \in Call
                 /\ SamePlaceAs(b, [b EXCEPT !.errs = @ + x])
                 /\ [b EXCEPT !.errs = @ + x].stmt = b.stmt
                 /\ [b EXCEPT !.errs = @ + x].exec = b.exec
      BY DEF b
    <3>2. b.errs + x \in Nat
      BY <2>5, <3>1, Calls
    <3> QED
      BY <3>1, <3>2 DEF Call, SamePlaceAs
  <2>9. frames' = [fs EXCEPT ![n] = g]
    BY <2>1, <2>2, <2>6
  <2> HIDE DEF g, fs
  <2>10. /\ frames' \in Seq(Call) /\ Len(frames') = n
         /\ \A i \in 1 .. n : frames'[i] = IF i = n THEN g ELSE fs[i]
    BY <2>1, <2>6, <2>8, <2>9, ExceptSeq
  <2>11. depth' > 0
    BY <2>1, <2>10 DEF depth
  <2>12. CASE n = 1
    <3>1. fs[n] = frames[1] /\ frames'[1] = g
      BY <2>1, <2>6, <2>10, <2>12
    <3> DEFINE f == frames[1]
               d == ran
               p == pend
               c == ctx
               o == open
               w == written
    <3>2. /\ Good(f) /\ Outer(f, d, p, c, o, w) /\ g \in Call
          /\ SamePlaceAs(f, g) /\ g.stmt = f.stmt /\ g.exec = f.exec
      BY <1>2, <2>8, <3>1
    <3> HIDE DEF f, d, p, c, o, w
    <3>3. Good(g) /\ Outer(g, d, p, c, o, w)
      BY <3>2, StageSame
    <3>4. Outer(g, ran', pend', ctx', open', written') /\ ran' \in Seq(Text)
      BY <1>1, <1>2, <3>3 DEF d, p, c, o, w, author
    <3> QED
      BY <1>1, <1>2, <2>3, <2>11, <3>1, <3>3, <3>4, StageKept
  <2>13. CASE n # 1
    <3>1. frames'[1] = frames[1]
      BY <2>1, <2>6, <2>10, <2>13
    <3> QED
      BY <1>1, <1>2, <2>3, <2>11, <3>1, StageBelow
  <2> QED
    BY <2>12, <2>13
<1> QED
  BY <1>1, <1>2, <1>3, <1>4

(* The first of the statements that are due is executed.                   *)
TakenOf(f, n) == [f EXCEPT !.exec = Tail(@), !.errs = @ + n]

(* A call that has executed a statement is a call.                         *)
LEMMA TakenCall ==
  ASSUME NEW f \in Call, ~Free(f), NEW n \in Nat
  PROVE  /\ TakenOf(f, n) \in Call /\ SamePlaceAs(f, TakenOf(f, n))
         /\ TakenOf(f, n).stmt = f.stmt /\ TakenOf(f, n).exec = Tail(f.exec)
<1>1. f.exec \in Seq(Text) /\ f.exec # <<>> /\ f.errs \in Nat
  BY Calls DEF Free
<1>2. Tail(f.exec) \in Seq(Text) /\ f.errs + n \in Nat
  BY <1>1
<1> QED
  BY <1>2 DEF TakenOf, Call, SamePlaceAs

(* The statement executed was the first of those to be executed.           *)
LEMMA TakenOuter ==
  ASSUME NEW d \in Seq(Text), NEW f, Good(f), NEW p, NEW c, NEW o, NEW w,
         Outer(f, d, p, c, o, w), ~Free(f), NEW n \in Nat,
         NEW g, g = TakenOf(f, n), NEW e, e = Append(d, NoBlanks(Head(f.exec)))
  PROVE  Good(g) /\ e \in Seq(Text) /\ Outer(g, e, p, c, o, w)
<1>1. f \in Call
  BY DEF Good
<1>2. /\ g \in Call /\ SamePlaceAs(f, g) /\ g.stmt = f.stmt
      /\ g.exec = Tail(f.exec)
  BY <1>1, TakenCall
<1>3. Good(g)
  BY <1>2 DEF Good, SamePlaceAs
<1>4. f.exec \in Seq(Text) /\ f.exec # <<>>
  BY <1>1, Calls DEF Free
<1>5. e \in Seq(Text) /\ e \o Stripped(Tail(f.exec)) = d \o Stripped(f.exec)
  BY <1>4, StrippedHead
<1>6. Scanned(e, g) = Scanned(d, f)
  BY <1>2, <1>5 DEF Scanned, SamePlaceAs
<1> QED
  BY <1>2, <1>3, <1>5, <1>6, OuterSame

(* The calls after a statement is taken from the innermost, and perhaps    *)
(* another call made.                                                      *)
LEMMA InnermostTakes ==
  ASSUME frames \in Seq(Call), depth > 0, Due # <<>>, NEW n \in Nat,
         NEW h \in Call,
         LET fs == [frames EXCEPT ![depth] = TakenOf(Top, n)]
         IN  frames' = fs \/ frames' = Append(fs, h)
  PROVE  /\ depth' > 0
         /\ depth = 1 => Top = frames[1] /\ frames'[1] = TakenOf(frames[1], n)
         /\ depth # 1 => frames'[1] = frames[1]
<1> DEFINE g == TakenOf(Top, n)
           fs == [frames EXCEPT ![depth] = g]
<1>1. /\ depth \in Nat /\ depth = Len(frames) /\ depth \in 1 .. Len(frames)
      /\ 1 \in 1 .. Len(frames)
  BY DEF depth
<1>2. Top \in Call /\ ~Free(Top)
  BY TopCall DEF Due, Free
<1>3. g \in Call
  BY <1>2, TakenCall
<1>4. frames' = fs \/ frames' = Append(fs, h)
  OBVIOUS
<1> HIDE DEF g
<1>5. /\ fs \in Seq(Call) /\ Len(fs) = Len(frames)
      /\ \A k \in 1 .. Len(frames) :
           fs[k] = IF k = depth THEN g ELSE frames[k]
  BY <1>1, <1>3, ExceptSeq
<1> HIDE DEF fs
<1>6. depth' > 0 /\ frames'[1] = fs[1]
  BY <1>1, <1>4, <1>5 DEF depth
<1>7. depth = 1 => Top = frames[1]
  BY DEF Top
<1> QED
  BY <1>1, <1>5, <1>6, <1>7 DEF g

(* So it is with every statement that is executed in a script.             *)
LEMMA ExecutedIs ==
  ASSUME InputTyped, depth > 0, Executes, Run
  PROVE  \E n \in Nat, h \in Call :
           LET fs == [frames EXCEPT ![depth] = TakenOf(Top, n)]
           IN  frames' = fs \/ frames' = Append(fs, h)
<1>1. frames \in Seq(Call) /\ depth \in Nat /\ depth \in 1 .. Len(frames)
  BY DEF InputTyped, depth
<1>2. <<>> \in Seq(Text)
  OBVIOUS
<1>3. Frame(<<>>) \in Call
  BY <1>2, NewCall
<1> DEFINE t == Top
<1>4. t = frames[depth] /\ t \in Call
  BY <1>1 DEF Top
<1>5. CASE RunSql \/ Quit \/ SourceFails
  <2>1. PICK failed \in BOOLEAN : Takes(failed)
    BY <1>5 DEF RunSql, Quit, SourceFails
  <2> DEFINE n == IF failed THEN 1 ELSE 0
  <2>2. n \in Nat
    OBVIOUS
  <2>3. frames' = [frames EXCEPT ![depth].exec = Tail(@),
                                 ![depth].errs = @ + n]
    <3>1. depth # 0
      BY <1>1
    <3> QED
      BY <2>1, <3>1, Zenon DEF Takes
  <2> HIDE DEF n
  <2>4. frames' = [frames EXCEPT ![depth] = TakenOf(Top, n)]
    <3> DEFINE f == frames[depth]
               f1 == [f EXCEPT !.exec = Tail(@)]
               f2 == [f1 EXCEPT !.errs = @ + n]
    <3>1. f \in Call
      BY <1>4
    <3>2. f1.errs = f.errs
      BY <3>1 DEF Call
    <3>3. frames' = [frames EXCEPT ![depth] = f2]
      BY <1>1, <2>3
    <3>4. f2 = TakenOf(f, n)
      BY <3>1 DEF TakenOf, Call
    <3> QED
      BY <1>4, <3>3, <3>4
  <2> QED
    BY <1>3, <2>2, <2>4
<1>6. CASE Source
  <2> DEFINE h == Frame(Files[FileOf(Head(Due))[1]])
  <2>1. h \in Call
    <3>1. FileOf(Head(Due))[1] \in DOMAIN Files
      BY <1>6 DEF Source, CanOpen
    <3> QED
      BY <3>1, ConstantTexts, NewCall
  <2>2. frames' = Append([frames EXCEPT ![depth].exec = Tail(@)], h)
    <3>1. depth # 0
      BY <1>1
    <3> QED
      BY <1>6, <3>1, Zenon DEF Source
  <2> HIDE DEF h
  <2>3. [frames EXCEPT ![depth].exec = Tail(@)]
          = [frames EXCEPT ![depth] = TakenOf(Top, 0)]
    <3> DEFINE f == frames[depth]
               f1 == [f EXCEPT !.exec = Tail(@)]
    <3>1. f \in Call
      BY <1>4
    <3>2. [frames EXCEPT ![depth].exec = Tail(@)]
            = [frames EXCEPT ![depth] = f1]
      BY <1>1
    <3>3. f1 = TakenOf(f, 0)
      <4>1. f.errs + 0 = f.errs
        BY <3>1, Calls
      <4> QED
        BY <3>1, <4>1 DEF TakenOf, Call
    <3> QED
      BY <1>4, <3>2, <3>3
  <2> QED
    BY <2>1, <2>2, <2>3
<1> QED
  BY <1>5, <1>6 DEF Run

(* A statement is executed, by the outermost script or within it.          *)
LEMMA RunKeepsScript ==
  ASSUME InputTyped, ScriptInv, mode = "file", Run
  PROVE  ScriptInv'
<1>1. Executes
  BY DEF Run, RunSql, Quit, SourceFails, Source
<1>2. depth > 0
  BY <1>1 DEF Executes, ScriptInv
<1>3. /\ ran \in Seq(Text) /\ Good(frames[1]) /\ frames \in Seq(Call)
      /\ Outer(frames[1], ran, pend, ctx, open, written) /\ pc = "run"
  BY <1>2, StageIs
<1>4. PICK n \in Nat, h \in Call :
        LET fs == [frames EXCEPT ![depth] = TakenOf(Top, n)]
        IN  frames' = fs \/ frames' = Append(fs, h)
  BY <1>1, <1>2, ExecutedIs
<1>5. Due # <<>> /\ Logs /\ UNCHANGED <<mode, pc, author>>
  BY <1>1 DEF Executes
<1>6. UNCHANGED queue
  BY <1>2 DEF Run, RunSql, Quit, SourceFails, Source, Takes
<1>7. /\ depth' > 0
      /\ depth = 1 => Top = frames[1] /\ frames'[1] = TakenOf(frames[1], n)
      /\ depth # 1 => frames'[1] = frames[1]
  BY <1>2, <1>3, <1>4, <1>5, InnermostTakes
<1>8. CASE depth = 1
  <2> DEFINE f == frames[1]
             d == ran
             p == pend
             c == ctx
             o == open
             w == written
             e == Append(d, NoBlanks(Head(f.exec)))
             g == TakenOf(f, n)
  <2>1. ran' = e /\ ~Free(f)
    BY <1>2, <1>5, <1>7, <1>8 DEF Logs, Due, Free
  <2>2. d \in Seq(Text) /\ Good(f) /\ Outer(f, d, p, c, o, w)
    BY <1>3
  <2>3. n \in Nat
    BY <1>4
  <2>4. frames'[1] = g
    BY <1>7, <1>8
  <2> HIDE DEF f, d, p, c, o, w
  <2>5. Good(g) /\ e \in Seq(Text) /\ Outer(g, e, p, c, o, w)
    BY <2>1, <2>2, <2>3, TakenOuter
  <2> HIDE DEF e, g
  <2>6. Outer(g, ran', pend', ctx', open', written')
    BY <1>5, <2>1, <2>5 DEF p, c, o, w, author
  <2> QED
    BY <1>3, <1>5, <1>6, <1>7, <2>1, <2>4, <2>5, <2>6, StageKept
<1>9. CASE depth # 1
  <2>1. ran' = ran
    BY <1>5, <1>9 DEF Logs
  <2> QED
    BY <1>2, <1>3, <1>5, <1>6, <1>7, <1>9, <2>1, StageBelow
<1> QED
  BY <1>8, <1>9

-----------------------------------------------------------------------------
(* The author of a script *)

(* What one token, and a second and third, make of a state.                *)
LEMMA SeenFew ==
  ASSUME NEW s \in State
  PROVE  /\ \A a \in Token : <<a>> \in Text /\ Seen(s, <<a>>) = See(s, a)
         /\ \A a, b, c \in Token :
              /\ <<a, b, c>> \in Text
              /\ Seen(s, <<a, b, c>>) = See(See(See(s, a), b), c)
<1>1. ASSUME NEW a \in Token
      PROVE  <<a>> \in Text /\ Seen(s, <<a>>) = See(s, a)
  <2> DEFINE none == <<>>
  <2>1. none \in Text /\ Append(none, a) = <<a>> /\ <<a>> \in Text
    BY DEF Text
  <2>2. Seen(s, none) = s
    BY SeenSteps
  <2> HIDE DEF none
  <2>3. Seen(s, Append(none, a)) = See(Seen(s, none), a)
    BY <2>1, SeenSteps
  <2> QED
    BY <2>1, <2>2, <2>3
<1>2. ASSUME NEW a \in Token, NEW b \in Token, NEW c \in Token
      PROVE  /\ <<a, b, c>> \in Text
             /\ Seen(s, <<a, b, c>>) = See(See(See(s, a), b), c)
  <2> DEFINE x == <<a>>
             y == <<a, b>>
             z == <<a, b, c>>
  <2>1. x \in Text /\ y \in Text /\ z \in Text
    BY DEF Text
  <2>2. y = Append(x, b) /\ z = Append(y, c)
    OBVIOUS
  <2>3. Seen(s, x) = See(s, a)
    BY <1>1
  <2> HIDE DEF x, y, z
  <2>4. Seen(s, y) = See(See(s, a), b)
    BY <2>1, <2>2, <2>3, SeenSteps
  <2>5. Seen(s, z) = See(See(See(s, a), b), c)
    BY <2>1, <2>2, <2>4, SeenSteps
  <2> QED
    BY <2>1, <2>5 DEF z
<1> QED
  BY <1>1, <1>2

(* A line that begins with neither a blank nor source is no source line.   *)
LEMMA OrdinaryLine ==
  ASSUME NEW p \in Text, Ordinary(p)
  PROVE  ~IsSource(Trim(p))
<1>1. CASE Trim(p) = <<>>
  BY <1>1 DEF IsSource
<1>2. ASSUME NEW a \in 1 .. Len(p), NEW b \in 1 .. Len(p),
             a <= b, Trim(p) = SubSeq(p, a, b),
             \A i \in 1 .. a - 1 : p[i] = Blank
      PROVE  ~IsSource(Trim(p))
  <2>1. Len(p) \in Nat
    BY DEF Text
  <2>2. p # <<>> /\ 1 \in 1 .. Len(p)
    <3>1. Len(<<>>) = 0
      OBVIOUS
    <3> QED
      BY <2>1, <3>1
  <2>3. p[1] # Blank /\ p[1] # "source"
    BY <2>2 DEF Ordinary
  <2>4. a = 1
    <3>1. CASE a # 1
      <4>1. 1 \in 1 .. a - 1
        BY <2>1, <3>1
      <4> QED
        BY <1>2, <2>3, <4>1
    <3> QED
      BY <3>1
  <2>5. SubSeq(p, 1, b)[1] = p[1]
    <3>1. 1 \in 1 .. b - 1 + 1 /\ 1 + 1 - 1 = 1 /\ b \in 0 .. Len(p)
      BY <2>1
    <3>2. 1 \in 1 .. Len(p) + 1
      BY <2>1
    <3>3. \A i \in 1 .. b - 1 + 1 : SubSeq(p, 1, b)[i] = p[1 + i - 1]
      BY <3>1, <3>2, Piece DEF Text
    <3> QED
      BY <3>1, <3>3
  <2> QED
    BY <1>2, <2>3, <2>4, <2>5 DEF IsSource
<1> QED
  BY <1>1, <1>2, TrimShape

(* A line stays ordinary when something is written at its end.             *)
LEMMA OrdinaryMore ==
  ASSUME NEW p \in Text, Ordinary(p), NEW x \in Text, x # <<>>,
         p = <<>> => x[1] \notin {Blank, "source"}
  PROVE  Ordinary(p \o x)
<1>1. /\ Len(p) \in Nat /\ Len(x) \in Nat
      /\ Len(p \o x) = Len(p) + Len(x)
      /\ \A i \in 1 .. Len(p) + Len(x) :
           (p \o x)[i] = IF i <= Len(p) THEN p[i] ELSE x[i - Len(p)]
  BY ConcatProperties DEF Text
<1>2. CASE p = <<>>
  <2>1. p \o x = x
    BY <1>2, ConcatEmptySeq DEF Text
  <2> QED
    BY <1>2, <2>1 DEF Ordinary
<1>3. CASE p # <<>>
  <2>1. Len(p) >= 1
    BY <1>1, <1>3, EmptySeq DEF Text
  <2>2. 1 \in 1 .. Len(p) + Len(x) /\ 1 <= Len(p)
    BY <1>1, <2>1
  <2>3. (p \o x)[1] = p[1]
    BY <1>1, <2>2
  <2> QED
    BY <1>3, <2>3 DEF Ordinary
<1> QED
  BY <1>2, <1>3

(* What is added to a line being written.                                  *)
LEMMA TextMore ==
  ASSUME NEW d \in Seq(Text), NEW f, Good(f), NEW p \in Text,
         NEW c, NEW o, NEW w, InText(f, d, p, c, o, w),
         NEW x \in Text, NEW a, NEW b, NEW e, x # <<>>,
         SeenAs(Seen(Seen(Scanned(d, f), p), x), a, b, e),
         p = <<>> /\ Coding(f) => x[1] \notin {Blank, "source"}
  PROVE  InText(f, d, p \o x, a, b, e)
<1>1. Scanned(d, f) \in State
  BY ScannedState
<1>2. Seen(Scanned(d, f), p \o x) = Seen(Seen(Scanned(d, f), p), x)
  BY <1>1, Seeing, FoldParts DEF Seen
<1>3. Coding(f) => Ordinary(p \o x)
  BY OrdinaryMore DEF InText
<1> QED
  BY <1>2, <1>3 DEF InText

(* In a comment something has been written on the line, or it began there. *)
LEMMA CommentedLine ==
  ASSUME NEW d \in Seq(Text), NEW f, Good(f), NEW p \in Text,
         NEW c, NEW o, NEW w, InText(f, d, p, c, o, w),
         c \in {"line", "block"},
         p = <<>>
  PROVE  ~Coding(f)
<1>1. Scanned(d, f) \in State
  BY ScannedState
<1>2. Seen(Scanned(d, f), p) = Scanned(d, f)
  BY <1>1, SeenSteps
<1>3. Scanned(d, f).ctx = c
  BY <1>2 DEF InText, SeenAs
<1> QED
  BY <1>3, CodingState

(* What the constants hold is what their names say.                        *)
LEMMA PiecesAre ==
  /\ \A x \in Words :
       /\ x \in Token /\ x # Blank
       /\ x = ";" \/ x \notin Quotes \cup {"/*", "--", "#", ";"}
  /\ \A x \in Literals : x \in Token /\ x # Blank /\ x \notin Quotes
  /\ \A x \in Marks : x \in Token /\ x \in {"--", "#"}
  /\ \A x \in Junk : x \in Token /\ x # "*/"
  /\ Quotes \cup {"/*", "*/"} \subseteq Token
  /\ Blank \notin Quotes \cup {"/*", "*/", "--", "#", ";", "source"}
  /\ \A x \in DOMAIN Files : x \in Token /\ x \notin {Blank, ";", "--", "#"}
<1>1. /\ Char \cup Words \cup Literals \cup Marks \cup Junk \subseteq STRING
      /\ DOMAIN Files \subseteq STRING
      /\ Blank \notin {"source", ";", "'", "\"", "/*", "*/", "--", "#"}
      /\ Words \cap {Blank, "'", "\"", "/*", "--", "#"} = {}
      /\ Literals \cap {Blank, "'", "\""} = {}
      /\ Marks \subseteq {"--", "#"} /\ "*/" \notin Junk
      /\ DOMAIN Files \cap {Blank, ";", "--", "#"} = {}
  BY InputAssumption DEF InputAssumption
<1>2. STRING \subseteq Token /\ {"'", "\"", "/*", "*/"} \subseteq Token
  BY DEF Token
<1> QED
  BY <1>1, <1>2 DEF Quotes

(* What an author in code, in comments and in commands has written.        *)
LEMMA InTextIs ==
  ASSUME NEW d \in Seq(Text), NEW f, Good(f), NEW p \in Text,
         NEW c, NEW o, NEW w, InText(f, d, p, c, o, w)
  PROVE  /\ Seen(Scanned(d, f), p) \in State
         /\ Seen(Scanned(d, f), p).ctx = c
         /\ Seen(Scanned(d, f), p).done = w /\ Seen(Scanned(d, f), p).stmt = o
         /\ w \in Seq(Text) /\ o \in Text
<1>1. Scanned(d, f) \in State
  BY ScannedState
<1>2. Seen(Scanned(d, f), p) \in State
  BY <1>1, SeenSteps
<1> QED
  BY <1>2, StateIs DEF InText, SeenAs

(* A word is added to the statement; a semicolon ends it.                  *)
LEMMA WordWritten ==
  ASSUME NEW d \in Seq(Text), NEW f, Good(f), NEW p \in Text,
         NEW c, NEW o, NEW w, InText(f, d, p, c, o, w), c = "code",
         NEW x \in Words, x = "source" => NoBlanks(p) # <<>>,
         NEW m, m = Meant([done |-> w, rest |-> o], x)
  PROVE  InText(f, d, p \o <<x>>, "code", m.rest, m.done)
<1> DEFINE s == Seen(Scanned(d, f), p)
           t == Seen(s, <<x>>)
<1>1. /\ s \in State /\ s.ctx = "code" /\ s.done = w /\ s.stmt = o
  BY InTextIs
<1>2. x \in Token /\ x # Blank
  BY PiecesAre
<1>3. x = ";" \/ x \notin Quotes \cup {"/*", "--", "#", ";"}
  BY PiecesAre
<1> HIDE DEF s
<1>4. <<x>> \in Text /\ t = See(s, x)
  BY <1>1, <1>2, SeenFew
<1>5. /\ <<x>> # <<>> /\ <<x>>[1] = x
  OBVIOUS
<1>6. p = <<>> => x # "source"
  BY NoneTwice
<1>7. SeenAs(t, "code", m.rest, m.done)
  <2>1. CASE x = ";"
    <3>1. m.done = Closed(w, o) /\ m.rest = <<>>
      BY <1>2, <2>1, Zenon DEF Meant
    <3>2. t.done = Closed(w, o) /\ t.stmt = <<>> /\ t.ctx = "code"
      <4>1. x \in {";"}
        BY <2>1
      <4> QED
        BY <1>1, <1>2, <1>4, <4>1, SeeEnd
    <3> QED
      BY <3>1, <3>2 DEF SeenAs
  <2>2. CASE x \notin Quotes \cup {"/*", "--", "#", ";"}
    <3>1. m.done = w /\ m.rest = Append(o, x)
      <4>1. m = [[done |-> w, rest |-> o] EXCEPT !.rest = Append(@, x)]
        BY <1>2, <2>2 DEF Meant
      <4> QED
        BY <4>1
    <3>2. t.done = w /\ t.stmt = With(o, x) /\ t.ctx = "code"
      BY <1>1, <1>2, <1>4, <2>2, SeePlain
    <3> QED
      BY <1>2, <3>1, <3>2 DEF SeenAs, With
  <2> QED
    BY <1>3, <2>1, <2>2
<1> QED
  BY <1>2, <1>4, <1>5, <1>6, <1>7, TextMore DEF s

(* What stands between quotes is part of it, whatever it is.               *)
LEMMA LiteralWritten ==
  ASSUME NEW d \in Seq(Text), NEW f, Good(f), NEW p \in Text,
         NEW c, NEW o, NEW w, InText(f, d, p, c, o, w), c = "code",
         NEW q \in Quotes, NEW x \in Literals
  PROVE  InText(f, d, p \o <<q, x, q>>, "code", o \o <<q, x, q>>, w)
<1> DEFINE s == Seen(Scanned(d, f), p)
           l == <<q, x, q>>
           t == Seen(s, l)
           s1 == See(s, q)
           s2 == See(s1, x)
           s3 == See(s2, q)
<1>1. /\ s \in State /\ s.ctx = "code" /\ s.done = w /\ s.stmt = o
      /\ o \in Text
  BY InTextIs
<1>2. x \in Token /\ x # Blank /\ q \in Token /\ q # Blank /\ x # q
  BY PiecesAre
<1> HIDE DEF s
<1>3. l \in Text /\ t = s3
  BY <1>1, <1>2, SeenFew
<1>4. l # <<>> /\ l[1] = q
  OBVIOUS
<1>5. /\ s1 \in State /\ s1.done = w /\ s1.stmt = Append(o, q) /\ s1.ctx = q
  BY <1>1, <1>2, SeeQuote, Seeing
<1> HIDE DEF s1
<1>6. /\ s2 \in State /\ s2.done = w /\ s2.stmt = Append(Append(o, q), x)
      /\ s2.ctx = q
  <2>1. s1.ctx \in Quotes
    BY <1>5
  <2>2. /\ s2.done = s1.done /\ s2.stmt = With(s1.stmt, x)
        /\ s2.ctx = IF x = s1.ctx THEN "code" ELSE s1.ctx
    BY <1>2, <1>5, <2>1, SeeQuoted
  <2>3. s2 \in State
    BY <1>2, <1>5, Seeing
  <2> HIDE DEF s2
  <2> QED
    BY <1>2, <1>5, <2>2, <2>3 DEF With
<1> HIDE DEF s2
<1>7. /\ s3.done = w /\ s3.stmt = Append(Append(Append(o, q), x), q)
      /\ s3.ctx = "code"
  <2>1. s2.ctx \in Quotes
    BY <1>6
  <2>2. /\ s3.done = s2.done /\ s3.stmt = With(s2.stmt, q)
        /\ s3.ctx = IF q = s2.ctx THEN "code" ELSE s2.ctx
    BY <1>2, <1>6, <2>1, SeeQuoted
  <2> HIDE DEF s3
  <2> QED
    BY <1>2, <1>6, <2>2 DEF With
<1> HIDE DEF s3
<1>8. Append(Append(Append(o, q), x), q) = o \o l
  BY <1>1, <1>2 DEF Text
<1>9. SeenAs(t, "code", o \o l, w)
  BY <1>3, <1>7, <1>8 DEF SeenAs
<1>10. q \notin {Blank, "source"}
  BY <1>2 DEF Quotes
<1> HIDE DEF l
<1> QED
  BY <1>3, <1>4, <1>9, <1>10, TextMore DEF s, l

(* A comment begins.                                                       *)
LEMMA CommentWritten ==
  ASSUME NEW d \in Seq(Text), NEW f, Good(f), NEW p \in Text,
         NEW c, NEW o, NEW w, InText(f, d, p, c, o, w), c = "code",
         NEW x \in Marks \cup {"/*"}
  PROVE  InText(f, d, p \o <<x>>, IF x = "/*" THEN "block" ELSE "line", o, w)
<1> DEFINE s == Seen(Scanned(d, f), p)
           t == Seen(s, <<x>>)
           a == IF x = "/*" THEN "block" ELSE "line"
<1>1. /\ s \in State /\ s.ctx = "code" /\ s.done = w /\ s.stmt = o
  BY InTextIs
<1>2. x \in Token /\ (x = "/*" \/ x \in {"--", "#"}) /\ x # Blank
      /\ x # "source"
  BY PiecesAre
<1> HIDE DEF s
<1>3. <<x>> \in Text /\ t = See(s, x)
  BY <1>1, <1>2, SeenFew
<1>4. <<x>> # <<>> /\ <<x>>[1] = x
  OBVIOUS
<1>5. t.done = w /\ t.stmt = o /\ t.ctx = a
  <2>1. CASE x = "/*"
    BY <1>1, <1>2, <1>3, <2>1, SeeComment
  <2>2. CASE x \in {"--", "#"}
    BY <1>1, <1>2, <1>3, <2>2, SeeComment
  <2> QED
    BY <1>2, <2>1, <2>2
<1>6. SeenAs(t, a, o, w)
  BY <1>5 DEF SeenAs
<1> HIDE DEF a
<1> QED
  BY <1>2, <1>3, <1>4, <1>6, TextMore DEF s, a

(* What stands in a comment is nothing.                                    *)
LEMMA JunkWritten ==
  ASSUME NEW d \in Seq(Text), NEW f, Good(f), NEW p \in Text,
         NEW c, NEW o, NEW w, InText(f, d, p, c, o, w),
         c \in {"line", "block"}, NEW x \in Junk
  PROVE  InText(f, d, p \o <<x>>, c, o, w)
<1> DEFINE s == Seen(Scanned(d, f), p)
           t == Seen(s, <<x>>)
<1>1. /\ s \in State /\ s.ctx = c /\ s.done = w /\ s.stmt = o
  BY InTextIs
<1>2. x \in Token /\ x # "*/"
  BY PiecesAre
<1>3. p = <<>> => ~Coding(f)
  BY CommentedLine
<1> HIDE DEF s
<1>4. <<x>> \in Text /\ t = See(s, x)
  BY <1>1, <1>2, SeenFew
<1>5. t.done = w /\ t.stmt = o /\ t.ctx = c
  <2>1. CASE c = "line"
    BY <1>1, <1>4, <2>1, SeenKeeps
  <2>2. CASE c = "block"
    BY <1>1, <1>2, <1>4, <2>2, SeeCommented
  <2> QED
    BY <2>1, <2>2
<1>6. SeenAs(t, c, o, w)
  BY <1>5 DEF SeenAs
<1>7. <<x>> # <<>>
  OBVIOUS
<1> QED
  BY <1>3, <1>4, <1>6, <1>7, TextMore DEF s

(* The comment is closed.                                                  *)
LEMMA CommentClosed ==
  ASSUME NEW d \in Seq(Text), NEW f, Good(f), NEW p \in Text,
         NEW c, NEW o, NEW w, InText(f, d, p, c, o, w), c = "block"
  PROVE  InText(f, d, p \o <<"*/">>, "code", o, w)
<1> DEFINE s == Seen(Scanned(d, f), p)
           x == "*/"
           t == Seen(s, <<x>>)
<1>1. /\ s \in State /\ s.ctx = "block" /\ s.done = w /\ s.stmt = o
  BY InTextIs
<1>2. x \in Token
  BY PiecesAre
<1>3. p = <<>> => ~Coding(f)
  BY CommentedLine
<1> HIDE DEF s
<1>4. <<x>> \in Text /\ t = See(s, x)
  BY <1>1, <1>2, SeenFew
<1>5. t.done = w /\ t.stmt = o /\ t.ctx = "code"
  BY <1>1, <1>2, <1>4, SeeCommented
<1>6. SeenAs(t, "code", o, w)
  BY <1>5 DEF SeenAs
<1>7. <<x>> # <<>>
  OBVIOUS
<1> HIDE DEF x
<1> QED
  BY <1>3, <1>4, <1>6, <1>7, TextMore DEF s, x

(* The token that ends a statement.                                        *)
Semi == ";"

(* The least is the one that is least.                                     *)
LEMMA LeastIs ==
  ASSUME NEW M \in SUBSET Nat, NEW x \in M, \A y \in M : x <= y
  PROVE  Min(M) = x
<1> DEFINE m == Min(M)
<1>1. m \in M /\ \A y \in M : m <= y
  BY Least
<1> HIDE DEF m
<1>2. m \in Nat /\ x \in Nat /\ m <= x /\ x <= m
  BY <1>1
<1>3. m = x
  BY <1>2
<1> QED
  BY <1>3 DEF m

(* A blank separates.                                                      *)
LEMMA Separators == /\ Blank \notin {Semi, "--", "#", "source"}
                    /\ Semi # "--" /\ Semi # "#"
<1>1. Blank \notin {Semi, "--", "#", "source"}
  BY PiecesAre, Zenon DEF Semi
<1>2. Semi # "--" /\ Semi # "#"
  BY Zenon DEF Semi
<1> QED
  BY <1>1, <1>2

(* A name between blanks.                                                  *)
LEMMA NameAlone ==
  ASSUME NEW x \in Text, NEW n \in Token, n # Blank, Len(x) \in {2, 3},
         x[1] = Blank, x[2] = n, Len(x) = 3 => x[3] = Blank
  PROVE  Trim(x) = <<n>>
<1>1. 1 \in 1 .. Len(x) /\ 2 \in 1 .. Len(x)
  OBVIOUS
<1>2. PICK a \in 1 .. Len(x), b \in 1 .. Len(x) :
        /\ a <= b /\ Trim(x) = SubSeq(x, a, b)
        /\ x[a] # Blank /\ x[b] # Blank
  <2>1. ~ \A i \in 1 .. Len(x) : x[i] = Blank
    BY <1>1
  <2> QED
    BY <2>1, TrimShape
<1>3. a = 2 /\ b = 2
  BY <1>2
<1>4. Trim(x) = SubSeq(x, 2, 2)
  BY <1>2, <1>3
<1>5. SubSeq(x, 2, 2) = <<n>>
  <2>1. /\ SubSeq(x, 2, 2) \in Seq(Token) /\ Len(SubSeq(x, 2, 2)) = 1
        /\ SubSeq(x, 2, 2)[1] = n
    <3>1. x \in Seq(Token) /\ 2 \in 1 .. Len(x) + 1 /\ 2 \in 0 .. Len(x)
      BY DEF Text
    <3>2. /\ SubSeq(x, 2, 2) \in Seq(Token)
          /\ Len(SubSeq(x, 2, 2)) = IF 2 <= 2 THEN 2 - 2 + 1 ELSE 0
          /\ \A i \in 1 .. 2 - 2 + 1 : SubSeq(x, 2, 2)[i] = x[2 + i - 1]
      BY <3>1, Piece
    <3> QED
      BY <3>2
  <2>2. <<n>> \in Text /\ Len(<<n>>) = 1 /\ <<n>>[1] = n
    BY DEF Text
  <2> DEFINE y == SubSeq(x, 2, 2)
             z == <<n>>
  <2>3. /\ y \in Text /\ z \in Text /\ Len(y) = Len(z)
        /\ \A i \in 1 .. Len(y) : y[i] = z[i]
    <3>1. \A i \in 1 .. 1 : i = 1
      OBVIOUS
    <3> QED
      BY <2>1, <2>2, <3>1 DEF Text
  <2> HIDE DEF y, z
  <2>4. y = z
    BY <2>3, SameText
  <2> QED
    BY <2>4 DEF y, z
<1> QED
  BY <1>4, <1>5

(* The name after source, nothing, a semicolon or a comment after it.      *)
Named(l, n) ==
  /\ l \in Text /\ n \in Token /\ n \notin {Blank, Semi, "--", "#"}
  /\ Len(l) >= 3 /\ l[2] = Blank /\ l[3] = n
Ending(l)   == Len(l) = 3 \/ l[4] = Semi
Comments(l) ==
  /\ Len(l) >= 5 /\ l[4] = Blank /\ l[5] \in {"--", "#"}
  /\ l[5] = "#" => \A i \in 6 .. Len(l) : l[i] # "--"

(* A name ends at a semicolon, or with the line.                           *)
LEMMA NameEnds ==
  ASSUME NEW l \in Text, NEW n \in Token, Named(l, n), Ending(l)
  PROVE  ArgOf(l) = <<n>>
<1> DEFINE a    == Tail(l)
           E    == {i \in 1 .. Len(a) : a[i] = Semi}
           S    == {Len(a) + 1} \cup E
           b    == SubSeq(a, 1, Min(S) - 1)
           Starts(m) == {i \in 2 .. Len(b) : b[i] = m /\ b[i - 1] = Blank}
           cut  == IF Starts("--") # {} THEN Min(Starts("--")) - 1
                   ELSE IF Starts("#") # {} THEN Min(Starts("#")) - 1
                   ELSE Len(b)
<1>1. /\ l \in Text /\ n \in Token /\ n \notin {Blank, Semi, "--", "#"}
      /\ Len(l) \in Nat /\ Len(l) >= 3 /\ l[2] = Blank /\ l[3] = n
      /\ Blank # Semi /\ (Len(l) = 3 \/ l[4] = Semi)
  BY Separators DEF Named, Ending, Text
<1>2. /\ a \in Text /\ Len(a) = Len(l) - 1
      /\ \A i \in 1 .. Len(l) - 1 : a[i] = l[i + 1]
  BY <1>1 DEF Text
<1> HIDE DEF a
<1>3. /\ a[1] = Blank /\ a[2] = n /\ Len(a) \in Nat /\ Len(a) >= 2
      /\ Len(a) = 2 \/ (Len(a) > 2 /\ a[3] = Semi)
  <2>1. 1 \in 1 .. Len(l) - 1 /\ 2 \in 1 .. Len(l) - 1
    BY <1>1
  <2>2. a[1] = l[2] /\ a[2] = l[3]
    BY <1>2, <2>1
  <2>3. Len(l) # 3 => a[3] = l[4]
    <3>1. Len(l) \in Nat /\ Len(l) >= 3
      BY <1>1
    <3>2. \A k \in Nat : k >= 3 /\ k # 3 => 3 \in 1 .. k - 1
      OBVIOUS
    <3>3. Len(l) # 3 => 3 \in 1 .. Len(l) - 1
      BY <3>1, <3>2
    <3> QED
      BY <1>2, <3>3
  <2> QED
    BY <1>1, <1>2, <2>2, <2>3
<1>4. Min(S) = 3
  <2>1. S \in SUBSET Nat /\ \A y \in S : 3 <= y
    BY <1>1, <1>3
  <2>2. 3 \in S
    BY <1>3
  <2> HIDE DEF S
  <2> QED
    BY <2>1, <2>2, LeastIs
<1>5. /\ b \in Text /\ Len(b) = 2 /\ b[1] = Blank /\ b[2] = n
  <2>1. b = SubSeq(a, 1, 2)
    <3>1. Min(S) - 1 = 2
      <4> HIDE DEF S
      <4> QED
        BY <1>4
    <3> QED
      BY <3>1
  <2>2. a \in Seq(Token) /\ 1 \in 1 .. Len(a) + 1 /\ 2 \in 0 .. Len(a)
    BY <1>2, <1>3 DEF Text
  <2>3. /\ SubSeq(a, 1, 2) \in Seq(Token)
        /\ Len(SubSeq(a, 1, 2)) = IF 1 <= 2 THEN 2 - 1 + 1 ELSE 0
        /\ \A i \in 1 .. 2 - 1 + 1 : SubSeq(a, 1, 2)[i] = a[1 + i - 1]
    BY <2>2, Piece
  <2> HIDE DEF b
  <2> QED
    BY <1>3, <2>1, <2>3 DEF Text
<1> HIDE DEF b
<1>6. Starts("--") = {} /\ Starts("#") = {}
  BY <1>1, <1>5
<1>7. cut = Len(b)
  BY <1>6
<1>8. SubSeq(b, 1, cut) = b
  BY <1>5, <1>7, SubSeqFull DEF Text
<1>9. ArgOf(l) = Trim(SubSeq(b, 1, cut))
  BY DEF ArgOf, Semi, b, a
<1>10. Trim(b) = <<n>>
  BY <1>1, <1>5, NameAlone
<1> QED
  BY <1>8, <1>9, <1>10

(* A name ends before a comment.                                           *)
LEMMA NameCommented ==
  ASSUME NEW l \in Text, NEW n \in Token, Named(l, n), Comments(l)
  PROVE  ArgOf(l) = <<n>>
<1> DEFINE a    == Tail(l)
           E    == {i \in 1 .. Len(a) : a[i] = Semi}
           S    == {Len(a) + 1} \cup E
           k    == Min(S) - 1
           b    == SubSeq(a, 1, Min(S) - 1)
           Starts(m) == {i \in 2 .. Len(b) : b[i] = m /\ b[i - 1] = Blank}
           cut  == IF Starts("--") # {} THEN Min(Starts("--")) - 1
                   ELSE IF Starts("#") # {} THEN Min(Starts("#")) - 1
                   ELSE Len(b)
<1>1. /\ l \in Text /\ n \in Token /\ n \notin {Blank, Semi, "--", "#"}
      /\ Len(l) \in Nat /\ Len(l) >= 5 /\ l[2] = Blank /\ l[3] = n
      /\ Blank \notin {Semi, "--", "#"}
      /\ l[4] = Blank /\ l[5] \in {"--", "#"}
      /\ l[5] \in {"#"} => \A i \in 6 .. Len(l) : l[i] \notin {"--"}
  BY Separators DEF Named, Comments, Text
<1>2. /\ a \in Text /\ Len(a) = Len(l) - 1
      /\ \A i \in 1 .. Len(l) - 1 : a[i] = l[i + 1]
  BY <1>1 DEF Text
<1> HIDE DEF a
<1>3. /\ a[1] = Blank /\ a[2] = n /\ a[3] = Blank /\ a[4] = l[5]
      /\ Len(a) \in Nat /\ Len(a) >= 4
      /\ a[4] \in {"#"} => \A i \in 5 .. Len(a) : a[i] \notin {"--"}
  <2>1. /\ 1 \in 1 .. Len(l) - 1 /\ 2 \in 1 .. Len(l) - 1
        /\ 3 \in 1 .. Len(l) - 1 /\ 4 \in 1 .. Len(l) - 1
    BY <1>1
  <2>2. a[1] = l[2] /\ a[2] = l[3] /\ a[3] = l[4] /\ a[4] = l[5]
    BY <1>2, <2>1
  <2>3. ASSUME l[5] \in {"#"}, NEW i \in 5 .. Len(a)
        PROVE  a[i] \notin {"--"}
    <3>1. i \in 1 .. Len(l) - 1 /\ i + 1 \in 6 .. Len(l)
      BY <1>1, <1>2
    <3> QED
      BY <1>1, <1>2, <2>3, <3>1
  <2> QED
    BY <1>1, <1>2, <2>2, <2>3
<1>4. k \in Nat /\ k >= 4 /\ k <= Len(a)
  <2>1. S \in SUBSET Nat /\ S # {}
    BY <1>3
  <2>2. \A y \in S : 5 <= y /\ y <= Len(a) + 1
    <3>1. Blank # Semi /\ n # Semi /\ a[4] # Semi
      BY <1>1, <1>3, Separators
    <3>2. \A y \in E : y \in 1 .. Len(a) /\ y \notin {1, 2, 3, 4}
      BY <1>3, <3>1
    <3> HIDE DEF E
    <3>3. \A y \in E : 5 <= y /\ y <= Len(a) + 1
      BY <1>3, <3>2
    <3> QED
      BY <1>3, <3>3
  <2> HIDE DEF S
  <2>3. Min(S) \in S
    BY <2>1, Least
  <2>4. Min(S) \in Nat /\ 5 <= Min(S) /\ Min(S) <= Len(a) + 1
    BY <2>1, <2>2, <2>3
  <2> QED
    BY <1>3, <2>4
<1>5. /\ b \in Text /\ Len(b) = k /\ \A i \in 1 .. k : b[i] = a[i]
  <2>1. b = SubSeq(a, 1, k)
    OBVIOUS
  <2> HIDE DEF k, b
  <2>2. a \in Seq(Token) /\ 1 \in 1 .. Len(a) + 1 /\ k \in 0 .. Len(a)
    BY <1>2, <1>3, <1>4 DEF Text
  <2>3. /\ SubSeq(a, 1, k) \in Seq(Token)
        /\ Len(SubSeq(a, 1, k)) = IF 1 <= k THEN k - 1 + 1 ELSE 0
        /\ \A i \in 1 .. k - 1 + 1 : SubSeq(a, 1, k)[i] = a[1 + i - 1]
    BY <2>2, Piece
  <2> QED
    BY <1>4, <2>1, <2>3 DEF Text
<1> HIDE DEF b, k
<1>6. /\ b[1] = Blank /\ b[2] = n /\ b[3] = Blank /\ b[4] = a[4]
  <2>1. 1 \in 1 .. k /\ 2 \in 1 .. k /\ 3 \in 1 .. k /\ 4 \in 1 .. k
    BY <1>4
  <2> QED
    BY <1>3, <1>5, <2>1
<1>7. a[4] \in {"--", "#"}
  BY <1>1, <1>3
<1>8. \A m \in {"--", "#"} :
        Starts(m) \in SUBSET Nat /\ \A i \in Starts(m) : 4 <= i
  BY <1>1, <1>4, <1>5, <1>6
<1>9. \A m \in {"--", "#"} : a[4] = m => 4 \in Starts(m)
  BY <1>4, <1>5, <1>6
<1>10. a[4] \in {"#"} => Starts("--") = {}
  <2> SUFFICES ASSUME a[4] \in {"#"}, NEW i \in Starts("--") PROVE FALSE
    OBVIOUS
  <2>1. 4 <= i /\ i \in 2 .. k /\ b[i] \in {"--"}
    BY <1>5, <1>8
  <2>2. i # 4
    BY <1>6, <2>1
  <2>3. i \in 5 .. Len(a) /\ i \in 1 .. k
    BY <1>3, <1>4, <2>1, <2>2
  <2> QED
    BY <1>3, <1>5, <2>1, <2>3
<1> HIDE DEF Starts
<1>11. cut = 3
  <2>1. CASE a[4] \in {"--"}
    <3>1. Min(Starts("--")) = 4
      BY <1>8, <1>9, <2>1, LeastIs
    <3> QED
      BY <1>9, <2>1, <3>1
  <2>2. CASE a[4] \in {"#"}
    <3>1. Min(Starts("#")) = 4
      BY <1>8, <1>9, <2>2, LeastIs
    <3> QED
      BY <1>9, <1>10, <2>2, <3>1
  <2> QED
    BY <1>7, <2>1, <2>2
<1> DEFINE c == SubSeq(b, 1, 3)
<1>12. c \in Text /\ Len(c) = 3 /\ c[1] = Blank /\ c[2] = n /\ c[3] = Blank
  <2>1. b \in Seq(Token) /\ 1 \in 1 .. Len(b) + 1 /\ 3 \in 0 .. Len(b)
    BY <1>4, <1>5 DEF Text
  <2>2. /\ SubSeq(b, 1, 3) \in Seq(Token)
        /\ Len(SubSeq(b, 1, 3)) = IF 1 <= 3 THEN 3 - 1 + 1 ELSE 0
        /\ \A i \in 1 .. 3 - 1 + 1 : SubSeq(b, 1, 3)[i] = b[1 + i - 1]
    BY <2>1, Piece
  <2> HIDE DEF c
  <2>3. c = SubSeq(b, 1, 3)
    BY DEF c
  <2> QED
    BY <1>6, <2>2, <2>3 DEF Text
<1>13. ArgOf(l) = Trim(SubSeq(b, 1, cut))
  BY DEF ArgOf, Semi, b, a, Starts
<1> HIDE DEF c, cut
<1>14. Trim(c) = <<n>>
  BY <1>1, <1>12, NameAlone
<1> QED
  BY <1>11, <1>13, <1>14 DEF c

(* What may follow a name.                                                 *)
Following(t) ==
  \/ t[1] = Semi
  \/ /\ Len(t) > 1 /\ t[1] = Blank /\ t[2] \in {"--", "#"}
     /\ t[2] = "#" => \A i \in 3 .. Len(t) : t[i] # "--"

(* The tails are among them, or empty.                                     *)
LEMMA TailsAre ==
  ASSUME NEW t \in Tails
  PROVE  t \in Text /\ (t = <<>> \/ Following(t))
<1>1. t \in Text
  BY ConstantTexts
<1>2. CASE t # <<>>
  <2>1. t \in Tails \ {<<>>}
    BY <1>2
  <2>2. Following(t)
    BY <2>1, InputAssumption, Zenon DEF InputAssumption, Following, Semi
  <2> QED
    BY <1>1, <2>2
<1> QED
  BY <1>1, <1>2

(* A source line names its file.                                           *)
LEMMA CommandNames ==
  ASSUME NEW n \in DOMAIN Files, NEW t \in Tails,
         NEW p, p = <<"source", Blank, n>> \o t
  PROVE  p \in Text /\ IsSource(Trim(p)) /\ ArgOf(Trim(p)) = <<n>>
<1> DEFINE h == <<"source", Blank, n>>
<1>1. n \in Token /\ n \notin {Blank, Semi, "--", "#"}
  BY PiecesAre, Zenon DEF Semi
<1>2. t \in Text /\ (t = <<>> \/ Following(t))
  BY TailsAre
<1>3. h \in Text /\ Len(h) = 3
  <2>1. "source" \in Token /\ Blank \in Token
    BY BlankIsToken DEF Token
  <2>2. \A x, y, z \in Token : <<x, y, z>> \in Seq(Token)
    OBVIOUS
  <2> QED
    BY <1>1, <2>1, <2>2 DEF Text
<1>4. h[1] = "source" /\ h[2] = Blank /\ h[3] = n
  OBVIOUS
<1> HIDE DEF h
<1>5. /\ p \in Text /\ Len(t) \in Nat /\ Len(p) = 3 + Len(t)
      /\ \A i \in 1 .. 3 + Len(t) : p[i] = IF i <= 3 THEN h[i] ELSE t[i - 3]
  <2>1. p = h \o t
    BY DEF h
  <2>2. /\ h \o t \in Seq(Token)
        /\ Len(h \o t) = Len(h) + Len(t)
        /\ \A i \in 1 .. Len(h) + Len(t) :
             (h \o t)[i] = IF i <= Len(h) THEN h[i] ELSE t[i - Len(h)]
    BY <1>2, <1>3, ConcatProperties DEF Text
  <2>3. Len(t) \in Nat
    BY <1>2 DEF Text
  <2> QED
    BY <1>3, <2>1, <2>2, <2>3 DEF Text
<1> DEFINE m == Len(p)
<1>6. /\ m \in Nat /\ m >= 3
      /\ p[1] = "source" /\ p[2] = Blank /\ p[3] = n
  <2>1. 1 \in 1 .. 3 + Len(t) /\ 2 \in 1 .. 3 + Len(t) /\ 3 \in 1 .. 3 + Len(t)
    BY <1>5
  <2> QED
    BY <1>4, <1>5, <2>1
<1>7. Blank \notin {Semi, "--", "#", "source"} /\ Semi # "--" /\ Semi # "#"
  BY Separators
<1> HIDE DEF m
<1>8. PICK b \in 1 .. m :
        /\ Trim(p) = SubSeq(p, 1, b) /\ \A i \in b + 1 .. m : p[i] = Blank
  <2>1. 1 \in 1 .. m
    BY <1>6
  <2>2. ~ \A i \in 1 .. m : p[i] = Blank
    BY <1>6, <1>7, <2>1
  <2>3. PICK a \in 1 .. m, b \in 1 .. m :
          /\ Trim(p) = SubSeq(p, a, b)
          /\ \A i \in 1 .. a - 1 : p[i] = Blank
          /\ \A i \in b + 1 .. m : p[i] = Blank
    BY <1>5, <2>2, TrimShape DEF m
  <2>4. a = 1
    <3> SUFFICES ASSUME a # 1 PROVE FALSE
      OBVIOUS
    <3>1. 1 \in 1 .. a - 1
      BY <1>6
    <3> QED
      BY <1>6, <1>7, <2>3, <3>1
  <2> QED
    BY <2>3, <2>4
<1> DEFINE l == Trim(p)
<1>9. /\ l \in Text /\ Len(l) = b /\ \A i \in 1 .. b : l[i] = p[i]
  <2>1. p \in Seq(Token) /\ 1 \in 1 .. Len(p) + 1 /\ b \in 0 .. Len(p)
    BY <1>5, <1>6 DEF Text, m
  <2>2. /\ SubSeq(p, 1, b) \in Seq(Token)
        /\ Len(SubSeq(p, 1, b)) = IF 1 <= b THEN b - 1 + 1 ELSE 0
        /\ \A i \in 1 .. b - 1 + 1 : SubSeq(p, 1, b)[i] = p[1 + i - 1]
    BY <2>1, Piece
  <2>3. l = SubSeq(p, 1, b)
    BY <1>8
  <2>4. b \in Nat /\ b >= 1
    BY <1>6, <1>8
  <2>5. \A i \in 1 .. b : i \in 1 .. b - 1 + 1 /\ 1 + i - 1 = i
    BY <2>4
  <2>6. (IF 1 <= b THEN b - 1 + 1 ELSE 0) = b
    BY <2>4
  <2> HIDE DEF l
  <2> QED
    BY <2>2, <2>3, <2>5, <2>6 DEF Text
<1> HIDE DEF l
<1>10. \A i \in 1 .. m : p[i] # Blank => i <= b
  <2>1. b \in Nat
    BY <1>6, <1>8
  <2>2. \A i \in 1 .. m : i <= b \/ i \in b + 1 .. m
    BY <1>6, <2>1
  <2> QED
    BY <1>8, <2>2
<1>11. b >= 3 /\ b \in Nat /\ b <= m
  <2>1. 3 \in 1 .. m
    BY <1>6
  <2> QED
    BY <1>1, <1>6, <1>10, <2>1
<1>12. l[1] = "source" /\ l[2] = Blank /\ l[3] = n
  <2>1. 1 \in 1 .. b /\ 2 \in 1 .. b /\ 3 \in 1 .. b
    BY <1>11
  <2> QED
    BY <1>6, <1>9, <2>1
<1>13. IsSource(l)
  <2>1. l # <<>>
    BY <1>9, <1>11
  <2> QED
    BY <1>12, <2>1 DEF IsSource
<1>14. Named(l, n)
  BY <1>1, <1>9, <1>11, <1>12 DEF Named
<1>15. Ending(l) \/ Comments(l)
  <2>1. CASE t = <<>>
    <3>1. Len(t) = 0
      BY <2>1
    <3>2. b = 3
      BY <1>5, <1>6, <1>11, <3>1 DEF m
    <3> QED
      BY <1>9, <3>2 DEF Ending
  <2>2. CASE t # <<>> /\ t[1] = Semi
    <3>1. Len(t) >= 1
      BY <1>2, <2>2, EmptySeq DEF Text
    <3>2. 4 \in 1 .. m /\ 4 \in 1 .. 3 + Len(t)
      BY <1>5, <3>1 DEF m
    <3>3. p[4] = Semi
      BY <1>5, <2>2, <3>2
    <3>4. 4 \in 1 .. b
      BY <1>7, <1>10, <1>11, <3>2, <3>3
    <3> QED
      BY <1>9, <3>3, <3>4 DEF Ending
  <2>3. CASE /\ Len(t) > 1 /\ t[1] = Blank /\ t[2] \in {"--", "#"}
             /\ t[2] = "#" => \A i \in 3 .. Len(t) : t[i] # "--"
    <3>1. /\ 4 \in 1 .. m /\ 4 \in 1 .. 3 + Len(t)
          /\ 5 \in 1 .. m /\ 5 \in 1 .. 3 + Len(t) /\ m = 3 + Len(t)
      BY <1>5, <2>3 DEF m
    <3>2. p[4] = Blank /\ p[5] = t[2]
      BY <1>5, <2>3, <3>1
    <3>3. 4 \in 1 .. b /\ 5 \in 1 .. b
      BY <1>7, <1>10, <1>11, <2>3, <3>1, <3>2
    <3>4. l[4] = Blank /\ l[5] = t[2]
      BY <1>9, <3>2, <3>3
    <3>5. ASSUME l[5] = "#", NEW i \in 6 .. b PROVE l[i] # "--"
      <4>1. i \in 1 .. b /\ i \in 1 .. 3 + Len(t) /\ i - 3 \in 3 .. Len(t)
        BY <1>5, <1>11, <3>1
      <4>2. p[i] = t[i - 3]
        BY <1>5, <4>1
      <4>3. t[i - 3] # "--"
        BY <2>3, <3>4, <3>5, <4>1
      <4> QED
        BY <1>9, <4>1, <4>2, <4>3
    <3> QED
      BY <1>9, <2>3, <3>3, <3>4, <3>5 DEF Comments
  <2> QED
    BY <1>2, <2>1, <2>2, <2>3 DEF Following
<1>16. ArgOf(l) = <<n>>
  BY <1>1, <1>9, <1>14, <1>15, NameEnds, NameCommented
<1> QED
  BY <1>5, <1>13, <1>16 DEF l

(* A call is given lines to read.                                          *)
LEMMA LinesGiven ==
  ASSUME NEW d, NEW f, Good(f), AtRest(f), NEW q \in Seq(Text),
         NEW g, g = [f EXCEPT !.todo = q]
  PROVE  /\ Good(g) /\ AtRest(g) /\ g.todo = q
         /\ Scanned(d, g) = Scanned(d, f)
<1>1. f \in Call
  BY DEF Good
<1>2. /\ g \in Call /\ g.todo = q /\ g.at = f.at /\ g.buf = f.buf
      /\ g.quote = f.quote /\ g.blk = f.blk /\ g.stmt = f.stmt
      /\ g.exec = f.exec
  BY <1>1 DEF Call
<1> QED
  BY <1>2, Zenon DEF Good, AtRest, Scanned

(* What the line being written will add when it is read.                   *)
LEMMA LineSeen ==
  ASSUME NEW d \in Seq(Text), NEW f, Good(f), NEW p \in Text,
         NEW c, NEW o, NEW w,
         InText(f, d, p, c, o, w) \/ InCommand(f, d, p, c, o, w),
         NEW e, e = Line(Scanned(d, f), p)
  PROVE  /\ AtRest(f) /\ f.todo = <<>> /\ w = e.done /\ o = e.stmt
         /\ e.ctx \notin Quotes /\ (c = "block" <=> e.ctx = "block")
         /\ c # "eof"
<1> DEFINE s == Scanned(d, f)
<1>1. s \in State /\ (Coding(f) <=> s.ctx = "code")
  BY ScannedState, CodingState
<1>2. CASE InText(f, d, p, c, o, w)
  <2>1. e = Seen(s, p)
    <3>1. Coding(f) => ~IsSource(Trim(p))
      BY <1>2, OrdinaryLine DEF InText
    <3> QED
      BY <1>1, <3>1 DEF Line
  <2> HIDE DEF s
  <2>2. SeenAs(e, c, o, w)
    BY <1>2, <2>1 DEF InText, s
  <2> QED
    BY <1>2, <2>2 DEF InText, SeenAs, Quotes
<1>3. CASE InCommand(f, d, p, c, o, w)
  <2>1. /\ Coding(f) /\ IsSource(Trim(p)) /\ w = Sourced(s, p).done
        /\ o = <<>> /\ c = "end" /\ AtRest(f) /\ f.todo = <<>>
    BY <1>3 DEF InCommand
  <2>2. e = Sourced(s, p)
    BY <1>1, <2>1 DEF Line
  <2>3. e.stmt = <<>> /\ e.ctx = "code"
    BY <1>1, <2>1, <2>2, SourcedState
  <2> HIDE DEF s
  <2> QED
    BY <2>1, <2>2, <2>3 DEF Quotes
<1> QED
  BY <1>2, <1>3

(* The line is complete, and to be read.                                   *)
LEMMA LineWritten ==
  ASSUME NEW d \in Seq(Text), NEW f, Good(f), NEW p \in Text,
         NEW c, NEW o, NEW w,
         InText(f, d, p, c, o, w) \/ InCommand(f, d, p, c, o, w),
         NEW g, g = [f EXCEPT !.todo = <<p>>],
         NEW b, b = IF c = "block" THEN c ELSE "code"
  PROVE  Good(g) /\ Outer(g, d, <<>>, b, o, w)
<1> DEFINE e == Line(Scanned(d, f), p)
<1>1. /\ AtRest(f) /\ f.todo = <<>> /\ w = e.done /\ o = e.stmt
      /\ e.ctx \notin Quotes /\ (c = "block" <=> e.ctx = "block")
  BY LineSeen
<1>2. <<p>> \in Seq(Text)
  BY OneText
<1>3. /\ Good(g) /\ AtRest(g) /\ g.todo = <<p>>
      /\ Scanned(d, g) = Scanned(d, f)
  BY <1>1, <1>2, LinesGiven
<1>4. Line(Scanned(d, g), p) = e
  BY <1>3
<1> HIDE DEF e
<1>5. Stands(e, b, o, w)
  <2>1. b \in {"code", "block"} /\ (b = "block" <=> c = "block")
    OBVIOUS
  <2> QED
    BY <1>1, <2>1 DEF Stands
<1>6. LineDue(g, d, <<>>, b, o, w)
  BY <1>3, <1>4, <1>5 DEF LineDue
<1> QED
  BY <1>3, <1>6 DEF Outer

(* The input is complete: what is open is a statement as well.             *)
LEMMA InputEnded ==
  ASSUME NEW d \in Seq(Text), NEW f, Good(f), NEW p \in Text,
         NEW c, NEW o, NEW w,
         InText(f, d, p, c, o, w) \/ InCommand(f, d, p, c, o, w),
         NEW g, g = [f EXCEPT !.todo = Pending(p)]
  PROVE  Good(g) /\ Outer(g, d, <<>>, "eof", <<>>, Closed(w, o))
<1> DEFINE e == Line(Scanned(d, f), p)
           v == Closed(w, o)
<1>1. /\ AtRest(f) /\ f.todo = <<>> /\ w = e.done /\ o = e.stmt
      /\ e.ctx \notin Quotes
  BY LineSeen
<1>2. <<p>> \in Seq(Text) /\ Pending(p) \in Seq(Text)
  BY OneText, Joins, BlankIsToken
<1>3. /\ Good(g) /\ AtRest(g) /\ g.todo = Pending(p)
      /\ Scanned(d, g) = Scanned(d, f)
  BY <1>1, <1>2, LinesGiven
<1>4. Line(Scanned(d, g), p) = e
  BY <1>3
<1>5. v = Closed(e.done, e.stmt)
  BY <1>1
<1> HIDE DEF e, v
<1>6. Stands(e, "eof", <<>>, v)
  BY <1>1, <1>5 DEF Stands
<1>7. CASE p # <<>>
  <2>1. g.todo = <<p>>
    BY <1>3, <1>7 DEF Pending
  <2>2. LineDue(g, d, <<>>, "eof", <<>>, v)
    BY <1>3, <1>4, <1>6, <2>1 DEF LineDue
  <2> QED
    BY <1>3, <2>2 DEF Outer, v
<1>8. CASE p = <<>>
  <2>1. e = Scanned(d, f)
    <3>1. Trim(p) = <<>>
      <4>1. Len(p) = 0
        BY <1>8
      <4>2. \A a \in 1 .. Len(p) : FALSE
        BY <4>1
      <4> QED
        BY <4>2, TrimShape
    <3>2. ~IsSource(Trim(p))
      BY <3>1 DEF IsSource
    <3>3. Seen(Scanned(d, f), <<>>) = Scanned(d, f)
      BY ScannedState, SeenSteps
    <3> QED
      BY <1>8, <3>2, <3>3, Zenon DEF Line, e
  <2>2. g.todo = <<>>
    BY <1>3, <1>8 DEF Pending
  <2>3. AtEnd(g, d, <<>>, "eof", <<>>, v)
    BY <1>3, <1>6, <2>1, <2>2 DEF AtEnd
  <2> QED
    BY <1>3, <2>3 DEF Outer, v
<1> QED
  BY <1>7, <1>8

(* Two tokens, and three.                                                  *)
LEMMA TwoThree ==
  ASSUME NEW x \in Token, NEW y \in Token, NEW z \in Token
  PROVE  /\ Append(<<x>>, y) = <<x, y>>
         /\ <<x, y>> \o <<z>> = <<x, y, z>>
<1>1. <<x>> \in Seq(Token) /\ <<x, y>> \in Seq(Token)
  OBVIOUS
<1>2. <<x, y>> = Append(<<x>>, y) /\ <<x, y, z>> = Append(<<x, y>>, z)
  OBVIOUS
<1>3. Append(<<x, y>>, z) = <<x, y>> \o <<z>>
  BY <1>1, AppendIsConcat
<1> QED
  BY <1>2, <1>3

(* A source command is written.                                            *)
LEMMA SourceWritten ==
  ASSUME NEW d \in Seq(Text), NEW f, Good(f), NEW p \in Text,
         NEW c, NEW o, NEW w, InText(f, d, p, c, o, w), c = "code",
         p = <<>>, o = <<>>, NEW n \in DOMAIN Files, NEW t \in Tails,
         NEW l, l = p \o (<<"source", Blank, n>> \o t)
  PROVE  InCommand(f, d, l, "end", o, Append(w, <<"source", n>>))
<1> DEFINE s == Scanned(d, f)
           h == <<"source", Blank, n>> \o t
<1>1. l \in Text /\ IsSource(Trim(l)) /\ ArgOf(Trim(l)) = <<n>>
  <2>1. h \in Text /\ IsSource(Trim(h)) /\ ArgOf(Trim(h)) = <<n>>
    BY CommandNames
  <2> HIDE DEF h
  <2>2. <<>> \o h = h
    BY <2>1, ConcatEmptySeq DEF Text
  <2> QED
    BY <2>1, <2>2 DEF h
<1>2. s \in State /\ Seen(s, p) = s /\ (Coding(f) <=> s.ctx = "code")
  BY ScannedState, CodingState, SeenSteps
<1>3. /\ AtRest(f) /\ f.todo = <<>> /\ s.ctx = "code" /\ s.done = w
      /\ s.stmt = <<>>
  BY <1>2 DEF InText, SeenAs
<1>4. NoBlanks(SourceOf(l)) = <<"source", n>>
  <2> DEFINE none == <<>>
             a == <<"source">>
             b == <<"source", Blank>>
             k == <<"source", Blank, n>>
  <2>1. "source" \in Token /\ Blank \in Token /\ n \in Token
    BY BlankIsToken, PiecesAre DEF Token
  <2>2. none \in Text /\ a \in Text /\ b \in Text
    BY <2>1 DEF Text
  <2>3. a = Append(none, "source") /\ b = Append(a, Blank) /\ k = Append(b, n)
    OBVIOUS
  <2>4. "source" # Blank /\ n # Blank
    BY PiecesAre
  <2>5. NoBlanks(none) = none
    BY NoBlanksSteps
  <2> HIDE DEF none, a, b, k
  <2>6. NoBlanks(a) = a
    BY <2>1, <2>2, <2>3, <2>4, <2>5, NoBlanksSteps
  <2>7. NoBlanks(b) = a
    BY <2>1, <2>2, <2>3, <2>6, NoBlanksSteps
  <2>8. NoBlanks(k) = Append(a, n)
    BY <2>1, <2>2, <2>3, <2>4, <2>7, NoBlanksSteps
  <2>9. SourceOf(l) = k
    <3>1. <<"source", Blank>> \o <<n>> = k
      BY <2>1, TwoThree, Zenon DEF k
    <3> QED
      BY <1>1, <3>1, Zenon DEF SourceOf
  <2>10. Append(a, n) = <<"source", n>>
    BY <2>1, TwoThree, Zenon DEF a
  <2> QED
    BY <2>8, <2>9, <2>10
<1>5. Sourced(s, l).done = Append(w, <<"source", n>>)
  <2>1. Sourced(s, l).done
          = Append(Closed(s.done, s.stmt), NoBlanks(SourceOf(l)))
    BY <1>1, <1>2, SourcedState
  <2>2. Closed(s.done, s.stmt) = w
    BY <1>3 DEF Closed
  <2> QED
    BY <1>4, <2>1, <2>2
<1> QED
  BY <1>1, <1>2, <1>3, <1>5 DEF InCommand

(* Where a script in progress stands when its author writes.               *)
LEMMA WhereWritten ==
  ASSUME InputTyped, ScriptInv, mode = "file", Writing
  PROVE  /\ pc = "run" /\ depth > 0 /\ UNCHANGED <<mode, pc, queue, ran>>
         /\ ran \in Seq(Text) /\ pend \in Text /\ frames \in Seq(Call)
         /\ Good(frames[1]) /\ Len(frames) = 1
         /\ \/ InText(frames[1], ran, pend, ctx, open, written)
            \/ InCommand(frames[1], ran, pend, ctx, open, written)
<1>1. /\ depth = 1 /\ Top.exec = <<>> /\ Top.at = 0 /\ Top.todo = <<>>
      /\ ctx # "eof" /\ UNCHANGED <<mode, pc, queue, ran>>
  BY DEF Writing, Idle, prompt
<1>2. depth > 0 /\ Len(frames) = 1 /\ Top = frames[1]
  BY <1>1 DEF depth, Top
<1>3. /\ pc = "run" /\ ran \in Seq(Text) /\ pend \in Text
      /\ frames \in Seq(Call) /\ Good(frames[1])
      /\ Outer(frames[1], ran, pend, ctx, open, written)
  BY <1>2, StageIs
<1>4. \/ InText(frames[1], ran, pend, ctx, open, written)
      \/ InCommand(frames[1], ran, pend, ctx, open, written)
  <2> DEFINE f == frames[1]
             d == ran
             p == pend
             c == ctx
             o == open
             w == written
  <2>1. /\ Outer(f, d, p, c, o, w) /\ f.at \in {0} /\ f.todo = <<>>
        /\ c # "eof"
    BY <1>1, <1>2, <1>3
  <2> HIDE DEF f, d, p, c, o, w
  <2>2. InText(f, d, p, c, o, w) \/ InCommand(f, d, p, c, o, w)
    <3>1. \A l \in Text : <<l>> # <<>>
      OBVIOUS
    <3>2. ~LineDue(f, d, p, c, o, w) /\ ~AtEnd(f, d, p, c, o, w)
      BY <2>1, <3>1 DEF LineDue, AtEnd
    <3> QED
      BY <2>1, <3>2, RestCases
  <2> QED
    BY <2>2 DEF f, d, p, c, o, w
<1> QED
  BY <1>1, <1>2, <1>3, <1>4

(* What is added to the line leaves the call where it is.                  *)
LEMMA AddedKeeps ==
  ASSUME InputTyped, ScriptInv, mode = "file", Writing, UNCHANGED frames,
         InText(frames[1], ran, pend', ctx', open', written')
           \/ InCommand(frames[1], ran, pend', ctx', open', written')
  PROVE  ScriptInv'
<1> DEFINE g == frames[1]
<1>1. /\ pc = "run" /\ depth > 0 /\ UNCHANGED <<mode, pc, queue, ran>>
      /\ ran \in Seq(Text) /\ Good(g)
  BY WhereWritten
<1>2. frames'[1] = g /\ depth' > 0 /\ ran' \in Seq(Text)
  BY <1>1 DEF depth
<1>3. Outer(g, ran', pend', ctx', open', written')
  BY <1>1 DEF Outer
<1> HIDE DEF g
<1> QED
  BY <1>1, <1>2, <1>3, StageKept

(* The end of a line, and of the input, is given to the call.              *)
LEMMA GivenKeeps ==
  ASSUME InputTyped, ScriptInv, mode = "file", Writing,
         NEW q \in Seq(Text),
         frames' = [frames EXCEPT ![1].todo = q],
         NEW g, g = [frames[1] EXCEPT !.todo = q], Good(g),
         Outer(g, ran, pend', ctx', open', written')
  PROVE  ScriptInv'
<1>1. /\ pc = "run" /\ depth > 0 /\ UNCHANGED <<mode, pc, queue, ran>>
      /\ ran \in Seq(Text) /\ frames \in Seq(Call) /\ Len(frames) = 1
  BY WhereWritten
<1>2. frames' = [frames EXCEPT ![1] = g]
  OBVIOUS
<1>3. g \in Call /\ 1 \in 1 .. Len(frames)
  <2>1. g \in Call
    BY Zenon DEF Good
  <2> QED
    BY <1>1, <2>1
<1>4. /\ Len(frames') = Len(frames)
      /\ \A i \in 1 .. Len(frames) :
           frames'[i] = IF i = 1 THEN g ELSE frames[i]
  BY <1>1, <1>2, <1>3, ExceptSeq
<1>5. frames'[1] = g /\ depth' > 0 /\ ran' \in Seq(Text)
  BY <1>1, <1>3, <1>4 DEF depth
<1>6. Outer(g, ran', pend', ctx', open', written')
  BY <1>1
<1> QED
  BY <1>1, <1>5, <1>6, StageKept

(* Whatever is written is what the shell will have seen.                   *)
LEMMA WriteKeepsScript ==
  ASSUME InputTyped, ScriptInv, mode = "file", Write
  PROVE  ScriptInv'
<1> DEFINE f == frames[1]
           d == ran
           p == pend
           c == ctx
           o == open
           w == written
<1>1. Writing
  BY DEF Write, WriteWord, WriteLiteral, WriteComment, WriteJunk, WriteSource,
         CloseComment, NewLine, EndOfInput
<1>2. /\ d \in Seq(Text) /\ p \in Text /\ Good(f)
      /\ InText(f, d, p, c, o, w) \/ InCommand(f, d, p, c, o, w)
  BY <1>1, WhereWritten
<1>3. ASSUME NEW x \in Words, WriteWord(x) PROVE ScriptInv'
  <2> DEFINE m == Meant([done |-> w, rest |-> o], x)
  <2>1. /\ c = "code" /\ (x = "source" => NoBlanks(p) # <<>>)
        /\ pend' = p \o <<x>> /\ ctx' = "code" /\ UNCHANGED frames
        /\ written' = m.done /\ open' = m.rest
    BY <1>3 DEF WriteWord, Adds, Writes, SoFar
  <2> HIDE DEF f, d, p, c, o, w
  <2>2. InText(f, d, p, c, o, w)
    BY <1>2, <2>1 DEF InCommand
  <2>3. InText(f, d, p \o <<x>>, "code", m.rest, m.done)
    <3> HIDE DEF m
    <3>1. m = Meant([done |-> w, rest |-> o], x)
      BY DEF m
    <3> QED
      BY <1>2, <2>1, <2>2, <3>1, WordWritten
  <2> HIDE DEF m
  <2> QED
    BY <1>1, <2>1, <2>3, AddedKeeps DEF f, d
<1>4. ASSUME NEW q \in {"'", "\""}, NEW x \in Literals, WriteLiteral(q, x)
      PROVE  ScriptInv'
  <2>1. /\ c = "code" /\ pend' = p \o <<q, x, q>> /\ ctx' = "code"
        /\ UNCHANGED frames /\ written' = w /\ open' = o \o <<q, x, q>>
    BY <1>4 DEF WriteLiteral, Adds
  <2>2. q \in Quotes
    BY DEF Quotes
  <2> HIDE DEF f, d, p, c, o, w
  <2>3. InText(f, d, p, c, o, w)
    BY <1>2, <2>1 DEF InCommand
  <2>4. InText(f, d, p \o <<q, x, q>>, "code", o \o <<q, x, q>>, w)
    BY <1>2, <2>1, <2>2, <2>3, LiteralWritten
  <2> QED
    BY <1>1, <2>1, <2>4, AddedKeeps DEF f, d
<1>5. ASSUME NEW x \in Marks \cup {"/*"}, WriteComment(x) PROVE ScriptInv'
  <2> DEFINE b == IF x = "/*" THEN "block" ELSE "line"
  <2>1. /\ c = "code" /\ pend' = p \o <<x>> /\ ctx' = b
        /\ UNCHANGED frames /\ written' = w /\ open' = o
    BY <1>5 DEF WriteComment, Adds, Silently
  <2> HIDE DEF f, d, p, c, o, w
  <2>2. InText(f, d, p, c, o, w)
    BY <1>2, <2>1 DEF InCommand
  <2>3. InText(f, d, p \o <<x>>, b, o, w)
    BY <1>2, <2>1, <2>2, CommentWritten
  <2> HIDE DEF b
  <2> QED
    BY <1>1, <2>1, <2>3, AddedKeeps DEF f, d
<1>6. ASSUME NEW x \in Junk, WriteJunk(x) PROVE ScriptInv'
  <2>1. /\ c \in {"line", "block"} /\ pend' = p \o <<x>> /\ ctx' = c
        /\ UNCHANGED frames /\ written' = w /\ open' = o
    BY <1>6 DEF WriteJunk, Adds, Silently
  <2> HIDE DEF f, d, p, c, o, w
  <2>2. InText(f, d, p, c, o, w)
    BY <1>2, <2>1 DEF InCommand
  <2>3. InText(f, d, p \o <<x>>, c, o, w)
    BY <1>2, <2>1, <2>2, JunkWritten
  <2> QED
    BY <1>1, <2>1, <2>3, AddedKeeps DEF f, d
<1>7. ASSUME NEW n \in DOMAIN Files, NEW t \in Tails, WriteSource(n, t)
      PROVE  ScriptInv'
  <2> DEFINE l == p \o (<<"source", Blank, n>> \o t)
  <2>1. /\ c = "code" /\ p = <<>> /\ o = <<>>
        /\ pend' = l /\ ctx' = "end" /\ UNCHANGED frames
        /\ written' = Append(w, <<"source", n>>) /\ open' = o
    BY <1>7 DEF WriteSource, Adds
  <2> HIDE DEF f, d, p, c, o, w, l
  <2>2. InText(f, d, p, c, o, w)
    BY <1>2, <2>1 DEF InCommand
  <2>3. InCommand(f, d, l, "end", o, Append(w, <<"source", n>>))
    BY <1>2, <2>1, <2>2, SourceWritten DEF l
  <2> QED
    BY <1>1, <2>1, <2>3, AddedKeeps DEF f, d
<1>8. CASE CloseComment
  <2>1. /\ c = "block" /\ pend' = p \o <<"*/">> /\ ctx' = "code"
        /\ UNCHANGED frames /\ written' = w /\ open' = o
    BY <1>8 DEF CloseComment, Adds, Silently
  <2> HIDE DEF f, d, p, c, o, w
  <2>2. InText(f, d, p, c, o, w)
    BY <1>2, <2>1 DEF InCommand
  <2>3. InText(f, d, p \o <<"*/">>, "code", o, w)
    BY <1>2, <2>1, <2>2, CommentClosed
  <2> QED
    BY <1>1, <2>1, <2>3, AddedKeeps DEF f, d
<1>9. CASE NewLine
  <2> DEFINE b == IF c = "block" THEN c ELSE "code"
             g == [f EXCEPT !.todo = <<p>>]
  <2>1. /\ frames' = [frames EXCEPT ![1].todo = <<p>>]
        /\ pend' = <<>> /\ ctx' = b /\ written' = w /\ open' = o
    BY <1>9 DEF NewLine, Silently
  <2>2. <<p>> \in Seq(Text)
    BY <1>2, OneText
  <2>3. Good(g) /\ Outer(g, d, <<>>, b, o, w)
    <3> HIDE DEF f, d, p, c, o, w, g, b
    <3>1. /\ g = [f EXCEPT !.todo = <<p>>]
          /\ b = IF c = "block" THEN c ELSE "code"
      BY DEF g, b
    <3> QED
      BY <1>2, <3>1, LineWritten
  <2> HIDE DEF b
  <2> QED
    BY <1>1, <2>1, <2>2, <2>3, GivenKeeps
<1>10. CASE EndOfInput
  <2> DEFINE g == [f EXCEPT !.todo = Pending(p)]
  <2>1. /\ frames' = [frames EXCEPT ![1].todo = Pending(p)]
        /\ pend' = <<>> /\ ctx' = "eof" /\ written' = Closed(w, o)
        /\ open' = <<>>
    BY <1>10 DEF EndOfInput, Finishes, SoFar
  <2>2. Pending(p) \in Seq(Text)
    BY <1>2, Joins, BlankIsToken
  <2>3. Good(g) /\ Outer(g, d, <<>>, "eof", <<>>, Closed(w, o))
    <3> HIDE DEF f, d, p, c, o, w, g
    <3>1. g = [f EXCEPT !.todo = Pending(p)]
      BY DEF g
    <3> QED
      BY <1>2, <3>1, InputEnded
  <2> QED
    BY <1>1, <2>1, <2>2, <2>3, GivenKeeps
<1> QED
  BY <1>3, <1>4, <1>5, <1>6, <1>7, <1>8, <1>9, <1>10 DEF Write

(* A script begins with nothing written.                                   *)
LEMMA ScriptInit ==
  ASSUME Init
  PROVE  ScriptInv
<1> SUFFICES ASSUME mode = "file" PROVE ScriptInv
  BY DEF ScriptInv
<1> DEFINE none == <<>>
           f == Frame(none)
<1>1. /\ ran = none /\ queue = none /\ pc = "run" /\ frames = <<f>>
      /\ pend = none /\ ctx = "code" /\ open = none /\ written = none
  BY DEF Init
<1>2. none \in Seq(Text) /\ none \in Text
  BY DEF Text
<1>3. /\ f \in Call /\ f.todo = none /\ f.at = 0 /\ f.quote = "" /\ ~f.blk
      /\ f.buf = none /\ f.stmt = none /\ f.exec = none
  BY <1>2, NewCall DEF Frame
<1>4. depth > 0 /\ frames[1] = f
  BY <1>1 DEF depth
<1> HIDE DEF f
<1>5. Good(f) /\ AtRest(f)
  BY <1>3 DEF Good, AtRest, Solid
<1>6. SeenAs(Seen(Scanned(none, f), none), "code", none, none)
  <2> DEFINE s == Scanned(none, f)
  <2>1. s \in State /\ s.done = none
    BY <1>2, <1>3, <1>5, ScannedState
  <2>2. s.ctx = "code"
    BY <1>2, <1>3, <1>5, CodingState DEF Coding
  <2>3. s.stmt = none
    <3>1. s.stmt = NoBlanks(f.stmt)
      BY <1>2, <1>5, RestScanned
    <3> QED
      BY <1>3, <3>1, NoneTwice
  <2>4. Seen(s, none) = s
    BY <2>1, SeenSteps
  <2> QED
    BY <2>1, <2>2, <2>3, <2>4 DEF SeenAs
<1>7. InText(f, none, none, "code", none, none)
  BY <1>3, <1>5, <1>6 DEF InText, Ordinary
<1>8. Outer(f, none, none, "code", none, none)
  BY <1>7 DEF Outer
<1>9. Stage(frames[1])
  <2>1. Good(frames[1]) /\ Outer(frames[1], ran, pend, ctx, open, written)
    BY <1>1, <1>4, <1>5, <1>8
  <2> QED
    BY <2>1 DEF Stage
<1> QED
  BY <1>1, <1>2, <1>4, <1>9 DEF ScriptInv

(* The prompt takes no part in it, and whoever reads, scans, executes and  *)
(* writes keeps to it.                                                     *)
LEMMA ScriptStepKeeps ==
  ASSUME InputInv, ScriptInv, [Next]_vars
  PROVE  ScriptInv'
<1>1. UNCHANGED mode
  BY DEF Next, vars, Prompt, PressKey, EnterLine, Continue, NextPrompt,
         Reading, NextLine, EndLine, LastStatement, EndFile, Becomes, InScript,
         Scanning, InQuote, InBlock, OpenQuote, OpenBlock, LineComment,
         Terminator, Plain, Run, RunSql, Quit, Source, SourceFails, Executes,
         Write, WriteWord, WriteLiteral, WriteComment, WriteJunk, WriteSource,
         CloseComment, NewLine, EndOfInput, Writing
<1>2. CASE mode # "file"
  BY <1>1, <1>2 DEF ScriptInv
<1>3. CASE mode = "file"
  <2>1. InputTyped
    BY DEF InputInv
  <2>2. ~Prompt
    <3>1. pc \in {"run", "done"}
      BY <1>3 DEF InputInv, Counted
    <3> QED
      BY <1>3, <3>1 DEF Prompt, PressKey, EnterLine, Continue, NextPrompt
  <2>3. CASE Reading
    BY <1>3, <2>1, <2>3, NextLineKeepsScript, EndLineKeepsScript,
       EndFileKeepsScript DEF Reading
  <2>4. CASE Scanning
    BY <1>3, <2>1, <2>4, ScanKeepsScript
  <2>5. CASE Run
    BY <1>3, <2>1, <2>5, RunKeepsScript
  <2>6. CASE Write
    BY <1>3, <2>1, <2>6, WriteKeepsScript
  <2>7. CASE UNCHANGED vars
    BY <2>7 DEF vars, prompt, author, ScriptInv, Stage, depth
  <2> QED
    BY <2>2, <2>3, <2>4, <2>5, <2>6, <2>7 DEF Next
<1> QED
  BY <1>2, <1>3

(* What a call has made of its file is where it began, or further.         *)
LEMMA StandsBeyond ==
  ASSUME NEW d \in Seq(Text), NEW e \in State, IsPrefix(d, e.done),
         NEW c, NEW o, NEW w, Stands(e, c, o, w)
  PROVE  IsPrefix(d, w)
<1>1. e.done \in Seq(Text) /\ e.stmt \in Text
  BY StateIs
<1>2. /\ Closed(e.done, e.stmt) \in Seq(Text)
      /\ IsPrefix(e.done, Closed(e.done, e.stmt))
  BY <1>1, ClosedText
<1>3. IsPrefix(d, Closed(e.done, e.stmt))
  BY <1>1, <1>2, PrefixOfPrefix
<1> QED
  BY <1>3 DEF Stands

(* Nothing has been executed that is not written.                          *)
LEMMA OuterBeyond ==
  ASSUME NEW d \in Seq(Text), NEW f, Good(f), NEW p \in Text,
         NEW c, NEW o, NEW w, Outer(f, d, p, c, o, w)
  PROVE  IsPrefix(d, w)
<1> DEFINE s == Scanned(d, f)
<1>1. s \in State /\ IsPrefix(d, s.done) /\ s.done \in Seq(Text)
  BY ScannedState, StateIs
<1> HIDE DEF s
<1>2. ASSUME NEW l \in Text
      PROVE  Seen(s, l) \in State /\ IsPrefix(d, Seen(s, l).done)
  <2>1. Seen(s, l) \in State /\ Seen(s, l).done \in Seq(Text)
    BY <1>1, SeenSteps, StateIs
  <2>2. IsPrefix(s.done, Seen(s, l).done)
    BY <1>1, SeenKeeps
  <2> QED
    BY <1>1, <2>1, <2>2, PrefixOfPrefix
<1>3. ASSUME NEW l \in Text, IsSource(Trim(l))
      PROVE  Sourced(s, l) \in State /\ IsPrefix(d, Sourced(s, l).done)
  <2>1. /\ Sourced(s, l) \in State /\ IsPrefix(s.done, Sourced(s, l).done)
        /\ Sourced(s, l).done \in Seq(Text)
    BY <1>1, <1>3, SourcedState, StateIs
  <2> QED
    BY <1>1, <2>1, PrefixOfPrefix
<1>4. CASE InLine(f, d, p, c, o, w)
  <2> DEFINE r == SubSeq(f.raw, f.at, Len(f.raw))
  <2>1. f.at \in 1 .. Len(f.raw) + 1 /\ Stands(Seen(s, r), c, o, w)
    BY <1>4 DEF InLine, s
  <2>2. f.raw \in Text
    BY Calls DEF Good
  <2>3. r \in Text
    <3>1. Len(f.raw) \in 0 .. Len(f.raw)
      BY <2>2 DEF Text
    <3> QED
      BY <2>1, <2>2, <3>1, Between
  <2> HIDE DEF r
  <2> QED
    BY <1>2, <2>1, <2>3, StandsBeyond
<1>5. CASE LineDue(f, d, p, c, o, w)
  <2>1. PICK l \in Text : Stands(Line(s, l), c, o, w)
    BY <1>5 DEF LineDue, s
  <2>2. Line(s, l) \in State /\ IsPrefix(d, Line(s, l).done)
    BY <1>2, <1>3 DEF Line
  <2> QED
    BY <2>1, <2>2, StandsBeyond
<1>6. CASE AtEnd(f, d, p, c, o, w)
  BY <1>1, <1>6, StandsBeyond DEF AtEnd, s
<1>7. CASE InCommand(f, d, p, c, o, w)
  BY <1>3, <1>7 DEF InCommand, s
<1>8. CASE InText(f, d, p, c, o, w)
  BY <1>2, <1>8 DEF InText, SeenAs, s
<1> QED
  BY <1>4, <1>5, <1>6, <1>7, <1>8 DEF Outer

(* Waiting for a line, the shell has executed all that is written.         *)
LEMMA WaitingDone ==
  ASSUME NEW d \in Seq(Text), NEW f, Good(f), Free(f), f.at \in {0},
         f.todo = <<>>, NEW p, p = <<>>, NEW c, c # "eof", NEW o, NEW w,
         Outer(f, d, p, c, o, w)
  PROVE  w = d
<1>1. p \in Text
  BY DEF Text
<1>2. InText(f, d, p, c, o, w)
  <2>1. ~LineDue(f, d, p, c, o, w)
    <3>1. \A l \in Text : <<l>> # <<>>
      OBVIOUS
    <3> QED
      BY <3>1 DEF LineDue
  <2>2. ~InCommand(f, d, p, c, o, w)
    <3>1. ~IsSource(Trim(p))
      BY <1>1, OrdinaryLine DEF Ordinary
    <3> QED
      BY <3>1 DEF InCommand
  <2> QED
    BY <2>1, <2>2, RestCases DEF AtEnd
<1>3. Seen(Scanned(d, f), p) = Scanned(d, f)
  BY ScannedState, SeenSteps
<1>4. Scanned(d, f).done = d
  BY ScannedState DEF Free
<1> QED
  BY <1>2, <1>3, <1>4 DEF InText, SeenAs

(* What a script makes of it.                                              *)
LEMMA ScriptAsWritten ==
  ASSUME InputInv, ScriptInv, mode = "file"
  PROVE  RunAsWritten
<1>1. CASE pc = "done" /\ ran = written
  <2>1. ran \in Seq(Text)
    BY DEF ScriptInv
  <2>2. IsPrefix(ran, ran)
    BY <2>1 DEF IsPrefix
  <2> QED
    BY <1>1, <2>2 DEF RunAsWritten
<1>2. CASE depth > 0
  <2>1. InputTyped
    BY DEF InputInv
  <2>2. /\ ran \in Seq(Text) /\ pend \in Text /\ Good(frames[1])
        /\ Outer(frames[1], ran, pend, ctx, open, written)
    BY <1>2, <2>1, StageIs
  <2>3. IsPrefix(ran, written)
    BY <2>2, OuterBeyond
  <2>4. ASSUME AllRun PROVE ran = written
    <3>1. depth = 1 /\ Idle /\ Top.todo = <<>> /\ pend = <<>> /\ ctx # "eof"
      BY <1>2, <2>4 DEF AllRun
    <3>2. Top = frames[1]
      BY <3>1 DEF Top
    <3>3. Free(frames[1]) /\ frames[1].at \in {0} /\ frames[1].todo = <<>>
      BY <3>1, <3>2 DEF Idle, Free
    <3> QED
      BY <2>2, <3>1, <3>3, WaitingDone
  <2> QED
    BY <2>3, <2>4 DEF RunAsWritten
<1> QED
  BY <1>1, <1>2 DEF ScriptInv

-----------------------------------------------------------------------------
(* The prompt.  What a text means to whoever types it.                     *)
Sense == [done : Seq(Text), rest : Text]
Means == [p \in Sense \X Token |-> Meant(p[1], p[2])]
Goes(g, s, l) == g = [i \in 0 .. Len(l) |->
                        IF i = 0 THEN s ELSE Meant(g[i - 1], l[i])]

(* What each token adds.                                                   *)
LEMMA MeantIs ==
  ASSUME NEW s \in Sense
  PROVE  /\ s.done \in Seq(Text) /\ s.rest \in Text
         /\ Meant(s, Semi) = [done |-> Closed(s.done, s.rest), rest |-> <<>>]
         /\ Meant(s, Blank) = s
         /\ \A c \in Token \ {Semi, Blank} :
              Meant(s, c) = [s EXCEPT !.rest = Append(@, c)]
         /\ \A c \in Token : Meant(s, c) \in Sense
<1>1. s.done \in Seq(Text) /\ s.rest \in Text
  BY DEF Sense
<1>2. Meant(s, Semi) = [done |-> Closed(s.done, s.rest), rest |-> <<>>]
  <2>1. Semi # Blank
    BY Separators
  <2>2. ASSUME NEW c, c = Semi, c # Blank
        PROVE  Meant(s, c) = [done |-> Closed(s.done, s.rest), rest |-> <<>>]
    BY <2>2, Zenon DEF Meant, Semi
  <2> QED
    BY <2>1, <2>2
<1>3. Meant(s, Blank) = s
  <2>1. Blank # Semi
    BY Separators
  <2> QED
    BY <2>1, Zenon DEF Meant, Semi
<1>4. ASSUME NEW c \in Token \ {Semi, Blank}
      PROVE  Meant(s, c) = [s EXCEPT !.rest = Append(@, c)]
  <2>1. c # Semi /\ c # Blank
    OBVIOUS
  <2> QED
    BY <2>1, Zenon DEF Meant, Semi
<1>5. ASSUME NEW c \in Token PROVE Meant(s, c) \in Sense
  <2>1. Closed(s.done, s.rest) \in Seq(Text) /\ <<>> \in Text
    BY <1>1, ClosedText DEF Text
  <2>2. Append(s.rest, c) \in Text
    BY <1>1, Joins
  <2>3. CASE c = Semi
    <3>1. [done |-> Closed(s.done, s.rest), rest |-> <<>>] \in Sense
      BY <2>1 DEF Sense
    <3> QED
      BY <1>2, <2>3, <3>1
  <2>4. CASE c = Blank
    BY <1>3, <2>4
  <2>5. CASE c \notin {Semi, Blank}
    <3>1. [s EXCEPT !.rest = Append(@, c)] \in Sense
      BY <2>2 DEF Sense
    <3> QED
      BY <1>4, <2>5, <3>1
  <2> QED
    BY <2>3, <2>4, <2>5
<1> QED
  BY <1>1, <1>2, <1>3, <1>4, <1>5

(* It is a machine.                                                        *)
LEMMA Meaning ==
  /\ Machine(Means, Sense) /\ NoText \in Sense
  /\ \A s \in Sense, c \in Token : Means[<<s, c>>] = Meant(s, c)
<1>1. \A s \in Sense, c \in Token : Meant(s, c) \in Sense
  BY MeantIs
<1>2. <<>> \in Text /\ <<>> \in Seq(Text)
  BY DEF Text
<1> QED
  BY <1>1, <1>2 DEF Means, Machine, NoText, Sense

(* After() is what that machine makes of a text.                           *)
LEMMA AfterIs ==
  ASSUME NEW s \in Sense, NEW l \in Text
  PROVE  After(s, l) = Fold(Means, Sense, s, l)
<1> DEFINE n == Len(l)
           k == CHOOSE g : Goes(g, s, l)
<1>1. After(s, l) = k[n]
  BY Zenon DEF After, Goes
<1>2. n \in Nat /\ \A i \in 1 .. n : l[i] \in Token
  BY DEF Text
<1>3. PICK h : Follows(h, Means, Sense, s, l)
  BY Meaning, FoldPath
<1>4. /\ h \in [0 .. n -> Sense] /\ h[0] = s
      /\ \A i \in 1 .. n : h[i] = Means[<<h[i - 1], l[i]>>]
  BY <1>3 DEF Follows
<1>5. \A i \in 1 .. n : h[i] = Meant(h[i - 1], l[i])
  <2> HIDE DEF n
  <2>1. \A i \in 1 .. n : h[i - 1] \in Sense
    BY <1>2, <1>4
  <2> QED
    BY <1>2, <1>4, <2>1, Meaning
<1>6. Goes(h, s, l)
  <2> DEFINE b(i) == IF i = 0 THEN s ELSE Meant(h[i - 1], l[i])
  <2> HIDE DEF n
  <2>1. ASSUME NEW i \in 0 .. n PROVE h[i] = b(i)
    <3>1. CASE i = 0
      BY <1>4, <3>1
    <3>2. CASE i # 0
      <4>1. i \in 1 .. n
        BY <1>2, <3>2
      <4> QED
        BY <1>5, <3>2, <4>1
    <3> QED
      BY <3>1, <3>2
  <2> HIDE DEF b
  <2>2. h = [i \in 0 .. n |-> b(i)]
    BY <1>4, <2>1
  <2> QED
    BY <2>2, Zenon DEF Goes, b, n
<1>7. Goes(k, s, l)
  BY <1>6, Zenon
<1> HIDE DEF k
<1>8. k[0] = s
  <2>1. 0 \in 0 .. n
    BY <1>2
  <2> QED
    BY <1>7, <2>1, Zenon DEF Goes
<1>9. ASSUME NEW i \in 1 .. n, k[i - 1] = h[i - 1] PROVE k[i] = h[i]
  <2>1. i \in 0 .. n /\ i # 0
    OBVIOUS
  <2>2. k[i] = Meant(k[i - 1], l[i])
    BY <1>7, <2>1, Zenon DEF Goes
  <2> QED
    BY <1>5, <1>9, <2>2
<1> HIDE DEF n
<1>10. \A i \in 0 .. n : k[i] = h[i]
  <2>1. k[0] = h[0]
    BY <1>4, <1>8
  <2> QED
    BY <1>2, <1>9, <2>1, OnePassage
<1>11. k[n] = h[n]
  BY <1>2, <1>10
<1>12. h[n] = Fold(Means, Sense, s, l)
  BY <1>3, Meaning, FoldPath DEF n
<1> QED
  BY <1>1, <1>11, <1>12

(* Line by line.                                                           *)
LEMMA AfterParts ==
  ASSUME NEW s \in Sense, NEW a \in Text, NEW b \in Text
  PROVE  /\ After(s, a) \in Sense /\ After(s, a \o b) = After(After(s, a), b)
         /\ After(s, a \o <<Blank>> \o b) = After(After(s, a), b)
<1>1. \A t \in Sense, l \in Text : After(t, l) \in Sense
  BY AfterIs, Meaning, FoldSteps
<1>2. ASSUME NEW x \in Text, NEW y \in Text
      PROVE  After(s, x \o y) = After(After(s, x), y)
  <2>1. x \o y \in Text
    BY Joins, BlankIsToken
  <2>2. Fold(Means, Sense, s, x \o y)
          = Fold(Means, Sense, Fold(Means, Sense, s, x), y)
    BY Meaning, FoldParts
  <2>3. After(s, x) = Fold(Means, Sense, s, x) /\ After(s, x) \in Sense
    BY <1>1, AfterIs
  <2>4. After(s, x \o y) = Fold(Means, Sense, s, x \o y)
    BY <2>1, AfterIs
  <2>5. After(After(s, x), y) = Fold(Means, Sense, After(s, x), y)
    BY <2>3, AfterIs
  <2> QED
    BY <2>2, <2>3, <2>4, <2>5
<1>3. Append(a, Blank) = a \o <<Blank>> /\ a \o <<Blank>> \in Text
  <2>1. a \in Seq(Token) /\ Blank \in Token
    BY BlankIsToken DEF Text
  <2> QED
    BY <2>1, AppendIsConcat, Joins
<1>4. After(s, a \o <<Blank>>) = After(s, a)
  <2>1. Fold(Means, Sense, s, Append(a, Blank))
          = Means[<<Fold(Means, Sense, s, a), Blank>>]
    BY BlankIsToken, Meaning, FoldNext
  <2>2. After(s, a) = Fold(Means, Sense, s, a) /\ After(s, a) \in Sense
    BY <1>1, AfterIs
  <2>3. After(s, a \o <<Blank>>) = Fold(Means, Sense, s, Append(a, Blank))
    BY <1>3, AfterIs
  <2>4. Means[<<After(s, a), Blank>>] = After(s, a)
    BY <2>2, BlankIsToken, Meaning, MeantIs
  <2> QED
    BY <2>1, <2>2, <2>3, <2>4
<1>5. After(s, a \o <<Blank>> \o b) = After(s, a \o b)
  <2>1. After(s, (a \o <<Blank>>) \o b) = After(After(s, a), b)
    BY <1>2, <1>3, <1>4
  <2> QED
    BY <1>2, <2>1
<1> QED
  BY <1>1, <1>2, <1>5

(* How a command is cut at its semicolons.                                 *)
Uncut == [start |-> 1, stmts |-> <<>>]
Pieces(l) == [start : 1 .. Len(l) + 1, stmts : Seq(Text)]
CutOff(l, x, i) == x.stmts \o Pending(Trim(SubSeq(l, x.start, i)))
Cut(l, i, x) == IF l[i] # Semi THEN x
                ELSE [start |-> i + 1, stmts |-> CutOff(l, x, i - 1)]
Cuts(g, l) == g = [i \in 0 .. Len(l) |->
                     IF i = 0 THEN Uncut ELSE Cut(l, i, g[i - 1])]
CutSteps(h, l) ==
  /\ h \in [0 .. Len(l) -> Pieces(l)] /\ h[0] = Uncut
  /\ \A i \in 1 .. Len(l) : h[i] = Cut(l, i, h[i - 1])

(* A piece that is cut off.                                                *)
LEMMA PieceCut ==
  ASSUME NEW l \in Text, NEW x \in Pieces(l), NEW i \in 0 .. Len(l)
  PROVE  /\ SubSeq(l, x.start, i) \in Text /\ x.stmts \in Seq(Text)
         /\ Trim(SubSeq(l, x.start, i)) \in Text
         /\ CutOff(l, x, i) \in Seq(Text)
<1>1. x.start \in 1 .. Len(l) + 1 /\ x.stmts \in Seq(Text)
  BY DEF Pieces
<1>2. SubSeq(l, x.start, i) \in Text
  BY <1>1, Between
<1>3. Trim(SubSeq(l, x.start, i)) \in Text
  BY <1>2, TrimText
<1>4. Pending(Trim(SubSeq(l, x.start, i))) \in Seq(Text)
  BY <1>3, Joins, BlankIsToken
<1> QED
  BY <1>1, <1>2, <1>3, <1>4 DEF CutOff

(* Nothing is cut but at a semicolon.                                      *)
LEMMA CutIs ==
  ASSUME NEW l \in Text, NEW i \in 1 .. Len(l), NEW x \in Pieces(l)
  PROVE  /\ Cut(l, i, x) \in Pieces(l)
         /\ l[i] # Semi => Cut(l, i, x) = x
         /\ l[i] = Semi => /\ Cut(l, i, x).start = i + 1
                           /\ Cut(l, i, x).stmts = CutOff(l, x, i - 1)
<1>1. Len(l) \in Nat /\ i - 1 \in 0 .. Len(l) /\ i + 1 \in 1 .. Len(l) + 1
  BY DEF Text
<1> DEFINE c == CutOff(l, x, i - 1)
           y == [start |-> i + 1, stmts |-> c]
<1>2. c \in Seq(Text)
  BY <1>1, PieceCut
<1>3. Cut(l, i, x) = IF l[i] # Semi THEN x ELSE y
  BY DEF Cut
<1> HIDE DEF c
<1>4. y \in Pieces(l) /\ y.start = i + 1 /\ y.stmts = c
  BY <1>1, <1>2 DEF Pieces
<1> HIDE DEF y
<1> QED
  BY <1>3, <1>4 DEF c

(* Split() takes these steps.                                              *)
LEMMA SplitIs ==
  ASSUME NEW l \in Text
  PROVE  \E h : CutSteps(h, l) /\ Split(l) = CutOff(l, h[Len(l)], Len(l))
<1> DEFINE n == Len(l)
           X == Pieces(l)
           k == CHOOSE g : Cuts(g, l)
           F == [p \in (1 .. n) \X X |-> Cut(l, p[1], p[2])]
<1>1. Split(l) = CutOff(l, k[n], n)
  BY Zenon DEF Split, Cuts, CutOff, Cut, Uncut, Semi
<1>2. n \in Nat
  BY DEF Text
<1>3. \A i \in 1 .. n, x \in X : Cut(l, i, x) \in X
  BY CutIs
<1>4. Uncut \in X
  <2>1. 1 \in 1 .. n + 1 /\ <<>> \in Seq(Text)
    BY <1>2
  <2> QED
    BY <2>1 DEF Uncut, Pieces
<1> HIDE DEF n, X
<1>5. \A i \in 1 .. n, x \in X : F[<<i, x>>] = Cut(l, i, x)
  OBVIOUS
<1> HIDE DEF F
<1>6. \A i \in 1 .. n, x \in X : F[<<i, x>>] \in X
  BY <1>3, <1>5
<1>7. PICK h : Passes(h, F, X, Uncut, n)
  BY <1>2, <1>4, <1>6, Recursion
<1>8. /\ h \in [0 .. n -> X] /\ h[0] = Uncut
      /\ \A i \in 1 .. n : h[i] = Cut(l, i, h[i - 1])
  <2>1. /\ h \in [0 .. n -> X] /\ h[0] = Uncut
        /\ \A i \in 1 .. n : h[i] = F[<<i, h[i - 1]>>]
    BY <1>7 DEF Passes
  <2>2. \A i \in 1 .. n : h[i - 1] \in X
    BY <1>2, <2>1
  <2> QED
    BY <1>5, <2>1, <2>2
<1>9. CutSteps(h, l)
  BY <1>8 DEF CutSteps, n, X
<1>10. Cuts(h, l)
  <2> DEFINE b(i) == IF i = 0 THEN Uncut ELSE Cut(l, i, h[i - 1])
  <2>1. ASSUME NEW i \in 0 .. n PROVE h[i] = b(i)
    <3>1. CASE i = 0
      BY <1>8, <3>1
    <3>2. CASE i # 0
      <4>1. i \in 1 .. n
        BY <1>2, <3>2
      <4> QED
        BY <1>8, <3>2, <4>1
    <3> QED
      BY <3>1, <3>2
  <2> HIDE DEF b
  <2>2. h = [i \in 0 .. n |-> b(i)]
    BY <1>8, <2>1
  <2> QED
    BY <2>2, Zenon DEF Cuts, b, n
<1>11. Cuts(k, l)
  BY <1>10, Zenon
<1> HIDE DEF k
<1>12. k[0] = Uncut
  <2>1. 0 \in 0 .. n
    BY <1>2
  <2> QED
    BY <1>11, <2>1, Zenon DEF Cuts, n
<1>13. ASSUME NEW i \in 1 .. n, k[i - 1] = h[i - 1] PROVE k[i] = h[i]
  <2>1. i \in 0 .. n /\ i # 0
    BY <1>2
  <2>2. k[i] = Cut(l, i, k[i - 1])
    BY <1>11, <2>1, Zenon DEF Cuts, n
  <2> QED
    BY <1>8, <1>13, <2>2
<1>14. \A i \in 0 .. n : k[i] = h[i]
  <2>1. k[0] = h[0]
    BY <1>8, <1>12
  <2> QED
    BY <1>2, <1>13, <2>1, OnePassage
<1>15. k[n] = h[n]
  BY <1>2, <1>14
<1> QED
  BY <1>1, <1>9, <1>15 DEF n

(* A stretch of a text grows by a token.                                   *)
LEMMA Stretch ==
  ASSUME NEW l \in Text, NEW i \in 1 .. Len(l), NEW a \in 1 .. i
  PROVE  /\ l[i] \in Token /\ SubSeq(l, a, i - 1) \in Text
         /\ SubSeq(l, a, i) = Append(SubSeq(l, a, i - 1), l[i])
<1>1. Len(l) \in Nat /\ l[i] \in Token
  BY DEF Text
<1>2. /\ a \in 1 .. Len(l) /\ i \in a .. Len(l) /\ a \in 1 .. Len(l) + 1
      /\ i - 1 \in 0 .. Len(l)
  BY <1>1
<1>3. SubSeq(l, a, i) = SubSeq(l, a, i - 1) \o <<l[i]>>
  BY <1>2, SubSeqRecursiveSecond DEF Text
<1>4. SubSeq(l, a, i - 1) \in Text
  BY <1>2, Between
<1> QED
  BY <1>1, <1>3, <1>4, AppendIsConcat DEF Text

(* What is cut off is what has been typed since the last semicolon.        *)
LEMMA CutMeans ==
  ASSUME NEW l \in Text, NEW x \in Pieces(l), NEW i \in 0 .. Len(l),
         NEW s \in Sense, Stripped(x.stmts) = s.done,
         NoBlanks(SubSeq(l, x.start, i)) = s.rest
  PROVE  Stripped(CutOff(l, x, i)) = Closed(s.done, s.rest)
<1> DEFINE z == SubSeq(l, x.start, i)
           y == Trim(z)
<1>1. z \in Text /\ y \in Text /\ x.stmts \in Seq(Text)
  BY PieceCut
<1>2. CutOff(l, x, i) = x.stmts \o Pending(y)
  BY DEF CutOff
<1>3. NoBlanks(z) = s.rest
  OBVIOUS
<1> HIDE DEF z
<1>4. NoBlanks(y) = s.rest /\ Solid(y)
  BY <1>1, <1>3, TrimKeeps DEF Solid
<1> HIDE DEF y
<1>5. Stripped(Pending(y)) = Pending(s.rest) /\ Pending(y) \in Seq(Text)
  BY <1>1, <1>4, StrippedFew, Joins, BlankIsToken
<1>6. Stripped(x.stmts \o Pending(y)) = s.done \o Pending(s.rest)
  BY <1>1, <1>5, StrippedParts
<1>7. s.done \in Seq(Text) /\ s.rest \in Text
  BY MeantIs
<1> QED
  BY <1>2, <1>6, <1>7, ClosedText

(* Cutting and meaning agree at every token.                               *)
Agrees(l, i, x, s) ==
  /\ x.start \in 1 .. i + 1 /\ Stripped(x.stmts) = s.done
  /\ NoBlanks(SubSeq(l, x.start, i)) = s.rest

(* One token further they agree.                                           *)
LEMMA CutAgrees ==
  ASSUME NEW l \in Text, NEW i \in 1 .. Len(l), NEW x \in Pieces(l),
         NEW s \in Sense, Agrees(l, i - 1, x, s)
  PROVE  Agrees(l, i, Cut(l, i, x), Meant(s, l[i]))
<1> DEFINE c == l[i]
           y == Cut(l, i, x)
           t == Meant(s, c)
           a == x.start
<1>1. /\ Len(l) \in Nat /\ i \in Nat /\ i - 1 \in 0 .. Len(l)
      /\ c \in Token /\ i - 1 + 1 = i
  BY DEF Text
<1>2. /\ a \in 1 .. i /\ Stripped(x.stmts) = s.done
      /\ NoBlanks(SubSeq(l, a, i - 1)) = s.rest
  BY <1>1 DEF Agrees
<1>3. CASE c = Semi
  <2>1. y.start = i + 1 /\ y.stmts = CutOff(l, x, i - 1)
    BY <1>3, CutIs
  <2>2. t.done = Closed(s.done, s.rest) /\ t.rest = <<>>
    BY <1>3, MeantIs
  <2>3. Stripped(y.stmts) = t.done
    BY <1>1, <1>2, <2>1, <2>2, CutMeans
  <2>4. SubSeq(l, i + 1, i) = <<>>
    BY <1>1, SubSeqEmpty DEF Text
  <2>5. i + 1 \in 1 .. i + 1
    BY <1>1
  <2> HIDE DEF y, t
  <2>6. NoBlanks(SubSeq(l, y.start, i)) = t.rest
    BY <2>1, <2>2, <2>4, NoneTwice
  <2> QED
    BY <2>1, <2>3, <2>5, <2>6 DEF Agrees, y, t
<1>4. CASE c # Semi
  <2>1. y = x
    BY <1>4, CutIs
  <2>2. /\ SubSeq(l, a, i - 1) \in Text
        /\ SubSeq(l, a, i) = Append(SubSeq(l, a, i - 1), c)
    BY <1>2, Stretch
  <2> DEFINE z == SubSeq(l, a, i - 1)
  <2> HIDE DEF c, y, a, z
  <2>3. NoBlanks(Append(z, c)) = IF c = Blank THEN NoBlanks(z)
                                 ELSE Append(NoBlanks(z), c)
    BY <1>1, <2>2, NoBlanksSteps DEF z
  <2>4. /\ t.done = s.done
        /\ t.rest = IF c = Blank THEN s.rest ELSE Append(s.rest, c)
    <3>1. CASE c = Blank
      BY <3>1, MeantIs
    <3>2. CASE c # Blank
      <4>1. t = [s EXCEPT !.rest = Append(@, c)]
        BY <1>1, <1>4, <3>2, MeantIs
      <4> HIDE DEF t
      <4> QED
        BY <3>2, <4>1 DEF Sense
    <3> QED
      BY <3>1, <3>2
  <2>5. NoBlanks(SubSeq(l, a, i)) = t.rest
    BY <1>2, <2>2, <2>3, <2>4 DEF z
  <2>6. a \in 1 .. i + 1
    BY <1>1, <1>2
  <2> HIDE DEF t
  <2> QED
    BY <1>2, <2>1, <2>4, <2>5, <2>6 DEF Agrees, y, t, c, a
<1> QED
  BY <1>3, <1>4

(* What run() cuts a command into is what the command means.               *)
LEMMA SplitMeans ==
  ASSUME NEW l \in Text, NEW m, m = After(NoText, l)
  PROVE  /\ Split(l) \in Seq(Text)
         /\ Stripped(Split(l)) = Closed(m.done, m.rest)
<1> DEFINE n == Len(l)
<1>1. n \in Nat /\ n \in 0 .. n
  BY DEF Text
<1>2. PICK h : CutSteps(h, l) /\ Split(l) = CutOff(l, h[n], n)
  BY SplitIs
<1>3. PICK g : Follows(g, Means, Sense, NoText, l)
  BY Meaning, FoldPath
<1>4. g[n] = m
  BY <1>3, Meaning, FoldPath, AfterIs
<1>5. /\ h \in [0 .. n -> Pieces(l)] /\ h[0] = Uncut
      /\ \A i \in 1 .. n : h[i] = Cut(l, i, h[i - 1])
  BY <1>2 DEF CutSteps
<1>6. /\ g \in [0 .. n -> Sense] /\ g[0] = NoText
      /\ \A i \in 1 .. n : g[i] = Means[<<g[i - 1], l[i]>>]
  BY <1>3 DEF Follows
<1> DEFINE S == {i \in 0 .. n : Agrees(l, i, h[i], g[i])}
<1>7. 0 \in S
  <2>1. 1 \in 1 .. 0 + 1 /\ 0 \in 0 .. n
    BY <1>1
  <2>2. SubSeq(l, 1, 0) = <<>>
    BY SubSeqEmpty DEF Text
  <2>3. Stripped(<<>>) = <<>> /\ NoBlanks(<<>>) = <<>>
    BY StrippedFew, NoneTwice
  <2> HIDE DEF n
  <2>4. /\ h[0].start = 1 /\ h[0].stmts = <<>>
        /\ g[0].done = <<>> /\ g[0].rest = <<>>
    BY <1>5, <1>6 DEF Uncut, NoText
  <2>5. Agrees(l, 0, h[0], g[0])
    BY <2>1, <2>2, <2>3, <2>4, Zenon DEF Agrees
  <2> QED
    BY <2>1, <2>5
<1>8. ASSUME NEW i \in 1 .. n, i - 1 \in S PROVE i \in S
  <2>1. i - 1 \in 0 .. n /\ i \in 0 .. n /\ l[i] \in Token
    BY <1>1 DEF Text
  <2>2. h[i - 1] \in Pieces(l) /\ g[i - 1] \in Sense
    BY <1>5, <1>6, <2>1
  <2>3. g[i] = Meant(g[i - 1], l[i]) /\ h[i] = Cut(l, i, h[i - 1])
    BY <1>5, <1>6, <2>1, <2>2, Meaning
  <2>4. Agrees(l, i - 1, h[i - 1], g[i - 1])
    BY <1>8
  <2>5. Agrees(l, i, h[i], g[i])
    BY <2>2, <2>3, <2>4, CutAgrees
  <2> QED
    BY <2>1, <2>5
<1> HIDE DEF S
<1>9. n \in S
  BY <1>1, <1>7, <1>8, Along
<1>10. Agrees(l, n, h[n], g[n]) /\ h[n] \in Pieces(l) /\ g[n] \in Sense
  BY <1>1, <1>5, <1>6, <1>9 DEF S
<1> QED
  BY <1>1, <1>2, <1>4, <1>10, CutMeans, PieceCut DEF Agrees

(* At the prompt what is still to be executed is what was typed, beyond    *)
(* what was executed; between its lines, a command means what was typed.   *)
PromptInv ==
  mode = "tty" =>
    /\ queue \in Seq(Text) /\ ran \in Seq(Text)
    /\ pc # "run" => queue = <<>> /\ frames = <<>> /\ ran = <<>>
    /\ pc \in {"edit", "done"} => open = <<>> /\ written = <<>>
    /\ pc = "cont" => SoFar = After(NoText, fullCmd)
    /\ pc = "run" => open = <<>> /\ written = ran \o Stripped(queue)

(* A command begins with all of it to be executed.                         *)
LEMMA CommandKeeps ==
  ASSUME NEW l \in Text, Command(l), Finishes(After(NoText, l))
  PROVE  PromptInv'
<1> DEFINE m == After(NoText, l)
           q == Split(l)
           none == <<>>
<1>1. /\ queue' = q /\ pc' = "run" /\ ran' = none
      /\ written' = Closed(m.done, m.rest) /\ open' = none
  BY DEF Command, Finishes
<1>2. q \in Seq(Text) /\ Stripped(q) = Closed(m.done, m.rest)
  BY SplitMeans
<1>3. none \in Seq(Text) /\ Stripped(q) \in Seq(Text)
  BY <1>2, StrippedText
<1>4. none \o Stripped(q) = Stripped(q)
  BY <1>3, ConcatEmptySeq
<1> HIDE DEF m, q
<1> QED
  BY <1>1, <1>2, <1>3, <1>4 DEF PromptInv

(* A line that ends no command goes on with the next one.                  *)
LEMMA MoreKeeps ==
  ASSUME PromptInv, mode = "tty", pc \in {"edit", "cont"},
         NEW l \in Text, NEW m, m = After(NoText, l), fullCmd' = l,
         Writes(m), pc' = "cont", UNCHANGED <<queue, ran, frames>>
  PROVE  PromptInv'
<1>1. queue = <<>> /\ ran = <<>> /\ frames = <<>>
  BY DEF PromptInv
<1>2. queue \in Seq(Text) /\ ran \in Seq(Text)
  BY DEF PromptInv
<1>3. m \in Sense
  BY Meaning, AfterParts
<1>4. SoFar' = m
  <2>1. SoFar' = [done |-> m.done, rest |-> m.rest]
    BY DEF SoFar, Writes
  <2> QED
    BY <1>3, <2>1 DEF Sense
<1> QED
  BY <1>1, <1>2, <1>4 DEF PromptInv

(* A line is entered at the prompt.                                        *)
LEMMA EnterKeeps ==
  ASSUME InputInv, PromptInv, EnterLine
  PROVE  PromptInv'
<1> SUFFICES ASSUME mode = "tty" PROVE PromptInv'
  BY DEF EnterLine, PromptInv
<1> DEFINE l == TrimRight(line)
           m == After(NoText, l)
<1>1. pc = "edit" /\ l \in Text
  BY TrimmedLine DEF EnterLine, InputInv, ReaderTyped
<1>2. SoFar = NoText
  BY <1>1 DEF PromptInv, SoFar, NoText
<1>3. UNCHANGED <<mode, frames>>
  BY DEF EnterLine
<1>4. \/ UNCHANGED <<pc, fullCmd, queue, ran, written, open>>
      \/ Command(l) /\ Finishes(m)
      \/ /\ pc' = "cont" /\ fullCmd' = l /\ Writes(m)
         /\ UNCHANGED <<queue, ran>>
  BY <1>2 DEF EnterLine
<1> HIDE DEF l, m
<1>5. CASE UNCHANGED <<pc, fullCmd, queue, ran, written, open>>
  BY <1>1, <1>3, <1>5 DEF PromptInv
<1>6. CASE Command(l) /\ Finishes(m)
  BY <1>1, <1>6, CommandKeeps DEF m
<1>7. CASE /\ pc' = "cont" /\ fullCmd' = l /\ Writes(m)
           /\ UNCHANGED <<queue, ran>>
  BY <1>1, <1>3, <1>7, MoreKeeps DEF m
<1> QED
  BY <1>4, <1>5, <1>6, <1>7

(* A line is entered at the continuation prompt.                           *)
LEMMA ContinueKeeps ==
  ASSUME InputInv, PromptInv, NEW l \in ContLines, Continue(l)
  PROVE  PromptInv'
<1> SUFFICES ASSUME mode = "tty" PROVE PromptInv'
  BY DEF Continue, PromptInv
<1>1. /\ pc = "cont" /\ l \in Text /\ fullCmd \in Text
      /\ UNCHANGED <<mode, frames>>
  BY ConstantTexts DEF Continue, InputInv, InputTyped
<1>2. SoFar = After(NoText, fullCmd)
  BY <1>1 DEF PromptInv
<1>3. Joined(l) \in Text /\ After(NoText, Joined(l)) = After(SoFar, l)
  <2>1. fullCmd \o <<Blank>> \o l \in Text
    BY <1>1, Joins, BlankIsToken
  <2>2. After(NoText, fullCmd \o <<Blank>> \o l)
          = After(After(NoText, fullCmd), l)
    BY <1>1, Meaning, AfterParts
  <2> QED
    BY <1>2, <2>1, <2>2 DEF Joined
<1>4. \/ Command(fullCmd) /\ Finishes(After(NoText, fullCmd))
      \/ Command(l) /\ Finishes(After(NoText, l))
      \/ Command(Joined(l)) /\ Finishes(After(NoText, Joined(l)))
      \/ /\ pc' = "cont" /\ fullCmd' = Joined(l)
         /\ Writes(After(NoText, Joined(l))) /\ UNCHANGED <<queue, ran>>
  <2>1. \/ Command(fullCmd) /\ Finishes(SoFar)
        \/ Command(l) /\ Finishes(After(NoText, l))
        \/ Command(Joined(l)) /\ Finishes(After(SoFar, l))
        \/ /\ pc' = pc /\ fullCmd' = Joined(l)
           /\ Writes(After(SoFar, l)) /\ UNCHANGED <<queue, ran>>
    BY Zenon DEF Continue
  <2> QED
    BY <1>1, <1>2, <1>3, <2>1
<1>5. CASE Command(fullCmd) /\ Finishes(After(NoText, fullCmd))
  BY <1>1, <1>5, CommandKeeps
<1>6. CASE Command(l) /\ Finishes(After(NoText, l))
  BY <1>1, <1>6, CommandKeeps
<1>7. CASE Command(Joined(l)) /\ Finishes(After(NoText, Joined(l)))
  BY <1>3, <1>7, CommandKeeps
<1>8. CASE /\ pc' = "cont" /\ fullCmd' = Joined(l)
           /\ Writes(After(NoText, Joined(l))) /\ UNCHANGED <<queue, ran>>
  BY <1>1, <1>3, <1>8, MoreKeeps
<1> QED
  BY <1>4, <1>5, <1>6, <1>7, <1>8

(* A statement is executed, of the command or of a script it runs.         *)
LEMMA RunKeepsPrompt ==
  ASSUME PromptInv, mode = "tty", Run
  PROVE  PromptInv'
<1>1. Executes
  BY DEF Run, RunSql, Quit, SourceFails, Source
<1>2. pc = "run" /\ Due # <<>> /\ Logs /\ UNCHANGED <<mode, pc, author>>
  BY <1>1 DEF Executes
<1>3. /\ queue \in Seq(Text) /\ ran \in Seq(Text) /\ open = <<>>
      /\ written = ran \o Stripped(queue)
  BY <1>2 DEF PromptInv
<1>4. UNCHANGED <<open, written>>
  BY <1>2 DEF author
<1>5. CASE depth = 0
  <2>1. Due = queue /\ queue' = Tail(queue)
    BY <1>5 DEF Due, Run, RunSql, Quit, SourceFails, Source, Takes
  <2>2. ran' = Append(ran, NoBlanks(Head(queue)))
    BY <1>2, <1>5, <2>1, Zenon DEF Logs
  <2> DEFINE d == ran
             q == queue
             e == Append(d, NoBlanks(Head(q)))
             r == Tail(q)
  <2>3. /\ r \in Seq(Text) /\ e \in Seq(Text)
        /\ e \o Stripped(r) = d \o Stripped(q)
    BY <1>2, <1>3, <2>1, StrippedHead
  <2>4. queue' = r /\ ran' = e /\ written' = d \o Stripped(q) /\ open' = <<>>
    BY <1>3, <1>4, <2>1, <2>2
  <2> HIDE DEF d, q, e, r
  <2>5. written' = ran' \o Stripped(queue')
    BY <2>3, <2>4
  <2> QED
    BY <1>2, <2>3, <2>4, <2>5 DEF PromptInv
<1>6. CASE depth # 0
  <2>1. UNCHANGED queue
    BY <1>6 DEF Run, RunSql, Quit, SourceFails, Source, Takes
  <2>2. UNCHANGED ran
    BY <1>2, <1>6, Zenon DEF Logs
  <2>3. written' = ran' \o Stripped(queue')
    BY <1>3, <1>4, <2>1, <2>2
  <2> QED
    BY <1>2, <1>3, <1>4, <2>1, <2>2, <2>3 DEF PromptInv
<1> QED
  BY <1>5, <1>6

(* The scripts that a command runs leave the rest of it alone.             *)
LEMMA ScriptsKeepPrompt ==
  ASSUME PromptInv, mode = "tty", Reading \/ Scanning
  PROVE  PromptInv'
<1>1. /\ depth > 0
      /\ UNCHANGED <<queue, ran, open, written, mode, pc, fullCmd>>
  BY DEF Reading, NextLine, EndLine, LastStatement, EndFile, Ended, Idle,
         Becomes, InScript, prompt, author, Scanning, InQuote, InBlock,
         OpenQuote, OpenBlock, LineComment, Terminator, Plain, InCode, Scans
<1>2. pc = "run"
  <2>1. frames # <<>>
    <3>1. Len(<<>>) = 0
      OBVIOUS
    <3> QED
      BY <1>1, <3>1 DEF depth
  <2> QED
    BY <2>1 DEF PromptInv
<1> QED
  BY <1>1, <1>2 DEF PromptInv

(* Every step keeps to it.                                                 *)
LEMMA PromptStepKeeps ==
  ASSUME InputInv, PromptInv, [Next]_vars
  PROVE  PromptInv'
<1>1. UNCHANGED mode
  BY DEF Next, vars, Prompt, PressKey, EnterLine, Continue, NextPrompt,
         Reading, NextLine, EndLine, LastStatement, EndFile, Becomes, InScript,
         Scanning, InQuote, InBlock, OpenQuote, OpenBlock, LineComment,
         Terminator, Plain, Run, RunSql, Quit, Source, SourceFails, Executes,
         Write, WriteWord, WriteLiteral, WriteComment, WriteJunk, WriteSource,
         CloseComment, NewLine, EndOfInput, Writing
<1>2. CASE mode # "tty"
  BY <1>1, <1>2 DEF PromptInv
<1>3. CASE mode = "tty"
  <2>1. CASE PressKey
    <3>1. /\ pc = "edit"
          /\ UNCHANGED <<pc, frames, queue, fullCmd, open, written, ran>>
      BY <2>1 DEF PressKey, prompt
    <3> QED
      BY <1>1, <3>1 DEF PromptInv
  <2>2. CASE EnterLine
    BY <2>2, EnterKeeps
  <2>3. CASE \E l \in ContLines : Continue(l)
    BY <2>3, ContinueKeeps
  <2>4. CASE NextPrompt
    <3>1. /\ pc = "run" /\ queue = <<>> /\ frames = <<>>
          /\ pc' \in {"edit", "done"} /\ written' = <<>> /\ ran' = <<>>
          /\ UNCHANGED <<frames, queue, open>>
      BY <2>4 DEF NextPrompt, prompt
    <3>2. open = <<>>
      BY <1>3, <3>1 DEF PromptInv
    <3>3. <<>> \in Seq(Text)
      OBVIOUS
    <3> QED
      BY <3>1, <3>2, <3>3 DEF PromptInv
  <2>5. CASE Reading \/ Scanning
    BY <1>3, <2>5, ScriptsKeepPrompt
  <2>6. CASE Run
    BY <1>3, <2>6, RunKeepsPrompt
  <2>7. ~Write
    BY <1>3 DEF Write, WriteWord, WriteLiteral, WriteComment, WriteJunk,
           WriteSource, CloseComment, NewLine, EndOfInput, Writing
  <2>8. CASE UNCHANGED vars
    BY <2>8 DEF vars, prompt, author, PromptInv, SoFar
  <2> QED
    BY <2>1, <2>2, <2>3, <2>4, <2>5, <2>6, <2>7, <2>8 DEF Next, Prompt
<1> QED
  BY <1>2, <1>3

(* What was typed at the prompt.                                           *)
LEMMA PromptAsWritten ==
  ASSUME InputInv, PromptInv, mode = "tty"
  PROVE  RunAsWritten
<1>1. queue \in Seq(Text) /\ ran \in Seq(Text)
  BY DEF PromptInv
<1>2. AllRun => queue = <<>> /\ pc # "cont"
  BY DEF AllRun
<1>3. CASE pc = "run"
  <2>1. written = ran \o Stripped(queue)
    BY <1>3 DEF PromptInv
  <2>2. IsPrefix(ran, ran \o Stripped(queue))
    BY <1>1, StrippedText, PrefixOfParts
  <2>3. ASSUME queue = <<>> PROVE ran \o Stripped(queue) = ran
    BY <1>1, <2>3, StrippedFew, ConcatEmptySeq
  <2> QED
    BY <1>2, <2>1, <2>2, <2>3 DEF RunAsWritten
<1>4. CASE pc # "run"
  <2> DEFINE none == <<>>
  <2>1. ran = none
    BY <1>4 DEF PromptInv
  <2>2. written \in Seq(Text) /\ (pc # "cont" => written = none)
    <3>1. CASE pc = "cont"
      <4>1. SoFar \in Sense
        <5>1. SoFar = After(NoText, fullCmd) /\ fullCmd \in Text
          BY <3>1 DEF PromptInv, InputInv, InputTyped
        <5> QED
          BY <5>1, Meaning, AfterParts
      <4> QED
        BY <3>1, <4>1 DEF SoFar, Sense
    <3>2. CASE pc # "cont"
      <4>1. pc \in {"edit", "done"}
        BY <1>4, <3>2 DEF InputInv, InputTyped
      <4> QED
        BY <4>1 DEF PromptInv
    <3> QED
      BY <3>1, <3>2
  <2>3. IsPrefix(none, written)
    <3>1. none \in Seq(Text) /\ none \o written = written
      BY <2>2, ConcatEmptySeq
    <3> QED
      BY <2>2, <3>1, PrefixOfParts
  <2> QED
    BY <1>2, <2>1, <2>2, <2>3 DEF RunAsWritten
<1> QED
  BY <1>3, <1>4

(* The prompt begins with nothing typed.                                   *)
LEMMA PromptInit ==
  ASSUME Init
  PROVE  PromptInv
<1>1. <<>> \in Seq(Text)
  OBVIOUS
<1> QED
  BY <1>1 DEF Init, PromptInv

(* The statements executed are those written, in their order and complete, *)
(* blanks apart.  In a script no semicolon or comment mark within quotes   *)
(* cuts one and no comment and no line break loses a part of one; at the   *)
(* prompt every semicolon ends one and a comment is part of one, as run()  *)
(* has it.  None is left behind when the shell waits for more, whatever is *)
(* typed, written and sourced.                                             *)
THEOREM InputRunAsWritten == Spec => []RunAsWritten
<1>1. Init => ScriptInv /\ PromptInv
  BY ScriptInit, PromptInit
<1>2. InputInv /\ ScriptInv /\ PromptInv /\ [Next]_vars
        => ScriptInv' /\ PromptInv'
  BY ScriptStepKeeps, PromptStepKeeps
<1>3. InputInv /\ ScriptInv /\ PromptInv => RunAsWritten
  <2>1. InputInv => mode = "tty" \/ mode = "file"
    BY DEF InputInv, InputTyped
  <2> QED
    BY <2>1, ScriptAsWritten, PromptAsWritten
<1> QED
  BY <1>1, <1>2, <1>3, InputInvariant, PTL DEF Spec

=============================================================================
