----------------------------- MODULE InsertText -----------------------------
(***************************************************************************)
(* The text of an INSERT is packed into the rows of a submit message       *)
(* (EtDBConnection::query() of src/client/EtDBClient.cpp and the scanner   *)
(* and converters before it): the groups after VALUES are scanned value by *)
(* value, each value is converted by the type of its column and written    *)
(* into its slot, in network byte order.                                   *)
(*                                                                         *)
(* Bytes and digits are scaled: a byte has Byte values, a number is        *)
(* written in base Base, and a column type has the width Bytes[t] of the   *)
(* instance.  A character is a digit, a sign, a blank or another letter.   *)
(* FLOAT and DOUBLE columns are left out; what they are parsed by is only  *)
(* met where a timestamp is not the first column.                          *)
(***************************************************************************)
EXTENDS Integers, Sequences, SequencesExt, FiniteSetsExt, Sums, Numerals

CONSTANTS
  Byte, Base, (* values of a byte; what numbers are written in             *)
  Bytes,     (* Bytes[t]: the width of type t; its domain are the types    *)
  Schemas,   (* tables to choose from: sequences of [type, bytes]          *)
  Digit,     (* Digit[c]: the value of the character c, for digits         *)
  Double,    (* Double[s]: the bits of the double that the text s is       *)
             (* parsed as; 0 for texts not in its domain                   *)
  Blank, Zero, (* the blank; the byte that pads a string                   *)
  Chars,     (* what values are made of                                    *)
  Literals(_, _), (* the values that may be the i-th of group g: [form,    *)
             (* chars], form "bare", "quoted", or "mixed" when a quote     *)
             (* stands within it                                           *)
  MaxGroups, MaxData  (* bounds: groups in the text, bytes of a message    *)

Unsigned == {"UTINYINT", "UINT", "UBIGINT"}
Signed   == {"TINYINT", "INT", "BIGINT", "TIMESTAMP"}
Strings  == {"NCHAR"}
Word     == Bytes["BIGINT"]

ASSUME TextAssumption ==
  /\ {"BIGINT", "TIMESTAMP"} \subseteq DOMAIN Bytes
  /\ Bytes["TIMESTAMP"] = Word
  /\ DOMAIN Bytes \subseteq Unsigned \cup Signed \cup {"BOOL"}
  /\ \A t \in DOMAIN Bytes : Bytes[t] \in Nat \ {0} /\ Bytes[t] <= Word
  /\ "UBIGINT" \in DOMAIN Bytes => Bytes["UBIGINT"] = Word
  /\ Byte \in Nat \ {0, 2} /\ Byte % 2 = 0 /\ Base \in Nat \ {0, 1}
  /\ Schemas \subseteq Seq([type : DOMAIN Bytes \cup Strings, bytes : Nat])
  /\ \A c \in Schemas :
       /\ Len(c) > 0 /\ c[1].type = "TIMESTAMP"
       /\ \A i \in 1 .. Len(c) :
            c[i].type \in DOMAIN Bytes => c[i].bytes = Bytes[c[i].type]
  /\ MaxData \in Nat /\ MaxGroups \in Nat

(* A text has no NUL in it.                                                *)
ASSUME LiteralAssumption ==
  /\ Digit \in [DOMAIN Digit -> 0 .. Base - 1]
  /\ Double \in [DOMAIN Double -> Nat]
  /\ Zero \notin Chars
  /\ \A c \in Schemas, g \in 1 .. MaxGroups : \A i \in 1 .. Len(c) + 1 :
       Literals(g, i) \subseteq [form : {"bare", "quoted", "mixed"},
                                chars : Seq(Chars)]

VARIABLES
  columns,     (* the table's metadata                                     *)
  text,        (* the groups: [vals, end], end "closed", "comma" or "cut"  *)
               (* in the middle of its last value, where the text ends     *)
  stage,       (* "write", "pack", "packed", "refused"                     *)
  group, row,  (* the group being scanned, its slots so far                *)
  cols, rows   (* the values of the first row; the rows packed             *)

packer == <<group, row, cols, rows>>
insert == <<columns, text, stage, packer>>

InsertInit ==
  /\ columns \in Schemas /\ text = <<>> /\ stage = "write"
  /\ group = 1 /\ row = <<>> /\ cols = 0 /\ rows = <<>>

-----------------------------------------------------------------------------
(* Converters *)

Range64 == Power(Byte, Word)
Half    == Range64 \div 2

IsDigit(c) == c \in DOMAIN Digit
(* The digits a number begins with, and the sign that may precede them.    *)
Negative(s) == s # <<>> /\ s[1] = "-"
HasSign(s)  == s # <<>> /\ s[1] \in {"-", "+"}
Digits(s) ==
  LET d == IF HasSign(s) THEN Tail(s) ELSE s
      n == Max({k \in 0 .. Len(d) : \A i \in 1 .. k : IsDigit(d[i])})
  IN  SubSeq(d, 1, n)

(* The next digit is taken only when the number stays within the limit.    *)
LateCheck(acc, d, lim) == acc > lim \div Base                    \* mutant
Exceeds(acc, d, lim)   == acc > (lim - d) \div Base
Accumulated(s, lim) ==
  LET ds == Digits(s)
      acc[i \in 0 .. Len(ds)] ==
        IF i = 0 THEN 0
        ELSE IF Exceeds(acc[i - 1], Digit[ds[i]], lim) THEN lim
        ELSE acc[i - 1] * Base + Digit[ds[i]]
  IN  acc[Len(ds)]

fastAtoi64(s) == IF Negative(s) THEN -Accumulated(s, Half)
                 ELSE Accumulated(s, Half - 1)
fastAtou64(s) == IF Negative(s) THEN (-Accumulated(s, Range64 - 1)) % Range64
                 ELSE Accumulated(s, Range64 - 1)
fastTsParse(s) ==
  IF \A i \in DOMAIN s : IsDigit(s[i]) \/ s[i] = "-" THEN fastAtoi64(s) ELSE 0

(* parseDoubleSpan(), as the 64 bits it is stored in.                      *)
DoubleBits(s) == IF s \in DOMAIN Double THEN Double[s] ELSE 0

(* The bytes of a number, cut to a width, the most significant first.      *)
Network(n, w) == [i \in 1 .. w |-> (n \div Power(Byte, w - i)) % Byte]

(* storeInsertValue(): the first column is a timestamp whatever its type;  *)
(* it has no case for a timestamp elsewhere, which is stored as a double.  *)
Slot(i, type, bytes, s) ==
  IF i = 1 THEN Network(fastTsParse(s), Word)
  ELSE CASE type \in Unsigned      -> Network(fastAtou64(s), bytes)
         [] type \in Signed \ {"TIMESTAMP"} \/ type = "BOOL" ->
              Network(fastAtoi64(s), bytes)
         [] type = "TIMESTAMP"      -> Network(DoubleBits(s), bytes)
         [] type \in Strings ->
              [k \in 1 .. bytes |-> IF k <= Len(s) THEN s[k] ELSE Zero]

-----------------------------------------------------------------------------
(* The scanner *)

Trim(s) == LET k == {i \in DOMAIN s : s[i] # Blank}
           IN  IF k = {} THEN <<>> ELSE SubSeq(s, Min(k), Max(k))

(* scanInsertValue(): the trimmed span of a value.  When quotes stand      *)
(* within it the generic path builds the value in a buffer, and no span    *)
(* is set.                                                                 *)
Span(l) == IF l.form = "mixed" THEN <<>> ELSE Trim(l.chars)

(* A value that the text ends in is discarded.                             *)
Scanned(g) == IF g.end = "cut" THEN Front(g.vals) ELSE g.vals

TypeOf(i)  == IF i <= Len(columns) THEN columns[i].type ELSE "BIGINT"
BytesOf(i) == IF i <= Len(columns) THEN columns[i].bytes ELSE Word

Size(slots) == Added([i \in DOMAIN slots |-> Len(slots[i])], Len(slots))
RowBytes(n) == Added([i \in 1 .. n |-> BytesOf(i)], n)

Packing == stage = "pack" /\ UNCHANGED <<columns, text>>
Refuse  == stage' = "refused" /\ UNCHANGED packer
More    == group <= Len(text) /\ Len(row) < Len(Scanned(text[group]))
NextSlot == LET i == Len(row) + 1
            IN  Slot(i, TypeOf(i), BytesOf(i), Span(Scanned(text[group])[i]))

PackValue ==
  /\ Packing /\ More
  /\ IF Len(rows) * RowBytes(cols) + Size(row) + BytesOf(Len(row) + 1) > MaxData
     THEN Refuse                                  \* too large for one message
     ELSE row' = Append(row, NextSlot) /\ UNCHANGED <<stage, group, cols, rows>>

(* The first row sets the number of values of every row; a group without   *)
(* any ends the scan.                                                      *)
AnyCount(n) == TRUE                                              \* mutant
Fits(n) == cols = 0 \/ n = cols
EndRow ==
  /\ Packing /\ group <= Len(text) /\ ~More
  /\ IF ~Fits(Len(row)) THEN Refuse
     ELSE IF row = <<>>
     THEN group' = Len(text) + 1 /\ UNCHANGED <<stage, row, cols, rows>>
     ELSE /\ cols' = Len(row) /\ rows' = Append(rows, row) /\ row' = <<>>
          /\ group' = group + 1 /\ UNCHANGED stage

EndText ==
  /\ Packing /\ group > Len(text)
  /\ stage' = IF rows = <<>> THEN "refused" ELSE "packed"
  /\ UNCHANGED packer

-----------------------------------------------------------------------------
(* Somebody writes the statement. *)

Writing == stage = "write" /\ UNCHANGED <<columns, packer>>
Open    == text # <<>> /\ Last(text).end = "comma"

WriteGroup ==
  /\ Writing /\ ~Open /\ Len(text) < MaxGroups
  /\ text' = Append(text, [vals |-> <<>>, end |-> "comma"]) /\ UNCHANGED stage

WriteValue(l, end) ==
  /\ Writing /\ Open
  /\ Len(Last(text).vals) <= Len(columns)
  /\ text' = [text EXCEPT ![Len(text)] = [vals |-> Append(@.vals, l), end |-> end]]
  /\ stage' = IF end = "cut" THEN "pack" ELSE stage

EndOfText == Writing /\ stage' = "pack" /\ UNCHANGED text

WriteText ==
  \/ WriteGroup \/ EndOfText
  \/ Open /\ \E l \in Literals(Len(text), Len(Last(text).vals) + 1),
                 end \in {"closed", "comma", "cut"} : WriteValue(l, end)
Pack == PackValue \/ EndRow \/ EndText

-----------------------------------------------------------------------------
(* What is packed is what was written: as many rows as groups, each of as  *)
(* many values and of the same width, within the message.  Nothing of a    *)
(* value that was cut off gets into a row.                                 *)
RowsAsWritten ==
  stage = "packed" =>
    /\ Len(rows) = Len(text)
    /\ \A r \in DOMAIN rows :
         /\ Size(rows[r]) = RowBytes(cols)
         /\ text[r].end = "cut" => Len(rows[r]) = Len(text[r].vals) - 1
         /\ text[r].end # "cut" => Len(rows[r]) = Len(text[r].vals)
    /\ Added([r \in DOMAIN rows |-> Size(rows[r])], Len(rows)) <= MaxData
=============================================================================
