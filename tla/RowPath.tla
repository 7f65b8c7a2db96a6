------------------------------ MODULE RowPath ------------------------------
(***************************************************************************)
(* The way of a value from the text of an INSERT to the program that reads *)
(* it back: packed by InsertText, stored by the server, and returned in    *)
(* one of the two layouts of an answer, which EtDBResult keeps in columns  *)
(* (src/client/EtDBClient.cpp, deserialize() and what it calls): tagged    *)
(* values, each parsed into the buffer of its column, or the rows as they  *)
(* are stored, of which only addresses are computed.                       *)
(*                                                                         *)
(* The server is external: it keeps rows that match the table, in host     *)
(* byte order.  In the tagged layout it may send NULL for a value, a tag   *)
(* wider than the column, or something that is no such value.              *)
(***************************************************************************)
EXTENDS InsertText

VARIABLES
  image,      (* the stored rows: per column a number, or the bytes        *)
  layout,     (* "none", "raw", "tagged"                                   *)
  wire,       (* the tagged values to come: [tag, v]                       *)
  ri, ci,     (* row and column of the next one                            *)
  pool, offs, (* per column: the cells or the characters; the prefix       *)
              (* offsets of a string column                                *)
  nulls,      (* nullBits: the cells, as <<row, column>>                   *)
  error

result  == <<layout, wire, ri, ci, pool, offs, nulls, error>>
rowVars   == <<insert, image, result>>

Columns == DOMAIN columns
NoCells == [c \in Columns |-> <<>>]
Starts  == [c \in Columns |-> <<0>>]

RowInit ==
  /\ InsertInit
  /\ image = <<>> /\ layout = "none" /\ wire = <<>> /\ ri = 1 /\ ci = 1
  /\ pool = NoCells /\ offs = Starts /\ nulls = {} /\ error = FALSE

-----------------------------------------------------------------------------
(* Numbers *)

ToSigned(n, w) == LET r == Power(Byte, w)
                  IN  IF n >= r \div 2 THEN n - r ELSE n
FromNetwork(bs) == Number(bs, Byte)
Host(n, w)      == [i \in 1 .. w |-> (n \div Power(Byte, i - 1)) % Byte]
FromHost(bs)    == Number(Reverse(bs), Byte)

(* putSigned(), putUnsigned(): into the range of the slot. *)
Clamp(v, low, high) == IF v < low THEN low ELSE IF v > high THEN high ELSE v
putSigned(v, w) ==
  LET r == Power(Byte, w)
  IN  Host(Clamp(v, -(r \div 2), r \div 2 - 1) % r, w)
putUnsigned(v, w) == Host(Clamp(v, 0, Power(Byte, w) - 1), w)

(* colTypeStore() *)
Rep(type)   == CASE type \in Strings  -> "string"
                 [] type \in Unsigned -> "uint"
                 [] type \in Signed   -> "int"
                 [] type = "BOOL"     -> "bool"
Width(type) == Bytes[type]

(* A Value: <<"null">>, or what it holds and as what.                      *)
Null      == <<"null">>
Int64(v)    == <<"int", v>>
UInt64(v) == <<"uint64", v>>
Bool(b)   == <<"bool", b>>
Str(s)    == <<"string", s>>

-----------------------------------------------------------------------------
(* The server stores the rows of a message that match the table. *)

Matches(r) == Len(r) = Len(columns)
StoredRow(r) ==
  [c \in Columns |-> IF Rep(columns[c].type) = "string" THEN r[c]
                     ELSE Host(FromNetwork(r[c]), Len(r[c]))]

Store ==
  /\ stage = "packed" /\ \A r \in DOMAIN rows : Matches(rows[r])
  /\ stage' = "stored"
  /\ image' = [r \in DOMAIN rows |-> StoredRow(rows[r])]
  /\ UNCHANGED <<columns, text, packer, result>>

(* The raw layout: the block is kept as it is. *)
ReturnRaw ==
  /\ stage = "stored" /\ layout = "none"
  /\ layout' = "raw"
  /\ UNCHANGED <<insert, image, wire, ri, ci, pool, offs, nulls, error>>

(* A slot without its padding. *)
Trimmed(s) == SubSeq(s, 1, Max({0} \cup {i \in DOMAIN s : s[i] # Zero}))
Untrimmed(s) == s                                                \* mutant
Unpadded(s)  == Trimmed(s)

(* What the slot of a column holds. *)
Held(r, c) ==
  LET type == columns[c].type
      n    == FromHost(image[r][c])
  IN  CASE Rep(type) = "string" -> Trimmed(image[r][c])
        [] Rep(type) = "uint"   -> n
        [] Rep(type) \in {"int", "bool"} -> ToSigned(n, Len(image[r][c]))

(* The tags the server may send a value under. *)
Tags(type) == CASE Rep(type) = "string" -> {"STRING"}
                [] Rep(type) = "uint"   -> {type, "UBIGINT"}
                [] Rep(type) = "int"    -> {type, "BIGINT"} \ {"TIMESTAMP"}
                [] Rep(type) = "bool"   -> {"BOOL"}

ReturnTagged ==
  /\ stage = "stored" /\ layout = "none"
  /\ layout' = "tagged"
  /\ offs' = Starts /\ pool' = NoCells /\ nulls' = {} /\ ri' = 1 /\ ci' = 1
  /\ UNCHANGED <<insert, image, wire, error>>

(* The bytes of a tagged value. *)
Encoded(tag, v) == CASE tag = "STRING" -> v
                     [] tag = "BOOL"   -> <<IF v # 0 THEN 1 ELSE 0>>
                     [] OTHER          -> Network(v, Bytes[tag])

(* parseWireValue(): the signed and the unsigned view of a number.         *)
Parsed(tag, bs) ==
  LET n == FromNetwork(bs)
      s == ToSigned(n, Len(bs))
      b == IF n # 0 THEN 1 ELSE 0
  IN  CASE tag = "BOOL" -> [i |-> b, u |-> b, isU |-> FALSE]
        [] tag = "BIGINT" -> [i |-> s, u |-> Clamp(s, 0, s), isU |-> FALSE]
        [] tag = "UBIGINT" -> [i |-> Clamp(n, 0, Half - 1), u |-> n, isU |-> TRUE]
        [] tag \in Unsigned \ {"UBIGINT"} -> [i |-> n, u |-> n, isU |-> TRUE]
        [] tag \in Signed \ {"BIGINT"} -> [i |-> s, u |-> s % Range64, isU |-> FALSE]

-----------------------------------------------------------------------------
(* storeValue() *)

Cell(c, w) ==
  LET type == columns[c].type
  IN  CASE Rep(type) = "int"  -> putSigned(w.i, Width(type))
        [] Rep(type) = "uint" -> putUnsigned(IF w.isU THEN w.u ELSE Clamp(w.i, 0, w.i),
                                             Width(type))
        [] Rep(type) = "bool" -> <<IF (IF w.isU THEN w.u ELSE w.i) # 0 THEN 1 ELSE 0>>

Receiving == layout = "tagged" /\ ~error /\ ri <= Len(image)
             /\ UNCHANGED <<insert, image, layout, wire>>
Advance   == IF ci = Len(columns) THEN ri' = ri + 1 /\ ci' = 1
             ELSE ci' = ci + 1 /\ UNCHANGED ri

StoreNull ==
  /\ Receiving
  /\ nulls' = nulls \cup {<<ri, ci>>}
  /\ IF Rep(columns[ci].type) = "string"
     THEN offs' = [offs EXCEPT ![ci] = Append(@, Last(@))] /\ UNCHANGED pool
     ELSE /\ pool' = [pool EXCEPT ![ci] =
                        Append(@, [i \in 1 .. Width(columns[ci].type) |-> 0])]
          /\ UNCHANGED offs
  /\ Advance /\ UNCHANGED error

StoreString ==
  /\ Receiving /\ Rep(columns[ci].type) = "string"
  /\ LET s == Encoded("STRING", Held(ri, ci))
     IN  /\ pool' = [pool EXCEPT ![ci] = @ \o s]
         /\ offs' = [offs EXCEPT ![ci] = Append(@, Len(pool[ci]) + Len(s))]
  /\ Advance /\ UNCHANGED <<nulls, error>>

StoreNumber(tag) ==
  /\ Receiving /\ Rep(columns[ci].type) # "string"
  /\ tag \in Tags(columns[ci].type)
  /\ pool' = [pool EXCEPT ![ci] =
                Append(@, Cell(ci, Parsed(tag, Encoded(tag, Held(ri, ci)))))]
  /\ Advance /\ UNCHANGED <<offs, nulls, error>>

(* A string for a number or the reverse, an unknown tag, or the end of the *)
(* answer: all of it is given up.                                          *)
Malformed ==
  /\ Receiving
  /\ error' = TRUE
  /\ pool' = NoCells /\ offs' = Starts /\ nulls' = {} /\ ri' = 1 /\ ci' = 1

StoreValue == StoreNull \/ StoreString \/ Malformed
              \/ \E tag \in DOMAIN Bytes : StoreNumber(tag)

-----------------------------------------------------------------------------
(* What the program reads *)

Complete == layout = "raw" \/ (layout = "tagged" /\ ~error /\ ri > Len(image))

isNull(r, c) == <<r, c>> \in nulls

(* rawSlotValue() *)
RawValue(r, c) ==
  LET type == columns[c].type
      n    == FromHost(image[r][c])
  IN  CASE type \in Strings   -> Str(Unpadded(image[r][c]))
        [] type = "UBIGINT"   -> UInt64(n)
        [] type \in Unsigned \ {"UBIGINT"} -> Int64(n)
        [] type = "BOOL"      -> Bool(n # 0)
        [] type \in Signed    -> Int64(ToSigned(n, Width(type)))

stringValue(r, c) == SubSeq(pool[c], offs[c][r] + 1, offs[c][r + 1])

(* get() *)
TaggedValue(r, c) ==
  LET type == columns[c].type
      n    == FromHost(pool[c][r])
  IN  CASE isNull(r, c)          -> Null
        [] ~isNull(r, c) /\ Rep(type) = "string" -> Str(stringValue(r, c))
        [] ~isNull(r, c) /\ Rep(type) = "int"  -> Int64(ToSigned(n, Width(type)))
        [] ~isNull(r, c) /\ Rep(type) = "uint" ->
             IF type = "UBIGINT" THEN UInt64(n) ELSE Int64(n)
        [] ~isNull(r, c) /\ Rep(type) = "bool" -> Bool(n # 0)

get(r, c) == IF layout = "raw" THEN RawValue(r, c) ELSE TaggedValue(r, c)

(* column<T>(): the raw layout is copied into columns when first asked.    *)
RawColumn(c) ==
  IF Rep(columns[c].type) = "string"
  THEN FlattenSeq([r \in DOMAIN image |-> Unpadded(image[r][c])])
  ELSE [r \in DOMAIN image |-> image[r][c]]
Column(c) == IF layout = "raw" THEN RawColumn(c) ELSE pool[c]

RowNext == \/ (WriteText \/ Pack) /\ UNCHANGED <<image, result>>
           \/ Store \/ ReturnRaw \/ ReturnTagged \/ StoreValue

RowSpec == RowInit /\ [][RowNext]_rowVars

-----------------------------------------------------------------------------
(* A value that fits its column comes back as it was written, through      *)
(* every layout and under every tag: numbers digit by digit, those beyond  *)
(* 64 bits as the nearest that fits, strings up to the size of their column*)
(* and without the blanks at their ends.  Two values are exceptions: one   *)
(* with a quote within it comes back as nothing, and a timestamp beyond    *)
(* the first column as the bits of a double.                               *)
ValueOf(s) ==    \* the number that digits with a sign stand for
  LET d == IF HasSign(s) THEN Tail(s) ELSE s
      n == Added([i \in DOMAIN d |-> Digit[d[i]] * Power(Base, Len(d) - i)],
                 Len(d))
  IN  IF Negative(s) THEN -n ELSE n
(* A number of a type: a timestamp is not written with a plus.             *)
IsNumber(type, s) ==
  /\ Digits(s) # <<>> /\ Len(s) = Len(Digits(s)) + (IF HasSign(s) THEN 1 ELSE 0)
  /\ type = "TIMESTAMP" => s[1] # "+"

Lowest(type)  == IF type \in Unsigned THEN 0 ELSE -(Power(Byte, Bytes[type]) \div 2)
Highest(type) == IF type \in Unsigned THEN Power(Byte, Bytes[type]) - 1
                 ELSE Power(Byte, Bytes[type]) \div 2 - 1
Claimed(type, n) == \/ n \in Lowest(type) .. Highest(type)
                    \/ Bytes[type] = Word /\ (type \in Signed \/ n >= 0)

Means(type, bytes, s) ==
  CASE type \in Strings -> Str(SubSeq(s, 1, IF Len(s) < bytes THEN Len(s) ELSE bytes))
    [] type = "BOOL"    -> Bool(ValueOf(s) # 0)
    [] type = "UBIGINT" -> UInt64(Clamp(ValueOf(s), 0, Highest(type)))
    [] OTHER            -> Int64(Clamp(ValueOf(s), Lowest(type), Highest(type)))

ReadsBack ==
  Complete => \A r \in DOMAIN image, c \in Columns :
    LET type == columns[c].type
        l    == text[r].vals[c]
        s    == Trim(l.chars)
    IN  (/\ l.form # "mixed" /\ ~isNull(r, c)
         /\ type = "TIMESTAMP" => c = 1
         /\ type \notin Strings => IsNumber(type, s) /\ Claimed(type, ValueOf(s)))
        => get(r, c) = Means(type, columns[c].bytes, s)

(* Both layouts show the same rows, also where a value was cut to its slot,*)
(* and a whole column has the cells that get() returns one by one.         *)
LayoutsAgree ==
  Complete => \A r \in DOMAIN image, c \in Columns :
    /\ ~isNull(r, c) => get(r, c) = RawValue(r, c)
    /\ Rep(columns[c].type) \in {"int", "uint"} /\ ~isNull(r, c) =>
         get(r, c)[2] = LET n == FromHost(Column(c)[r])
                        IN  IF Rep(columns[c].type) = "int"
                            THEN ToSigned(n, Len(Column(c)[r])) ELSE n
=============================================================================
