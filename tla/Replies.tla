------------------------------ MODULE Replies ------------------------------
(***************************************************************************)
(* What the client is sent for a rule (executeRuleResponse and             *)
(* handleDescribe of conn_handler.go): the fields, the cells after         *)
(* template substitution (mock/template.go) in text or binary format       *)
(* (protocol/binary.go) and the command tag; and the defaults the rules    *)
(* file, the admin API and the tape give to what a rule leaves open.       *)
(*                                                                         *)
(* A rule's faults are the subject of Faults.                              *)
(***************************************************************************)
EXTENDS Matching

CONSTANTS
  Half,   \* Half[s]: half the numbers of s bytes: 2^15, 2^31 and 2^63 of 2, 4 and 8
  Exact,  \* Exact[s]: a float of s bytes is less than so many units: 2^24 and 2^53 of 4 and 8
  Units   \* Units[s]: the units there are, in halves: 1, 2, 4 and so on to 2^105 and 2^972

ASSUME WidthsAssumption ==
  /\ Half \in [{2, 4, 8} -> Nat \ {0}] /\ Exact \in [{4, 8} -> Nat \ {0}]
  /\ Units \in [{4, 8} -> SUBSET (Nat \ {0})] /\ \A s \in {4, 8} : 1 \in Units[s]

(* Of numbers, the least.                                                  *)
First(S) == CHOOSE i \in S : \A j \in S : i <= j

OIDBool   == 16
OIDBytea  == 17
OIDInt8   == 20
OIDInt2   == 21
OIDInt4   == 23
OIDText   == 25
OIDFloat4 == 700
OIDFloat8 == 701
OIDDate   == 1082
OIDStamps == {1114, 1184}
OIDUUID   == 2950

Id(name, n)   == [name |-> name, n |-> n]
Tag(words, n) == [words |-> words, n |-> n]  \* n: the count at its end
NoCount       == -1
NoId          == Id("", 0)
NoTag         == Tag(<<>>, NoCount)

(* A rule with nothing set; a cell of rows is a value.                     *)
Rule == [id |-> NoId, query |-> Text(<<>>), pattern |-> NoPattern, params |-> <<>>,
         columns |-> <<>>, types |-> <<>>, rows |-> <<>>, tag |-> NoTag, error |-> ""]

RuleType == [id : [name : Strings, n : Nat], query : TextType, params : ParamsType,
             pattern : {NoPattern} \cup {hit[1] : hit \in PatternHits}, columns : Seq(Strings), types : Seq(Int),
             rows : Seq(Seq(ValueType)), tag : [words : Seq(Strings), n : Int], error : Strings]

-----------------------------------------------------------------------------
(* Binary format.                                                          *)

MaxDays == 106751  \* the whole days in a time.Duration, 2^63 nanoseconds

(* The difference to 2000-01-01 is a Duration, and Sub saturates.          *)
Clamp(days) == IF days > MaxDays THEN MaxDays ELSE IF days < -MaxDays THEN -MaxDays ELSE days

(* What is sent: a value in size bytes, -1 for as many as its text has.    *)
Bytes(size, v) == [size |-> size, v |-> v]
ASSUME NoBytesAssumption == Nil \notin [size : Int, v : [kind : Strings, n : Int]]

(* ParseInt takes what fits; the bytes are its two's complement.           *)
AnyInt(size, v)    == v.kind = "int"  \* mutant: parsed with 64 bits, whatever the size
IsInt(size, v)     == v.kind = "int" /\ -Half[size] <= v.n /\ v.n < Half[size]
EncodeInt(size, v) == IF IsInt(size, v) THEN Bytes(size, Value("bits", v.n % (2 * Half[size]))) ELSE Bytes(-1, v)

(* ParseFloat of m halves: the multiple of the unit that is nearest, and of*)
(* two that are as near the even one.                                      *)
Rounded(unit, m) ==
  LET down == m \div unit
      rest == m % unit
  IN  unit * (IF 2 * rest < unit \/ (2 * rest = unit /\ down % 2 = 0) THEN down ELSE down + 1)

(* The finest unit that will do; without one the number is out of range.   *)
IsNumber(v) == v.kind = "int" \/ (v.kind = "half" /\ v.n % 2 = 1)
Halves(v)   == IF v.kind = "int" THEN 2 * v.n ELSE v.n
UnitsFor(size, m) ==
  {u \in Units[size] : -(Exact[size] * u) < Rounded(u, m) /\ Rounded(u, m) < Exact[size] * u}
EncodeFloat(size, v) ==
  LET units == UnitsFor(size, Halves(v))
  IN  IF IsNumber(v) /\ units # {} THEN Bytes(size, Value("float", Rounded(First(units), Halves(v)))) ELSE Bytes(-1, v)

(* kind "int": an integer; "half": n halves, n odd; "bool": true, t or yes *)
(* if n = 1; "hex": \x and digits; "date", "stamp": n days, or that many   *)
(* days' time, after 2000-01-01.  "bits", "float": in bytes, the integer of*)
(* these bits without a sign and the float of n halves.                    *)
EncodeBinaryValue(oid, v) ==
  CASE oid = OIDBool -> Bytes(1, Value("bool", IF v.kind \in {"int", "bool"} /\ v.n = 1 THEN 1 ELSE 0))
    [] oid = OIDInt2 -> EncodeInt(2, v)
    [] oid = OIDInt4 -> EncodeInt(4, v)
    [] oid = OIDInt8 -> EncodeInt(8, v)
    [] oid = OIDFloat4 -> EncodeFloat(4, v)
    [] oid = OIDFloat8 -> EncodeFloat(8, v)
    [] oid = OIDDate /\ v.kind = "date" -> Bytes(4, Value("date", Clamp(v.n)))
    [] oid \in OIDStamps /\ v.kind = "stamp" -> Bytes(8, Value("stamp", Clamp(v.n)))
    [] OTHER -> Bytes(-1, v)  \* the text, or the bytes the digits of a bytea stand for

(* The size a RowDescription announces.                                    *)
DefaultTypeSize(oid) ==
  CASE oid = OIDBool -> 1
    [] oid = OIDInt2 -> 2
    [] oid \in {OIDInt4, OIDFloat4} -> 4
    [] oid \in {OIDInt8, OIDFloat8} \cup OIDStamps -> 8
    [] oid = OIDUUID -> 16
    [] OTHER -> -1

-----------------------------------------------------------------------------
(* Fields and cells.                                                       *)

OidAt(rule, i) == IF i \in DOMAIN rule.types /\ rule.types[i] # 0 THEN rule.types[i] ELSE OIDText

(* One result format is that of all columns.                               *)
EachFormat(formats, i) == IF i \in DOMAIN formats THEN formats[i] ELSE 0  \* mutant: unless it is the only one
FormatAt(formats, i)   == IF (Len(formats) = 1 /\ formats[1] = 1) \/ (i \in DOMAIN formats /\ formats[i] = 1)
                          THEN 1 ELSE 0

Field(rule, i, format) ==
  [name |-> rule.columns[i], oid |-> OidAt(rule, i), size |-> DefaultTypeSize(OidAt(rule, i)), format |-> format]

(* handleDescribe and executeRuleResponse each have this for themselves.   *)
EachDescribed(rule, formats)   == [i \in DOMAIN rule.columns |-> Field(rule, i, EachFormat(formats, i))]
DescribedFields(rule, formats) == [i \in DOMAIN rule.columns |-> Field(rule, i, FormatAt(formats, i))]
SentFields(rule, formats)      == [i \in DOMAIN rule.columns |-> Field(rule, i, FormatAt(formats, i))]

(* The cells that are {{sequence}}, of those a reply shows.                *)
SequenceCells(rule) ==
  {c \in (DOMAIN rule.rows) \X (DOMAIN rule.columns) :
     rule.error = "" /\ c[2] \in DOMAIN rule.rows[c[1]] /\ rule.rows[c[1]][c[2]].kind = "sequence"}

(* RenderTemplate of the cell in row i, column j: {{param n}}, {{sequence}}*)
(* or any other text, where {{now}}, {{uuid}} and the like stand for what  *)
(* they yield.  drawn: the numbers drawn before.                           *)
RenderTemplate(rule, i, j, params, drawn) ==
  LET v == rule.rows[i][j]
  IN  CASE v.kind = "param" -> IF v.n \in DOMAIN params /\ params[v.n] # Nil THEN params[v.n] ELSE Null
        [] v.kind = "sequence" ->
             Value("int", drawn + Cardinality({c \in SequenceCells(rule) : c[1] < i \/ (c[1] = i /\ c[2] <= j)}))
        [] OTHER -> v

(* The cells of the reply as text; NULL and what a row lacks is SQL's NULL.*)
Texts(rule, params, drawn) ==
  [i \in DOMAIN rule.rows |-> [j \in DOMAIN rule.columns |->
     IF j \notin DOMAIN rule.rows[i] \/ rule.rows[i][j] = Null THEN Nil
     ELSE RenderTemplate(rule, i, j, params, drawn)]]

Cell(oid, format, v) ==
  IF v = Nil THEN Nil ELSE IF format = 1 THEN EncodeBinaryValue(oid, v) ELSE Bytes(-1, v)

-----------------------------------------------------------------------------
(* Defaults and replies.                                                   *)

DefaultTag(rule) == IF rule.columns # <<>> THEN Tag(<<"SELECT">>, Len(rule.rows)) ELSE Tag(<<"OK">>, NoCount)

AllText(rule)     == IF Len(rule.types) < Len(rule.columns)  \* mutant: the types that are given are lost
                     THEN [i \in DOMAIN rule.columns |-> OIDText] ELSE rule.types
FilledTypes(rule) == IF Len(rule.types) < Len(rule.columns)
                     THEN [i \in DOMAIN rule.columns |-> OidAt(rule, i)] ELSE rule.types

(* What LoadRulesFile and handleAddRule make of a rule as it is written.   *)
WithDefaults(rule, id) ==
  [rule EXCEPT !.id = IF @ = NoId THEN id ELSE @, !.tag = IF @ = NoTag THEN DefaultTag(rule) ELSE @,
               !.types = FilledTypes(rule)]

LoadRulesFile(list)      == [i \in DOMAIN list |-> WithDefaults(list[i], Id("rule", i))]
ConvertTapeToRules(list) ==
  [i \in DOMAIN list |-> [list[i] EXCEPT !.id = Id("tape", i), !.pattern = NoPattern, !.params = <<>>, !.error = ""]]
Dynamic(rule, clock)     == WithDefaults(rule, Id("rule-dyn", clock))

ColumnsCounted(rule) == IF rule.tag # NoTag THEN rule.tag ELSE Tag(<<"SELECT">>, Len(rule.columns))  \* mutant
SentTag(rule)        == IF rule.tag # NoTag THEN rule.tag ELSE DefaultTag(rule)

(* texts is history: the rows before they are encoded.                     *)
Nothing        == [kind |-> "none", fields |-> <<>>, texts |-> <<>>, rows |-> <<>>, tag |-> NoTag]
Answered(kind) == [Nothing EXCEPT !.kind = kind]

(* executeRuleResponse: an error, or fields, rows and the tag.             *)
Reply(rule, params, formats, drawn) ==
  LET fields == SentFields(rule, formats)
      texts  == IF rule.columns = <<>> THEN <<>> ELSE Texts(rule, params, drawn)
  IN  IF rule.error # "" THEN Answered("error")
      ELSE [kind |-> "done", fields |-> fields, texts |-> texts, tag |-> SentTag(rule),
            rows |-> [i \in DOMAIN texts |-> [j \in DOMAIN fields |->
                        Cell(fields[j].oid, FormatAt(formats, j), texts[i][j])]]]
=============================================================================
