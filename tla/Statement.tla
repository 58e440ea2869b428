----------------------------- MODULE Statement -----------------------------
(***************************************************************************)
(* The statements the stateful store understands                           *)
(* (internal/mock/state_store.go) and what they say about rows.  The       *)
(* regular expressions and the parsing of literals and parameters are left *)
(* out: a statement is the record they produce.  A name is what            *)
(* sanitizeName makes of it, and two values are equal if EqualFold says so.*)
(***************************************************************************)
EXTENDS Integers, FiniteSets, Sequences, SequencesExt

CONSTANTS
  Columns,    \* column names
  Values,     \* the texts a cell can hold
  NullText,   \* the text "NULL", which stands for SQL's NULL
  Generated,  \* the names col_1, col_2, ... of a table nobody declared
  NoWhere     \* no WHERE clause, or one without "="

ASSUME ValuesAssumption    == NullText \in Values
ASSUME GeneratedAssumption == Generated \in Seq(Columns)

(* findColIndex: the first column of this name, 0 if there is none.        *)
ColIndex(cols, c) ==
  IF c \in ToSet(cols) THEN CHOOSE i \in DOMAIN cols : cols[i] = c /\ \A j \in 1 .. (i - 1) : cols[j] # c
                       ELSE 0

(* evaluateWhere: column = value is compared; a clause of any other form,  *)
(* and one about a column the table does not have, holds of every row.     *)
Holds(where, cols, row) ==
  where # NoWhere /\ ColIndex(cols, where.col) \in DOMAIN row
    => row[ColIndex(cols, where.col)] = where.val

(* The rows a WHERE clause selects, by position.                           *)
Hits(where, cols, rows) == {i \in DOMAIN rows : Holds(where, cols, rows[i])}

(* The list a loop makes that goes through a list and appends the members  *)
(* at the positions I to a new one.                                        *)
Nth(I, k)      == CHOOSE i \in I : Cardinality({j \in I : j <= i}) = k
Those(list, I) == [k \in 1 .. Cardinality(I) |-> list[Nth(I, k)]]

(* An inserted row is cut or filled up to the table's columns, by position.*)
ShortRow(cols, r) == SubSeq(r, 1, IF Len(r) < Len(cols) THEN Len(r) ELSE Len(cols))  \* mutant: not filled up
FullRow(cols, r)  == [i \in 1 .. Len(cols) |-> IF i <= Len(r) THEN r[i] ELSE NullText]

(* The columns of a table that INSERT creates.                             *)
InsertColumns(st) == IF st.cols # <<>> THEN st.cols
                     ELSE IF st.rows # <<>> THEN SubSeq(Generated, 1, Len(Head(st.rows))) ELSE <<>>

(* What SET makes of a row: parseSetAssignments gives a map, and a column  *)
(* the table does not have is skipped.                                     *)
Assigned(cols, set, row) ==
  [i \in DOMAIN row |-> IF cols[i] \in DOMAIN set /\ ColIndex(cols, cols[i]) = i THEN set[cols[i]] ELSE row[i]]

(* The columns a SELECT lists, NULL for those the table does not have.     *)
Projected(cols, wanted, row) ==
  [i \in 1 .. Len(wanted) |-> IF ColIndex(cols, wanted[i]) \in DOMAIN row
                              THEN row[ColIndex(cols, wanted[i])] ELSE NullText]
=============================================================================
