------------------------------- MODULE Tables -------------------------------
(***************************************************************************)
(* What the stateful store promises (state_store.go:19, README.md:241-249):*)
(* tables of rows, changed by one statement at a time.  Store implements   *)
(* it with row slices that tables and running SELECTs point to.            *)
(***************************************************************************)
EXTENDS Statement

CONSTANT Statements

VARIABLE db  \* db[n]: the columns and rows of table n; not every name has one

Put(n, t) == db' = [m \in DOMAIN db \cup {n} |-> IF m = n THEN t ELSE db[m]]

Create(st)   == st.op = "create" /\ Put(st.table, [cols |-> st.cols, rows |-> <<>>])
Drop(st)     == st.op = "drop" /\ db' = [m \in DOMAIN db \ {st.table} |-> db[m]]
Truncate(st) == st.op = "truncate" /\ st.table \in DOMAIN db /\ Put(st.table, [db[st.table] EXCEPT !.rows = <<>>])

(* An unknown table is created; a known one ignores the column list.       *)
Insert(st) ==
  /\ st.op = "insert"
  /\ LET old == IF st.table \in DOMAIN db THEN db[st.table] ELSE [cols |-> InsertColumns(st), rows |-> <<>>]
     IN  Put(st.table, [old EXCEPT !.rows = @ \o [i \in DOMAIN st.rows |-> FullRow(old.cols, st.rows[i])]])

Update(st) ==
  /\ st.op = "update" /\ st.table \in DOMAIN db
  /\ LET cols == db[st.table].cols
     IN  Put(st.table, [db[st.table] EXCEPT !.rows =
                          [i \in DOMAIN @ |-> IF Holds(st.where, cols, @[i])
                                              THEN Assigned(cols, st.set, @[i]) ELSE @[i]]])

Delete(st) ==
  /\ st.op = "delete" /\ st.table \in DOMAIN db
  /\ LET cols == db[st.table].cols
     IN  Put(st.table, [db[st.table] EXCEPT !.rows = Those(@, DOMAIN @ \ Hits(st.where, cols, @))])

Next == \E st \in Statements :
          Create(st) \/ Drop(st) \/ Truncate(st) \/ Insert(st) \/ Update(st) \/ Delete(st)

Spec == db = [n \in {} |-> <<>>] /\ [][Next]_db
=============================================================================
