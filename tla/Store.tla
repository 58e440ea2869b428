------------------------------- MODULE Store -------------------------------
(***************************************************************************)
(* The stateful table store (StateStore.MatchAndExecute) under concurrent  *)
(* sessions.                                                               *)
(*                                                                         *)
(* A statement that takes the write lock once is one step, except UPDATE,  *)
(* which overwrites the cells of the rows in place, one after the other,   *)
(* while a session that has got the same rows from a SELECT * and released *)
(* its lock reads them into its replies (conn_handler.go).  That is a data *)
(* race: a string is two words, so a cell that is being overwritten reads  *)
(* as the old text, the new one or neither (Torn).  SELECT looks the table *)
(* up under one read lock and scans it under another.                      *)
(*                                                                         *)
(* A row is a slice that is allocated once, in `cells`; a table is an      *)
(* object in `objs` and the map `tables` points to it.                     *)
(***************************************************************************)
EXTENDS Statement

CONSTANTS
  TableNames,
  Statements,     \* what clients send
  Sessions,
  MaxStatements,  \* bound: calls of MatchAndExecute
  Torn,           \* what a half-written cell reads as, besides its old and its new text
  NoTable         \* the content of a name that has no table

ASSUME TornAssumption  == Torn \notin Values
ASSUME BoundAssumption == MaxStatements \in Nat
ASSUME NoTableAssumption == NoTable \notin [cols : Seq(Columns), rows : Seq(Seq(Values \cup {Torn}))]

(* A statement names a table and holds names and texts; Generated has a    *)
(* name for every value of an INSERT that lists no columns.                *)
ASSUME StatementsAssumption ==
  \A st \in Statements :
    /\ st.table \in TableNames /\ st.cols \in Seq(Columns) /\ st.rows \in Seq(Seq(Values))
    /\ DOMAIN st.set \subseteq Columns /\ \A c \in DOMAIN st.set : st.set[c] \in Values
    /\ st.cols = <<>> /\ st.rows # <<>> => Len(Head(st.rows)) <= Len(Generated)

VARIABLES
  tables,  \* StateStore.tables: name -> index in objs
  objs,    \* every InMemTable allocated: its columns and the rows it points to
  cells,   \* every row slice allocated
  update,  \* the UPDATE that holds the lock
  call,    \* call[s]: the SELECT of s
  count,   \* calls so far
  seen     \* history: seen[s]: what the table s selects from has contained meanwhile

store == <<tables, objs, cells, update>>
vars  == <<store, call, count, seen>>

NoUpdate == [on |-> FALSE, obj |-> 0, before |-> <<>>, todo |-> {}, half |-> {}, set |-> <<>>]
NoCall   == [pc |-> "idle", st |-> <<>>, obj |-> 0, cols |-> <<>>, rows |-> <<>>, view |-> <<>>, sent |-> <<>>]

Unlocked == ~update.on

Contents(slices) == [i \in DOMAIN slices |-> cells[slices[i]]]

(* The rows of an object as those see them who hold the lock.              *)
RowsOf(o) == IF update.on /\ update.obj = o THEN update.before ELSE Contents(objs[o].rows)
Table(o)  == [cols |-> objs[o].cols, rows |-> RowsOf(o)]

Db == [n \in DOMAIN tables |-> Table(tables[n])]

Content(n, d) == IF n \in DOMAIN d THEN d[n] ELSE NoTable

Init ==
  /\ tables = [n \in {} |-> 0]
  /\ objs = <<>>
  /\ cells = <<>>
  /\ update = NoUpdate
  /\ call = [s \in Sessions |-> NoCall]
  /\ count = 0
  /\ seen = [s \in Sessions |-> {}]

-----------------------------------------------------------------------------
(* Statements that change the tables.                                      *)

Call(st, op) == st.op = op /\ Unlocked /\ count < MaxStatements /\ count' = count + 1

Point(n, o) == tables' = [m \in DOMAIN tables \cup {n} |-> IF m = n THEN o ELSE tables[m]]

(* A table of this name is replaced, IF NOT EXISTS or not.                 *)
Create(st) ==
  /\ Call(st, "create")
  /\ objs' = Append(objs, [cols |-> st.cols, rows |-> <<>>])
  /\ Point(st.table, Len(objs) + 1)
  /\ UNCHANGED <<cells, update, call>>

Drop(st) ==
  /\ Call(st, "drop")
  /\ tables' = [m \in DOMAIN tables \ {st.table} |-> tables[m]]
  /\ UNCHANGED <<objs, cells, update, call>>

(* No error without such a table.                                          *)
Truncate(st) ==
  /\ Call(st, "truncate")
  /\ objs' = IF st.table \in DOMAIN tables THEN [objs EXCEPT ![tables[st.table]].rows = <<>>] ELSE objs
  /\ UNCHANGED <<tables, cells, update, call>>

(* The row slices an INSERT of n rows appends.                             *)
OneSlice(n)  == [i \in 1 .. n |-> Len(cells) + 1]  \* mutant: fullRow is allocated before the loop
NewSlices(n) == [i \in 1 .. n |-> Len(cells) + i]

(* RETURNING shows the columns and values of the INSERT itself.            *)
Insert(st) ==
  /\ Call(st, "insert")
  /\ LET known == st.table \in DOMAIN tables
         o     == IF known THEN tables[st.table] ELSE Len(objs) + 1
         old   == IF known THEN objs[o] ELSE [cols |-> InsertColumns(st), rows |-> <<>>]
         new   == [old EXCEPT !.rows = @ \o NewSlices(Len(st.rows))]
     IN  /\ objs' = IF known THEN [objs EXCEPT ![o] = new] ELSE Append(objs, new)
         /\ Point(st.table, o)
         /\ cells' = cells \o [i \in DOMAIN st.rows |-> FullRow(old.cols, st.rows[i])]
  /\ UNCHANGED <<update, call>>

(* The rows that stay go into a new slice of rows.                         *)
Delete(st) ==
  /\ Call(st, "delete")
  /\ st.table \in DOMAIN tables
  /\ objs' = [objs EXCEPT ![tables[st.table]].rows =
                Those(@, DOMAIN @ \ Hits(st.where, objs[tables[st.table]].cols, Contents(@)))]
  /\ UNCHANGED <<tables, cells, update, call>>

(* UPDATE, DELETE and SELECT of a table that does not exist: error 42P01.  *)
Missing(st) ==
  /\ st.op \in {"update", "delete", "select"}
  /\ Call(st, st.op)
  /\ st.table \notin DOMAIN tables
  /\ UNCHANGED <<store, call>>

(* The cells an UPDATE stores: of every row that satisfies WHERE those of  *)
(* the columns it sets.                                                    *)
Targets(o, st) ==
  {<<objs[o].rows[i], ColIndex(objs[o].cols, c)>> :
     i \in Hits(st.where, objs[o].cols, RowsOf(o)), c \in DOMAIN st.set \cap ToSet(objs[o].cols)}
Stored(cols, set) == [i \in {ColIndex(cols, c) : c \in DOMAIN set} |->
                        set[CHOOSE c \in DOMAIN set : ColIndex(cols, c) = i]]

BeginUpdate(st) ==
  /\ Call(st, "update")
  /\ st.table \in DOMAIN tables
  /\ LET o == tables[st.table]
     IN  update' = [on |-> TRUE, obj |-> o, before |-> RowsOf(o), todo |-> Targets(o, st), half |-> {},
                    set |-> Stored(objs[o].cols, st.set)]
  /\ UNCHANGED <<tables, objs, cells, call>>

(* The rows are stored in their order, the cells of a row in the order of  *)
(* a Go map, which is any.  The first word of a string ...                 *)
StoreHalf ==
  /\ update.half = {}
  /\ \E t \in update.todo :
       /\ \A u \in update.todo : t[1] <= u[1]
       /\ cells' = [cells EXCEPT ![t[1]][t[2]] = Torn]
       /\ update' = [update EXCEPT !.half = {t}, !.todo = @ \ {t}]
  /\ UNCHANGED <<tables, objs, call, count>>

(* ... and the second.                                                     *)
StoreRest ==
  /\ \E t \in update.half : cells' = [cells EXCEPT ![t[1]][t[2]] = update.set[t[2]]]
  /\ update' = [update EXCEPT !.half = {}]
  /\ UNCHANGED <<tables, objs, call, count>>

EndUpdate ==
  /\ update.on /\ update.todo = {} /\ update.half = {}
  /\ update' = NoUpdate
  /\ UNCHANGED <<tables, objs, cells, call, count>>

-----------------------------------------------------------------------------
(* SELECT by session s.                                                    *)

Lookup(s, st) ==
  /\ call[s].pc = "idle"
  /\ Call(st, "select")
  /\ st.table \in DOMAIN tables
  /\ call' = [call EXCEPT ![s] = [NoCall EXCEPT !.pc = "found", !.st = st, !.obj = tables[st.table]]]
  /\ UNCHANGED store

(* The object found before is scanned, whatever the name means by now.  A  *)
(* list of columns or a COUNT copies the cells; SELECT * keeps the slices. *)
Selected(s, slices) ==
  LET st   == call[s].st
      cols == objs[call[s].obj].cols
      hit  == Those(slices, Hits(st.where, cols, Contents(slices)))
  IN  [call[s] EXCEPT !.pc = "send",
         !.cols = IF st.cols = <<>> THEN cols ELSE st.cols,
         !.rows = IF st.cols = <<>> THEN hit ELSE <<>>,
         !.view = [i \in DOMAIN hit |-> IF st.cols = <<>> THEN cells[hit[i]]
                                        ELSE Projected(cols, st.cols, cells[hit[i]])]]

ScanUnlocked(s) ==  \* mutant: the rows are scanned without the lock
  /\ call[s].pc = "found"
  /\ call' = [call EXCEPT ![s] = Selected(s, objs[call[s].obj].rows)]
  /\ UNCHANGED <<store, count>>

Scan(s) ==
  /\ call[s].pc = "found"
  /\ Unlocked
  /\ call' = [call EXCEPT ![s] = Selected(s, objs[call[s].obj].rows)]
  /\ UNCHANGED <<store, count>>

(* executeRuleResponse of a SELECT * reads the next cell from the slice.   *)
SendCell(s) ==
  LET width == Len(call[s].cols)
      next  == Len(call[s].sent)
  IN  /\ call[s].pc = "send"
      /\ next < width * Len(call[s].rows)
      /\ call' = [call EXCEPT ![s].sent =
                    Append(@, cells[call[s].rows[next \div width + 1]][(next % width) + 1])]
      /\ UNCHANGED <<store, count>>

(* All is sent, or nothing was going to be: a Describe wants the columns.  *)
Finish(s) ==
  /\ call[s].pc = "send"
  /\ call' = [call EXCEPT ![s] = NoCall]
  /\ UNCHANGED <<store, count>>

-----------------------------------------------------------------------------
Write(st) == Create(st) \/ Drop(st) \/ Truncate(st) \/ Insert(st) \/ Delete(st) \/ Missing(st) \/ BeginUpdate(st)

Select(s) == (\E st \in Statements : Lookup(s, st)) \/ Scan(s) \/ SendCell(s) \/ Finish(s)

(* History: what the name s selects from contains after the step.          *)
Watch ==
  seen' = [s \in Sessions |->
             IF call'[s].pc = "idle" THEN {}
             ELSE seen[s] \cup {Content(call'[s].st.table, Db')}]

(* Every statement has been answered.                                      *)
Rest == Unlocked /\ (\A s \in Sessions : call[s].pc = "idle") /\ UNCHANGED vars

Next ==
  \/ /\ \/ \E st \in Statements : Write(st)
        \/ StoreHalf \/ StoreRest \/ EndUpdate
        \/ \E s \in Sessions : Select(s)
     /\ Watch
  \/ Rest

Spec == Init /\ [][Next]_vars

-----------------------------------------------------------------------------
(* Properties.                                                             *)

(* Invariant: every table points to rows that exist, each with a cell for  *)
(* every column; only under the write lock is one of them half written     *)
(* (state_store.go:166-176, 314-322).                                      *)
TypeOK ==
  /\ DOMAIN tables \subseteq TableNames /\ \A n \in DOMAIN tables : tables[n] \in DOMAIN objs
  /\ \A o \in DOMAIN objs :
       /\ objs[o].cols \in Seq(Columns) /\ objs[o].rows \in Seq(DOMAIN cells)
       /\ \A i \in DOMAIN objs[o].rows : Len(cells[objs[o].rows[i]]) = Len(objs[o].cols)
  /\ \A r \in DOMAIN cells : cells[r] \in Seq(Values \cup {Torn})
  /\ \A r \in DOMAIN cells : Torn \in ToSet(cells[r]) => \E t \in update.half : t[1] = r
  /\ \A s \in Sessions : call[s].pc \in {"idle", "found", "send"}

(* What a SELECT answers to a table's content.                             *)
Answer(st, t) ==
  LET hit == Those(t.rows, Hits(st.where, t.cols, t.rows))
  IN  IF st.cols = <<>> THEN hit ELSE [i \in DOMAIN hit |-> Projected(t.cols, st.cols, hit[i])]

(* Invariant: the rows a SELECT finds are the answer to one content its    *)
(* table had during the call, though another session drops, recreates or   *)
(* changes it between the lookup and the scan (state_store.go:203-228).    *)
SelectSeesOneState ==
  \A s \in Sessions :
    call[s].pc = "send" =>
      \E t \in seen[s] \ {NoTable} : call[s].view = Answer(call[s].st, t)

(* Refinement: to whoever holds the lock the store is the Tables that one  *)
(* statement at a time changes, although rows are shared with running      *)
(* SELECTs and overwritten in place (state_store.go:51-378).               *)
Abstract == INSTANCE Tables WITH db <- Db
StoreIsTables == Abstract!Spec

(* The i-th row a SELECT * has sent.                                       *)
SentRow(s, i) == LET width == Len(call[s].cols)
                 IN  SubSeq(call[s].sent, (i - 1) * width + 1, i * width)

(* What README.md:243 says of the stateful mode: SELECT and UPDATE work    *)
(* like in an actual database.  So a row a SELECT sends is a row its table *)
(* contained at some moment of the call.                                   *)
RowsSentWereStored ==
  \A s \in Sessions :
    call[s].pc = "send" /\ call[s].rows # <<>> =>
      \A i \in 1 .. (Len(call[s].sent) \div Len(call[s].cols)) :
        \E t \in seen[s] \ {NoTable} : SentRow(s, i) \in ToSet(t.rows)
=============================================================================
